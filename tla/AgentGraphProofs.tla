-------------------------- MODULE AgentGraphProofs --------------------------
(***************************************************************************)
(* What a run of the interview promises for every knowledge base, every    *)
(* grant, every output of the models and every value of the budgets.       *)
(***************************************************************************)
EXTENDS AgentGraph, FiniteSetTheorems, SequenceTheorems, TLAPS

-----------------------------------------------------------------------------
(* What the operators return.                                              *)

\* A query finds published chunks of its scopes, and project chunks of its projects.
LEMMA FoundInScope ==
  ASSUME NEW scopes, NEW projects, NEW E \in Retrieve(scopes, projects)
  PROVE  /\ E \subseteq published
         /\ \A c \in E : /\ ScopeOf[c] \in scopes
                         /\ ScopeOf[c] = "project" => ProjectOf[c] \in projects
  BY DEF Retrieve, Nearest, Searchable

\* A tool never searches beyond the effective projects.
LEMMA ToolsStayInside ==
  ASSUME NEW requested PROVE ToolProjects(requested) \subseteq effective
  BY DEF ToolProjects

\* A revalidation finds no more than what is published and granted.
LEMMA RevalidatedStands ==
  ASSUME TypeOK PROVE Revalidated(registry) \subseteq registry \cap Searchable(Agents, effective)
<1>1. RevalidationScopes(registry) \subseteq Agents
  BY ChunkAssumption DEF TypeOK, RevalidationScopes, Agents
<1> QED BY <1>1 DEF Revalidated, StillFound, Searchable

\* Any order of some specialists is a sequence of specialists.
LEMMA OrdersAreSequences ==
  ASSUME NEW S \in SUBSET Agents, NEW s \in SetToSeqs(S) PROVE s \in Seq(Agents)
<1>1. IsFiniteSet(Agents)
  <2>1. IsFiniteSet({"profile"})
    BY FS_Singleton
  <2>2. IsFiniteSet({"profile"} \cup {"project"})
    BY <2>1, FS_AddElement
  <2>3. IsFiniteSet(({"profile"} \cup {"project"}) \cup {"technical"})
    BY <2>2, FS_AddElement
  <2>4. Agents = ({"profile"} \cup {"project"}) \cup {"technical"}
    BY DEF Agents
  <2> QED BY <2>3, <2>4
<1>2. Cardinality(S) \in Nat
  BY <1>1, FS_Subset, FS_CardinalityType
<1>3. s \in [1..Cardinality(S) -> Agents]
  BY DEF SetToSeqs
<1> QED BY <1>2, <1>3, SeqDef

-----------------------------------------------------------------------------
(* Types.                                                                  *)

AgentStates == [name : Agents \cup {None}, evidence : SUBSET Chunks, calls : Nat]
Counts == [steps : Nat, specialists : Nat, repairs : Nat, verifications : Nat]

LEMMA NothingTyped == NoAnswer \in Answers /\ NoAgent \in AgentStates
  BY DEF NoAnswer, Answers, Statuses, NoAgent, AgentStates

LEMMA CountsTyped ==
  ASSUME NEW c \in Counts
  PROVE  /\ [c EXCEPT !.steps = @ + 1] \in Counts
         /\ [c EXCEPT !.specialists = @ + 1] \in Counts
         /\ [c EXCEPT !.steps = @ + 1, !.verifications = @ + 1] \in Counts
         /\ [c EXCEPT !.steps = @ + 1, !.repairs = @ + 1] \in Counts
<1>1. /\ c.steps + 1 \in Nat /\ c.specialists + 1 \in Nat
      /\ c.verifications + 1 \in Nat /\ c.repairs + 1 \in Nat
  BY DEF Counts
<1>2. \A n \in Nat : [c EXCEPT !.steps = n] \in Counts /\ [c EXCEPT !.specialists = n] \in Counts
  BY DEF Counts
<1>3. \A n, k \in Nat : /\ [c EXCEPT !.steps = n, !.verifications = k] \in Counts
                        /\ [c EXCEPT !.steps = n, !.repairs = k] \in Counts
  BY DEF Counts
<1> QED BY <1>1, <1>2, <1>3

LEMMA DraftsTyped == ASSUME TypeOK, NEW a \in Drafts PROVE a \in Answers
<1>1. CASE registry = {}
  BY <1>1, NothingTyped DEF Drafts
<1>2. CASE registry # {}
  BY <1>2, Zenon DEF Drafts
<1> QED BY <1>1, <1>2

LEMMA FoundTyped ==
  ASSUME TypeOK, NEW scopes, NEW projects, NEW E \in Retrieve(scopes, projects) PROVE E \subseteq Chunks
  BY FoundInScope DEF TypeOK

LEMMA TypeInit == Init => TypeOK
<1> SUFFICES ASSUME Init PROVE TypeOK
  OBVIOUS
<1>1. selected \in Seq(Agents)
  BY EmptySeq DEF Init
<1>2. count \in Counts
  BY DEF Init, Counts
<1>3. effective \subseteq Projects /\ published \subseteq Chunks /\ node \in Nodes
  BY DEF Init, Nodes
<1> QED BY <1>1, <1>2, <1>3, NothingTyped DEF Init, TypeOK, AgentStates, Counts

LEMMA TypeStep == TypeOK /\ [Next]_vars => TypeOK'
<1> SUFFICES ASSUME TypeOK, [Next]_vars PROVE TypeOK'
  OBVIOUS
<1> USE DEF AgentStates, Counts
<1>0. /\ count \in Counts /\ agent \in AgentStates /\ draft \in Answers /\ final \in Answers
  BY DEF TypeOK
<1>1. CASE Route
  <2>1. PICK S \in SUBSET Agents : selected' \in SetToSeqs(S)
    BY <1>1 DEF Route
  <2>2. selected' \in Seq(Agents)
    BY <2>1, OrdersAreSequences
  <2>3. count' \in Counts /\ node' = "specialists"
    BY <1>0, <1>1, CountsTyped DEF Route, Step
  <2> QED BY <1>1, <2>2, <2>3 DEF Route, TypeOK, environment, Nodes
<1>2. CASE AskSpecialist
  <2>1. Head(selected) \in Agents /\ Tail(selected) \in Seq(Agents)
    BY <1>2, HeadTailProperties DEF AskSpecialist, TypeOK
  <2>2. agent' \in AgentStates
    BY <1>2, <2>1 DEF AskSpecialist, NoAgent
  <2>3. count' \in Counts
    BY <1>0, <1>2, CountsTyped DEF AskSpecialist
  <2> QED BY <1>2, <2>1, <2>2, <2>3 DEF AskSpecialist, TypeOK, environment, Nodes
<1>3. CASE SpecialistsDone
  <2>1. count' \in Counts /\ node' = "drafting"
    BY <1>0, <1>3, CountsTyped DEF SpecialistsDone, Step
  <2> QED BY <1>3, <2>1 DEF SpecialistsDone, TypeOK, environment, Nodes
<1>4. CASE Search
  <2>1. PICK requested \in SUBSET Projects :
             \E E \in Retrieve({agent.name}, ToolProjects(requested)) :
                agent' = [agent EXCEPT !.evidence = @ \cup E, !.calls = @ + 1]
    BY <1>4 DEF Search
  <2>2. PICK E \in Retrieve({agent.name}, ToolProjects(requested)) :
             agent' = [agent EXCEPT !.evidence = @ \cup E, !.calls = @ + 1]
    BY <2>1
  <2>3. E \subseteq Chunks
    BY <2>2, FoundTyped
  <2>4. agent.evidence \cup E \in SUBSET Chunks /\ agent.calls + 1 \in Nat
    BY <1>0, <2>3
  <2>5. \A F \in SUBSET Chunks, n \in Nat : [agent EXCEPT !.evidence = F, !.calls = n] \in AgentStates
    BY <1>0
  <2>6. agent' \in AgentStates
    BY <2>2, <2>4, <2>5
  <2> QED BY <1>4, <2>6 DEF Search, TypeOK, environment
<1>5. ASSUME NEW E \in SUBSET agent.evidence, node = "searching", Register(E) PROVE TypeOK'
  <2>1. E \subseteq Chunks
    BY <1>0
  <2> QED BY <1>5, <2>1, NothingTyped DEF Register, TypeOK, environment, Nodes, Endings
<1>6. CASE FinishSearch \/ ExhaustBudget \/ SpecialistErrs
  BY <1>5, <1>6 DEF FinishSearch, ExhaustBudget, SpecialistErrs
<1>7. CASE Draft
  <2>1. count' \in Counts /\ node' = "verification" /\ draft' \in Answers
    BY <1>0, <1>7, CountsTyped, DraftsTyped DEF Draft, Step
  <2> QED BY <1>7, <2>1 DEF Draft, TypeOK, environment, Nodes
<1>8. CASE Revalidate
  <2>1. Revalidated(registry) \subseteq Chunks /\ registry \cap Searchable(Agents, effective) \subseteq Chunks
    BY RevalidatedStands DEF TypeOK
  <2> QED BY <1>8, <2>1 DEF Revalidate, TypeOK, environment, Nodes, Endings
<1>9. CASE Judge
  <2>1. count' \in Counts /\ node' \in {"repair", "finalize"}
    BY <1>0, <1>9, CountsTyped DEF Judge
  <2>2. passed' \in BOOLEAN
    BY <1>9 DEF Judge, Passes
  <2> QED BY <1>9, <2>1, <2>2 DEF Judge, TypeOK, environment, Nodes
<1>10. CASE Repair
  <2>1. count' \in Counts /\ draft' \in Answers
    BY <1>0, <1>10, CountsTyped, DraftsTyped DEF Repair
  <2> QED BY <1>10, <2>1 DEF Repair, TypeOK, environment, Nodes
<1>11. CASE Finalize
  <2>1. count' \in Counts /\ node' = "end"
    BY <1>0, <1>11, CountsTyped DEF Finalize, Step
  <2>2. final' \in Answers
    BY <1>0, <1>11 DEF Finalize, Conservative, Answers, Statuses
  <2> QED BY <1>11, <2>1, <2>2 DEF Finalize, TypeOK, environment, Endings
<1>12. CASE RetrieveOnce
  <2>1. registry' \subseteq Chunks
    BY <1>12, FoundTyped DEF RetrieveOnce
  <2> QED BY <1>12, <2>1 DEF RetrieveOnce, TypeOK, environment, Nodes, Endings
<1>13. CASE Answer
  <2>1. draft' \in Answers
    BY <1>0, <1>13 DEF Answer, Answers, Statuses, TypeOK
  <2> QED BY <1>13, <2>1 DEF Answer, TypeOK, environment, Nodes, Endings
<1>14. CASE Cite
  <2>1. Revalidated(registry) \subseteq Chunks /\ registry \cap Searchable(Agents, effective) \subseteq Chunks
    BY RevalidatedStands DEF TypeOK
  <2>2. final' \in Answers
    BY <1>0, <1>14, NothingTyped DEF Cite
  <2> QED BY <1>14, <2>1, <2>2 DEF Cite, TypeOK, environment, Endings
<1>15. CASE Fail
  BY <1>15 DEF Fail, TypeOK, environment, Endings
<1>16. CASE Manage
  BY <1>16 DEF Manage, run, Publish, TakeDown, Revoke, TypeOK
<1>17. CASE UNCHANGED vars
  BY <1>17 DEF vars, run, environment, TypeOK
<1> QED
  BY <1>1, <1>2, <1>3, <1>4, <1>6, <1>7, <1>8, <1>9, <1>10, <1>11, <1>12, <1>13, <1>14, <1>15,
     <1>16, <1>17 DEF Next, Run

\* A run keeps its types, whatever the models answer.
THEOREM AgentTypeCorrect == Spec => []TypeOK
<1>1. Init => TypeOK
  BY TypeInit
<1>2. TypeOK /\ [Next]_vars => TypeOK'
  BY TypeStep
<1> QED BY <1>1, <1>2, PTL DEF Spec

-----------------------------------------------------------------------------
(* Evidence in scope.                                                      *)

\* The actions that leave the evidence alone.
KeepsEvidence == UNCHANGED <<effective, registry, agent>>

LEMMA EvidenceFrame ==
  ASSUME Route \/ SpecialistsDone \/ Draft \/ Revalidate \/ Judge \/ Repair \/ Finalize \/ Answer
         \/ Cite \/ Fail \/ Manage \/ UNCHANGED vars
  PROVE  KeepsEvidence
  BY DEF KeepsEvidence, Route, SpecialistsDone, Draft, Revalidate, Judge, Repair, Finalize, Answer,
         Cite, Fail, Manage, vars, run

LEMMA ScopeStep == TypeOK /\ EvidenceInScope /\ [Next]_vars => EvidenceInScope'
<1> SUFFICES ASSUME TypeOK, EvidenceInScope, [Next]_vars PROVE EvidenceInScope'
  OBVIOUS
<1>1. CASE KeepsEvidence
  BY <1>1 DEF KeepsEvidence, EvidenceInScope, InScope
<1>2. CASE AskSpecialist
  BY <1>2 DEF AskSpecialist, NoAgent, EvidenceInScope, InScope
<1>3. CASE Search
  <2>1. PICK requested \in SUBSET Projects :
             \E E \in Retrieve({agent.name}, ToolProjects(requested)) :
                agent' = [agent EXCEPT !.evidence = @ \cup E, !.calls = @ + 1]
    BY <1>3 DEF Search
  <2>2. PICK E \in Retrieve({agent.name}, ToolProjects(requested)) :
             agent' = [agent EXCEPT !.evidence = @ \cup E, !.calls = @ + 1]
    BY <2>1
  <2>3. agent'.evidence = agent.evidence \cup E /\ agent'.name = agent.name
    BY <2>2 DEF TypeOK
  <2>4. \A c \in E : ScopeOf[c] = agent.name /\ (ScopeOf[c] = "project" => ProjectOf[c] \in effective)
    BY FoundInScope, ToolsStayInside
  <2> QED BY <1>3, <2>3, <2>4 DEF Search, EvidenceInScope, InScope
<1>4. ASSUME NEW E \in SUBSET agent.evidence, Register(E) PROVE EvidenceInScope'
  <2>1. agent'.evidence = {} /\ registry' \subseteq registry \cup agent.evidence /\ effective' = effective
    BY <1>4 DEF Register, NoAgent
  <2> QED BY <2>1 DEF EvidenceInScope, InScope
<1>5. CASE FinishSearch \/ ExhaustBudget \/ SpecialistErrs
  BY <1>4, <1>5 DEF FinishSearch, ExhaustBudget, SpecialistErrs
<1>6. CASE RetrieveOnce
  <2>1. \A c \in registry' : ScopeOf[c] = "project" => ProjectOf[c] \in effective
    BY <1>6, FoundInScope DEF RetrieveOnce
  <2> QED BY <1>6, <2>1 DEF RetrieveOnce, EvidenceInScope, InScope
<1> QED BY <1>1, <1>2, <1>3, <1>5, <1>6, EvidenceFrame DEF Next, Run

\* Whatever project a model asks its tools for, the evidence comes from projects that
\* were asked for and granted, and from the specialist's own kind.
THEOREM ScopeKept == Spec => []EvidenceInScope
<1>1. Init => EvidenceInScope
  BY DEF Init, EvidenceInScope, InScope, NoAgent
<1>2. TypeOK /\ EvidenceInScope /\ [Next]_vars => EvidenceInScope'
  BY ScopeStep
<1> QED BY <1>1, <1>2, AgentTypeCorrect, PTL DEF Spec

-----------------------------------------------------------------------------
(* Budgets.  What the graph still needs from a node to its end is left of   *)
(* its steps: that of a repair was reserved when it was decided.           *)

StepsLeft ==
  /\ node = "routing" => count.steps + 5 <= MaxSteps
  /\ node \in {"specialists", "searching"} => count.steps + 4 <= MaxSteps
  /\ node \in {"drafting", "repair"} => count.steps + 3 <= MaxSteps
  /\ node \in {"verification", "judging"} => count.steps + 2 <= MaxSteps
  /\ node = "finalize" => count.steps + 1 <= MaxSteps
  /\ node = "repair" => count.repairs < MaxRepairs
  /\ node \in {"routing", "specialists", "searching", "drafting", "verification", "judging", "repair"}
        => count.verifications < MaxVerifications

BudgetInv == BudgetsKept /\ StepsLeft

LEMMA BudgetTypes ==
  ASSUME TypeOK
  PROVE  /\ count \in Counts /\ agent \in AgentStates
         /\ {count.steps, count.specialists, count.repairs, count.verifications, agent.calls} \subseteq Nat
         /\ {MaxSteps, MaxSpecialists, MaxRepairs, MaxVerifications, MaxToolCalls} \subseteq Nat
  BY BudgetAssumption DEF TypeOK, Counts, AgentStates

LEMMA BudgetInit == Init => BudgetInv
  BY BudgetAssumption DEF Init, BudgetInv, BudgetsKept, StepsLeft, NoAgent

LEMMA BudgetStep == TypeOK /\ BudgetInv /\ [Next]_vars => BudgetInv'
<1> SUFFICES ASSUME TypeOK, BudgetInv, [Next]_vars PROVE BudgetInv'
  OBVIOUS
<1>0. /\ count \in Counts /\ agent \in AgentStates
      /\ count.steps \in Nat /\ count.specialists \in Nat /\ count.repairs \in Nat
      /\ count.verifications \in Nat /\ agent.calls \in Nat
      /\ MaxSteps \in Nat /\ MaxSpecialists \in Nat /\ MaxRepairs \in Nat
      /\ MaxVerifications \in Nat /\ MaxToolCalls \in Nat
  BY BudgetTypes
<1> USE DEF BudgetInv, BudgetsKept, StepsLeft
<1>1. ASSUME NEW n, Step(n)
      PROVE  /\ count'.steps = count.steps + 1 /\ count'.specialists = count.specialists
             /\ count'.repairs = count.repairs /\ count'.verifications = count.verifications
             /\ node' = n
  BY <1>0, <1>1 DEF Step, Counts
<1>2. CASE Route \/ SpecialistsDone \/ Draft \/ Finalize
  <2>1. CASE Route
    <3>1. node = "routing" /\ Step("specialists") /\ agent' = agent
      BY <2>1 DEF Route
    <3> QED BY <1>0, <1>1, <3>1
  <2>2. CASE SpecialistsDone
    <3>1. node = "specialists" /\ Step("drafting") /\ agent' = agent
      BY <2>2 DEF SpecialistsDone
    <3> QED BY <1>0, <1>1, <3>1
  <2>3. CASE Draft
    <3>1. node = "drafting" /\ Step("verification") /\ agent' = agent
      BY <2>3 DEF Draft
    <3> QED BY <1>0, <1>1, <3>1
  <2>4. CASE Finalize
    <3>1. node = "finalize" /\ Step("end") /\ agent' = agent
      BY <2>4 DEF Finalize
    <3> QED BY <1>0, <1>1, <3>1
  <2> QED BY <1>2, <2>1, <2>2, <2>3, <2>4
<1>3. CASE AskSpecialist
  <2>1. /\ count'.steps = count.steps /\ count'.specialists = count.specialists + 1
        /\ count'.repairs = count.repairs /\ count'.verifications = count.verifications
        /\ agent'.calls = 0
    BY <1>0, <1>3 DEF AskSpecialist, NoAgent, Counts
  <2> QED BY <1>0, <1>3, <2>1 DEF AskSpecialist
<1>4. CASE Search
  <2>1. agent'.calls = agent.calls + 1
    BY <1>0, <1>4 DEF Search, AgentStates
  <2> QED BY <1>0, <1>4, <2>1 DEF Search
<1>5. ASSUME NEW E, node = "searching", Register(E) PROVE BudgetInv'
  <2>1. agent'.calls = 0
    BY <1>5 DEF Register, NoAgent
  <2> QED BY <1>0, <1>5, <2>1 DEF Register
<1>6. CASE FinishSearch \/ ExhaustBudget \/ SpecialistErrs
  BY <1>5, <1>6 DEF FinishSearch, ExhaustBudget, SpecialistErrs
<1>7. CASE Revalidate
  BY <1>0, <1>7 DEF Revalidate
<1>8. CASE Judge
  <2>1. /\ count'.steps = count.steps + 1 /\ count'.specialists = count.specialists
        /\ count'.repairs = count.repairs /\ count'.verifications = count.verifications + 1
    BY <1>0, <1>8 DEF Judge, Counts
  <2>2. \/ node' = "finalize"
        \/ node' = "repair" /\ CanRepair(count.steps + 1, count.verifications + 1)
    BY <1>8, <2>1 DEF Judge
  <2>3. node = "judging" /\ agent' = agent
    BY <1>8 DEF Judge
  <2>4. CASE node' = "finalize"
    BY <1>0, <2>1, <2>3, <2>4
  <2>5. CASE node' = "repair" /\ CanRepair(count.steps + 1, count.verifications + 1)
    BY <1>0, <2>1, <2>3, <2>5 DEF CanRepair
  <2> QED BY <2>2, <2>4, <2>5
<1>9. CASE Repair
  <2>1. /\ count'.steps = count.steps + 1 /\ count'.specialists = count.specialists
        /\ count'.repairs = count.repairs + 1 /\ count'.verifications = count.verifications
    BY <1>0, <1>9 DEF Repair, Counts
  <2> QED BY <1>0, <1>9, <2>1 DEF Repair
<1>10. CASE RetrieveOnce \/ Answer \/ Cite \/ Fail
  BY <1>10 DEF RetrieveOnce, Answer, Cite, Fail
<1>11. CASE Manage \/ UNCHANGED vars
  BY <1>11 DEF Manage, vars, run
<1> QED BY <1>2, <1>3, <1>4, <1>6, <1>7, <1>8, <1>9, <1>10, <1>11 DEF Next, Run

\* No output of the models makes a run exceed a budget.
THEOREM BudgetsHeld == Spec => []BudgetsKept
<1>1. BudgetInv => BudgetsKept
  BY DEF BudgetInv
<1> QED BY <1>1, BudgetInit, BudgetStep, AgentTypeCorrect, PTL DEF Spec

-----------------------------------------------------------------------------
(* Citations.                                                              *)

CitationInv ==
  /\ current \subseteq standing
  /\ node \notin {"end"} => final = NoAnswer
  /\ node = "finalize" /\ passed => draft.citations \subseteq standing
  /\ CitationsRevalidated

\* The actions before the answer that look nothing up and judge nothing.
LEMMA CitationFrame ==
  ASSUME Route \/ AskSpecialist \/ SpecialistsDone \/ Search \/ FinishSearch \/ ExhaustBudget
         \/ SpecialistErrs
  PROVE  /\ node \notin {"end", "finalize"} /\ node' \notin {"end", "finalize"}
         /\ UNCHANGED <<current, standing, final>>
  BY DEF Route, AskSpecialist, SpecialistsDone, Search, FinishSearch, ExhaustBudget, SpecialistErrs,
         Register, Step

LEMMA CitationStep == TypeOK /\ CitationInv /\ [Next]_vars => CitationInv'
<1> SUFFICES ASSUME TypeOK, CitationInv, [Next]_vars PROVE CitationInv'
  OBVIOUS
<1> USE DEF CitationInv, CitationsRevalidated
<1>1. CASE Route \/ AskSpecialist \/ SpecialistsDone \/ Search \/ FinishSearch \/ ExhaustBudget
           \/ SpecialistErrs
  BY <1>1, CitationFrame
<1>2. CASE Draft \/ Repair
  BY <1>2 DEF Draft, Repair, Step
<1>3. CASE Revalidate
  BY <1>3, RevalidatedStands DEF Revalidate
<1>4. CASE Judge
  BY <1>4 DEF Judge, Passes
<1>5. CASE Finalize
  BY <1>5 DEF Finalize, Step, Conservative
<1>6. CASE RetrieveOnce \/ Answer
  BY <1>6 DEF RetrieveOnce, Answer, NoAnswer
<1>7. CASE Cite
  <2>1. passed' = (draft.citations \subseteq current') /\ current' \subseteq standing'
    BY <1>7, RevalidatedStands DEF Cite
  <2>2. final' = (IF passed' THEN draft ELSE NoAnswer) /\ draft' = draft /\ node' = "end"
    BY <1>7 DEF Cite
  <2> QED BY <2>1, <2>2 DEF NoAnswer
<1>8. CASE Fail \/ Manage \/ UNCHANGED vars
  BY <1>8 DEF Fail, Manage, vars, run, Nodes
<1> QED BY <1>1, <1>2, <1>3, <1>4, <1>5, <1>6, <1>7, <1>8 DEF Next, Run

\* Every citation of a published answer was looked up again after the draft that
\* cites it was written, and an answer with citations passed its verification.
THEOREM CitationsHeld == Spec => []CitationsRevalidated
<1>1. Init => CitationInv
  BY DEF Init, CitationInv, CitationsRevalidated
<1>2. TypeOK /\ CitationInv /\ [Next]_vars => CitationInv'
  BY CitationStep
<1>3. CitationInv => CitationsRevalidated
  BY DEF CitationInv
<1> QED BY <1>1, <1>2, <1>3, AgentTypeCorrect, PTL DEF Spec

-----------------------------------------------------------------------------
(* Termination.  Work is a natural number because the budgets are kept, and *)
(* every step of the run takes something of it.                             *)

LEMMA ProductTyped == ASSUME NEW a \in Nat, NEW b \in Nat PROVE a * b \in Nat
OBVIOUS

LEMMA OneFactorLess ==
  ASSUME NEW m \in Nat, NEW s \in Nat, NEW k \in Nat PROVE (m - (s + 1)) * k = (m - s) * k - k
OBVIOUS

\* The work of the specialists that are still to be asked, and of the one that runs.
Loop == (MaxSpecialists - count.specialists) * (MaxToolCalls + 2)
Searching == IF node = "searching" THEN MaxToolCalls - agent.calls + 1 ELSE 0

WorkShape ==
  /\ Loop \in Nat /\ Searching \in Nat
  /\ NodesLeft \in 1..6 /\ 3 * (MaxRepairs - count.repairs) \in Nat
  /\ Work = IF node \in Endings THEN 0
            ELSE NodesLeft + 3 * (MaxRepairs - count.repairs) + (Loop + Searching)

LEMMA WorkParts == TypeOK /\ BudgetsKept => WorkShape
<1> SUFFICES ASSUME TypeOK, BudgetsKept PROVE WorkShape
  OBVIOUS
<1>1. MaxSpecialists - count.specialists \in Nat /\ MaxToolCalls + 2 \in Nat
  BY BudgetTypes DEF BudgetsKept
<1>2. Loop \in Nat
  BY <1>1, ProductTyped DEF Loop
<1>3. Searching \in Nat /\ 3 * (MaxRepairs - count.repairs) \in Nat
  BY BudgetTypes DEF BudgetsKept, Searching
<1>4. NodesLeft \in 1..6
  BY DEF NodesLeft
<1>5. SpecialistWork = Loop + Searching
  BY DEF SpecialistWork, Loop, Searching
<1> QED BY <1>2, <1>3, <1>4, <1>5 DEF Work, WorkShape

\* A step that counts neither a specialist nor a repair, and moves nearer to the end.
LEMMA NearerNode ==
  ASSUME WorkShape, WorkShape', node \in Nodes,
         count'.specialists = count.specialists, count'.repairs = count.repairs,
         node' \notin Endings => NodesLeft' < NodesLeft /\ Searching' <= Searching
  PROVE  Work' < Work
<1>1. Loop' = Loop
  BY DEF Loop
<1>2. node \notin Endings
  BY DEF Nodes, Endings
<1> QED BY <1>1, <1>2 DEF WorkShape

LEMMA WorkStep ==
  ASSUME TypeOK, BudgetInv, [Next]_vars, WorkShape, WorkShape'
  PROVE  Work' < Work \/ UNCHANGED run
<1>0. /\ count \in Counts /\ agent \in AgentStates
      /\ count.specialists \in Nat /\ count.repairs \in Nat /\ agent.calls \in Nat
      /\ MaxSpecialists \in Nat /\ MaxToolCalls \in Nat /\ MaxRepairs \in Nat
  BY BudgetTypes
<1>1. ASSUME Route \/ SpecialistsDone \/ Draft \/ Judge \/ Finalize
      PROVE  count'.specialists = count.specialists /\ count'.repairs = count.repairs
  BY <1>0, <1>1 DEF Route, SpecialistsDone, Draft, Judge, Finalize, Step, Counts
<1>2. CASE Route \/ SpecialistsDone \/ Draft \/ Judge \/ Finalize
  <2>1. \/ node = "routing" /\ node' = "specialists"
        \/ node = "specialists" /\ node' = "drafting"
        \/ node = "drafting" /\ node' = "verification"
        \/ node = "judging" /\ node' \in {"repair", "finalize"}
        \/ node = "finalize" /\ node' = "end"
    BY <1>2 DEF Route, SpecialistsDone, Draft, Judge, Finalize, Step
  <2>2. /\ node \in Nodes /\ Searching' = 0 /\ Searching = 0
        /\ node' \notin Endings => NodesLeft' < NodesLeft
    BY <2>1 DEF Nodes, Endings, NodesLeft, Searching
  <2> QED BY <1>1, <1>2, <2>2, NearerNode
<1>3. CASE AskSpecialist
  <2>1. /\ count'.specialists = count.specialists + 1 /\ count'.repairs = count.repairs
        /\ agent'.calls = 0 /\ node = "specialists" /\ node' = "searching"
    BY <1>0, <1>3 DEF AskSpecialist, NoAgent, Counts
  <2>2. Loop' = Loop - (MaxToolCalls + 2)
    BY <1>0, <2>1, OneFactorLess DEF Loop
  <2>3. Searching = 0 /\ Searching' = MaxToolCalls + 1
    BY <1>0, <2>1 DEF Searching
  <2>4. NodesLeft' = NodesLeft /\ node \notin Endings /\ node' \notin Endings
    BY <2>1 DEF NodesLeft, Endings
  <2> QED BY <1>0, <2>1, <2>2, <2>3, <2>4 DEF WorkShape
<1>4. CASE Search
  <2>1. /\ agent'.calls = agent.calls + 1 /\ node = "searching"
        /\ node' = node /\ count' = count
    BY <1>0, <1>4 DEF Search, AgentStates
  <2>2. Searching' = Searching - 1 /\ Loop' = Loop /\ NodesLeft' = NodesLeft /\ node \notin Endings
    BY <1>0, <2>1 DEF Searching, Loop, NodesLeft, Endings
  <2> QED BY <1>0, <2>1, <2>2 DEF WorkShape
<1>5. ASSUME NEW E, node = "searching", Register(E) PROVE Work' < Work
  <2>1. node' \in {"specialists", "invalid"} /\ count' = count
    BY <1>5 DEF Register
  <2>2. Searching' = 0 /\ Searching > 0 /\ Loop' = Loop
    BY <1>0, <1>5, <2>1 DEF Searching, Loop, BudgetInv, BudgetsKept
  <2>3. NodesLeft' = NodesLeft \/ node' \in Endings
    BY <1>5, <2>1 DEF NodesLeft, Endings
  <2>4. node \notin Endings
    BY <1>5 DEF Endings
  <2> QED BY <1>0, <2>1, <2>2, <2>3, <2>4 DEF WorkShape
<1>6. CASE FinishSearch \/ ExhaustBudget \/ SpecialistErrs
  BY <1>5, <1>6 DEF FinishSearch, ExhaustBudget, SpecialistErrs
<1>7. CASE Revalidate \/ RetrieveOnce \/ Answer \/ Cite \/ Fail
  <2>1. /\ node \in Nodes /\ count' = count
        /\ node' \notin Endings => /\ NodesLeft' < NodesLeft
                                   /\ Searching' = 0 /\ Searching = 0
    BY <1>7 DEF Revalidate, RetrieveOnce, Answer, Cite, Fail, Nodes, Endings, NodesLeft, Searching
  <2> QED BY <2>1, NearerNode
<1>8. CASE Repair
  <2>1. /\ count'.specialists = count.specialists /\ count'.repairs = count.repairs + 1
        /\ node = "repair" /\ node' = "verification"
    BY <1>0, <1>8 DEF Repair, Counts
  <2>2. /\ Loop' = Loop /\ Searching' = 0 /\ Searching = 0 /\ NodesLeft = 1 /\ NodesLeft' = 3
        /\ node \notin Endings /\ node' \notin Endings
    BY <2>1 DEF Loop, Searching, NodesLeft, Endings
  <2> QED BY <1>0, <2>1, <2>2 DEF WorkShape
<1>9. CASE Manage \/ UNCHANGED vars
  BY <1>9 DEF Manage, vars
<1> QED BY <1>2, <1>3, <1>4, <1>6, <1>7, <1>8, <1>9 DEF Next, Run

\* Whatever the models answer, every step of a run takes something of a natural
\* number: no run makes more steps than that, for any budgets.
THEOREM RunsShrink == Spec => WorkShrinks
<1>1. TypeOK /\ BudgetInv /\ TypeOK' /\ BudgetInv' /\ [Next]_vars
        => {Work, Work'} \subseteq Nat /\ (Work' < Work \/ UNCHANGED run)
  <2>1. ASSUME TypeOK, BudgetInv, TypeOK', BudgetInv', [Next]_vars
        PROVE  {Work, Work'} \subseteq Nat /\ (Work' < Work \/ UNCHANGED run)
    <3>1. WorkShape
      BY <2>1, WorkParts DEF BudgetInv
    <3>2. (TypeOK /\ BudgetsKept => WorkShape)'
      BY WorkParts, PTL
    <3>3. WorkShape'
      BY <2>1, <3>2 DEF BudgetInv
    <3>4. Work' < Work \/ UNCHANGED run
      BY <2>1, <3>1, <3>3, WorkStep
    <3> QED BY <3>1, <3>3, <3>4 DEF WorkShape
  <2> QED BY <2>1
<1> QED BY <1>1, BudgetInit, BudgetStep, AgentTypeCorrect, PTL DEF Spec, WorkShrinks
=============================================================================
