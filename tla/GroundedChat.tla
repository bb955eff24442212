---------------------------- MODULE GroundedChat -----------------------------
(***************************************************************************)
(* The threads of the agent: those that answer chat questions retrieve,    *)
(* generate and validate, those that execute cases of evaluation runs      *)
(* retrieve and generate.  All share one StrategyRetriever over a vector   *)
(* and a hybrid retriever, whose attributes every search writes and a chat *)
(* thread reads after its search to describe its answer.                   *)
(*                                                                         *)
(* Abstractions.  Of the evidence only matters whether there is any; of an *)
(* answer, whether it cites it; of an execution, its search.  A            *)
(* description is the thread whose graph search it describes.              *)
(***************************************************************************)
EXTENDS Naturals, Sequences

CONSTANTS Turns,      \* questions
          Executions, \* cases of evaluation runs that are executed
          None        \* no graph search; no status yet

ASSUME NullAssumption  == None \notin Turns \cup Executions \cup {"completed", "abstained"}
ASSUME ApartAssumption == Turns \cap Executions = {}

\* Each request is served by a thread of its own.
Threads == Turns \cup Executions

VARIABLES
    agent,    \* [Threads -> Agent]: the request threads
    shared    \* [Cells -> Threads or None]: attributes of the retrievers

agentVars == <<agent, shared>>

-----------------------------------------------------------------------------
(* Types.                                                                  *)

Event == {"started", "evidence", "delta", "completed", "abstained", "error"}

Events == UNION {[1 .. n -> Event] : n \in 0 .. 4}

Work == {"retrieving", "searching", "enriching", "copying", "selecting",
         "describing", "generating", "validating"}

\* out: the events of a result that are left to write.
Agent == [pc : {"idle", "writing", "done"} \cup Work, strategy : {"vector", "hybrid"},
          evidence : BOOLEAN, answer : {None, "grounded", "scope limited", "unsupported"},
          status : {None, "completed", "abstained"}, described : Threads \cup {None},
          out : Events]

\* The assertion paths of Neo4jGraphRetriever, HybridRetriever, StrategyRetriever.
Cells == {"graph", "hybrid", "strategy"}

AgentInit ==
    /\ \E strategy \in [Threads -> {"vector", "hybrid"}] :
          agent = [t \in Threads |->
             [pc |-> "idle", strategy |-> strategy[t], evidence |-> FALSE, answer |-> None,
              status |-> None, described |-> None, out |-> <<>>]]
    /\ shared = [cell \in Cells |-> None]

-----------------------------------------------------------------------------
(* StrategyRetriever.search, which every thread runs.                      *)

Begin(t) == agent[t].pc = "idle" /\ agent' = [agent EXCEPT ![t].pc = "retrieving"]

Step(t, pc, next) == /\ agent[t].pc = pc
                     /\ agent' = [agent EXCEPT ![t].pc = next]

Hybrid(t) == agent[t].strategy = "hybrid"

\* HybridRetriever clears its path before it searches.
Clear(t) == /\ Step(t, "retrieving", "searching")
            /\ shared' = IF Hybrid(t) THEN [shared EXCEPT !["hybrid"] = None] ELSE shared

SearchVectors(t) ==
    /\ agent[t].pc = "searching"
    /\ \E evidence \in BOOLEAN :
          agent' = [agent EXCEPT ![t] = [@ EXCEPT
                       !.evidence = evidence,
                       !.pc = IF Hybrid(t) THEN "enriching" ELSE "selecting"]]
    /\ UNCHANGED shared

\* The plan uses the graph, which may add evidence; or it does not.
SearchGraph(t) ==
    /\ agent[t].pc = "enriching"
    /\ \E evidence \in BOOLEAN :
          /\ agent[t].evidence => evidence
          /\ agent' = [agent EXCEPT ![t] = [@ EXCEPT !.pc = "copying", !.evidence = evidence]]
    /\ shared' = [shared EXCEPT !["graph"] = t]

\* There is no graph release, no plan that uses it, or an error of either.
SkipGraph(t) == Step(t, "enriching", "selecting") /\ UNCHANGED shared

CopyPath(t) == /\ Step(t, "copying", "selecting")
               /\ shared' = [shared EXCEPT !["hybrid"] = shared["graph"]]

\* StrategyRetriever copies what the selected retriever says; an execution
\* goes on to generate and never looks at it.
Select(t) ==
    /\ Step(t, "selecting", IF t \in Turns THEN "describing" ELSE "generating")
    /\ shared' = [shared EXCEPT !["strategy"] =
                     IF Hybrid(t) THEN shared["hybrid"] ELSE None]

Search(t) ==
    \/ Clear(t) \/ SearchVectors(t) \/ SearchGraph(t) \/ SkipGraph(t) \/ CopyPath(t)
    \/ Select(t)

-----------------------------------------------------------------------------
(* GroundedChatGraph.run.                                                  *)

\* The graph node reads the attributes of the retriever.
Describe(t) ==
    /\ agent[t].pc = "describing"
    /\ agent' = [agent EXCEPT ![t] = [@ EXCEPT !.pc = "generating",
                                               !.described = shared["strategy"]]]
    /\ UNCHANGED shared

Generate(t) ==
    /\ agent[t].pc = "generating"
    /\ \E answer \in {"scope limited", "unsupported"} \cup
                     (IF agent[t].evidence THEN {"grounded"} ELSE {}) :
          agent' = [agent EXCEPT ![t] = [@ EXCEPT !.pc = "validating", !.answer = answer]]
    /\ UNCHANGED shared

Result(t, status, out) ==
    /\ agent' = [agent EXCEPT ![t] = [@ EXCEPT !.pc = "writing", !.status = status, !.out = out]]
    /\ UNCHANGED shared

\* Mutant: an answer needs no marker.
AnyAnswer(a) == TRUE

\* A marker names evidence, or the answer is declared to be out of scope.
Validated(a) == a.answer \in {"scope limited", "grounded"}

Validate(t) ==
    /\ agent[t].pc = "validating"
    /\ LET status == IF Validated(agent[t]) THEN "completed" ELSE "abstained"
       IN Result(t, status, <<"evidence", "delta", status>>)

\* An error of retrieval, generation or a provider.  Graph and planner errors
\* of a hybrid search are a SkipGraph, so none reaches the graph node as an
\* unavailable strategy.
Raise(t) == /\ agent[t].pc \in Work
            /\ Result(t, None, <<"error">>)

Run(t) == Search(t) \/ Describe(t) \/ Generate(t) \/ Validate(t) \/ Raise(t)

-----------------------------------------------------------------------------
(* EvaluationExecutor.execute.                                             *)

\* The execution returns its result or raises an error.
Leave(x) == /\ agent[x].pc \in Work
            /\ agent' = [agent EXCEPT ![x].pc = "done"]
            /\ UNCHANGED shared

Execute(x) == (Begin(x) /\ UNCHANGED shared) \/ Search(x) \/ Leave(x)

-----------------------------------------------------------------------------

\* The threads by themselves.
AgentNext == \/ \E t \in Turns : (Begin(t) /\ UNCHANGED shared) \/ Run(t)
             \/ \E x \in Executions : Execute(x)

AgentSpec == AgentInit /\ [][AgentNext]_agentVars

-----------------------------------------------------------------------------
(* Properties.                                                             *)

AgentTypeOK == agent \in [Threads -> Agent] /\ shared \in [Cells -> Threads \cup {None}]

-----------------------------------------------------------------------------
(* What the specification of the feature says and the code does not do.    *)

\* "Inspection data MUST remain scoped to the answer and its active corpus"
\* (specs/006-citation-inspection/spec.md:129): a completed answer describes
\* its own graph search or none.  The threads of the agent share the
\* retriever, and another search may run between a search and the reading of
\* its attributes.
InspectionIsScoped ==
    \A t \in Turns : agent[t].status = "completed" => agent[t].described \in {t, None}
=============================================================================
