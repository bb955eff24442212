\* One chat thread of the agent beside one that executes an evaluation case.
CONSTANTS
    Turns = {t1}
    Executions = {e1}
    None = None
SPECIFICATION AgentSpec
INVARIANT InspectionIsScoped
CHECK_DEADLOCK FALSE
