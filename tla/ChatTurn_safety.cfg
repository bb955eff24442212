\* One turn: threads of the agent meet only in the attributes of the
\* retriever, which no property of this run reads (see GroundedChat_inspection).
CONSTANTS
    Turns = {t1}
    Executions = {}
    None = None
SPECIFICATION FairSpec
INVARIANTS TypeOK ShownIsValidated
PROPERTIES ImplementsProtocol TurnsEnd
CHECK_DEADLOCK FALSE
