SPECIFICATION Spec
CONSTANTS
    Letters <- MCLetters
    PlanNames <- MCPlans
    HookKeys <- MCHooks
    Nodes <- MCNodes
    Lines <- MCLines
INVARIANTS
    NamesFit
    HooksApart
    NodesApart
    EditsSeen
CHECK_DEADLOCK FALSE
