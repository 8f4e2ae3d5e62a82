SPECIFICATION Spec
CONSTANTS
    NOps = 4
    RolesUsed = {"output", "update"}
    MaxSplit = 2
INVARIANTS MarksAreComponents NeverCircular SubgraphsComplete ValidationExact CallOrderSound
PROPERTIES AddTaskReturns
