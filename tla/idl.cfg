SPECIFICATION Spec
CONSTANTS
    Numbers = {"0", "1"}
    Quoted = {"''"}
    Shapes <- MCShapes
    MaxDefinitions = 2
    MaxMembers = 2
    MaxFragments = 2
INVARIANTS InterfacesStand MembersFound
CHECK_DEADLOCK FALSE
