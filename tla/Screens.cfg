SPECIFICATION Spec
CONSTANTS
    c1 = c1
    c2 = c2
    OutputsOf <- MCOutputsOf
    CrtcsOf <- MCCrtcsOf
    PrimaryNumber = 2
    None = None
    Clones = FALSE
    MaxGeometry = 2
    MaxChanges = 3
SYMMETRY Symmetry
INVARIANTS
    ListsAgree
    ScreensFollowOutputs
    PrimaryFollowsOutput
CHECK_DEADLOCK FALSE
