SPECIFICATION ToolSpec
CONSTANTS
    c1 = c1
    c2 = c2
    None = None
    Calls <- MCCalls
    Roles <- MCRoles
    Tools <- MCTools
SYMMETRY CallSymmetry
INVARIANT UserToolsUsable
