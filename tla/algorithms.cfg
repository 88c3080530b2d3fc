SPECIFICATION Spec
CONSTANTS
    FirstYear = 2018
    FirstDay = 718
    LastDay = 1115
    MaxRange = 45
    a1 = a1
    a2 = a2
    a3 = a3
    Assets <- MCAssets
    Target = a1
    GraphsChecked <- MCGraphs
    MaxDuration = 200
    PoliciesChecked <- MCPolicies
    c1 = c1
    c2 = c2
    ColumnNames <- MCColumnNames
    Types <- MCTypes
    MaxLength = 9
    SchemasChecked <- MCSchemas
CHECK_DEADLOCK FALSE
INVARIANTS KeysExact MonthKeyExact PlanExact DelaysPaced HarmlessComposes HashFollowsDiff
