SPECIFICATION Spec
CONSTANTS
    z1 = z1
    z2 = z2
    v1 = v1
    v2 = v2
    n1 = n1
    n2 = n2
    n3 = n3
    None = None
    Valves = {v1, v2}
    Names = {n1, n2, n3}
    ZoneOrder <- BothZones
    MaxRecords = 4
    Budgets <- Histories
SYMMETRY Symmetry
PROPERTY HazardsKeepTheirValve
