CONSTANTS
    Clients = {c1}
    TuneLen = 3
    Notes = {C3, D3}
SPECIFICATION Spec
PROPERTIES
    WaitsUntilCompleted
