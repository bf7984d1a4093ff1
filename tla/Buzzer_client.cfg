\* One client, as the static request of playMidiSound allows; a tune of 3 notes,
\* so that it is longer than a single note.
CONSTANTS
    Clients = {c1}
    TuneLen = 3
    Notes = {C3, D3}
SPECIFICATION FairSpec
INVARIANTS
    InsideSound
    NobodyWaitsForNothing
PROPERTIES
    NotesStay
    WaitReturns
