SPECIFICATION Spec
CONSTANTS
    None = None
    Empty = Empty
    Texts <- MCTexts
    Quantities <- MCQuantities
    Uid = "x"
    Used = {"x"}
    CAs = {"01"}
    FirstRequests <- MCFirstRequests
    FirstCAs <- MCFirstCAs
    Visits <- MCVisits
    CAChanges <- MCCAChanges
    Starts <- MCStarts
    Settings <- MCSettings
    CASettings <- MCCASettings
    Modifications <- MCModifications
INVARIANTS RecordsAreKept OneSecret 
PROPERTIES SetIsRead ModifyIsRead
