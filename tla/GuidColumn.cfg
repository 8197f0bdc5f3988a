CONSTANTS
    UUIDs <- MCUUIDs
    Rows <- MCRows
    Engines <- GoodEngines
    None = None
    Error = Error
    NoRow = NoRow
SPECIFICATION Spec
INVARIANT RoundTrip
INVARIANT JunkNeverStored
PROPERTY ImplementsUUIDColumn
