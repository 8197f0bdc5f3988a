CONSTANTS
    UUIDs <- MCUUIDs
    Rows <- MCRows
    Engines <- OracleText
    None = None
    Error = Error
    NoRow = NoRow
SPECIFICATION Spec
INVARIANT RoundTrip
