CONSTANTS
    Keys <- MCKeys
    MetaFields <- MCMetaFields
    Values <- MCValues
    None = None
    MaxLen = 3
SPECIFICATION Spec
INVARIANT MinItemsEnforced
