CONSTANTS
    Handlers <- MCHandlers
    Syllables <- MCSyllables
    Names <- MCNames
    Types <- MCTypes
    NativeTypes = {"int", "obj"}
    ImmutableTypes = {"int"}
    ContainerTypes = {"obj", "model"}
    StructuredErrTypes = {"model"}
    Decoders <- MCDecoders
    DefaultTypeDecoders <- MCDefaultTypeDecoders
    TypeDecoders <- MCTypeDecoders
    Signature <- MCSignature
    DependencyNameSet <- MCDependencyNameSet
    HasDataDTO <- MCHasDataDTO
    RawInputs <- MCRawInputs
    QueryNames <- MCQueryNames
    DataName <- DATA
    NoDecoder = NoDecoder
    NoKey = NoKey
    NoSource = NoSource
    NoRequest = NoRequest
SPECIFICATION Spec
INVARIANT ClientErrorsNeverHidden
