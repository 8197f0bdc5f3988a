--------------------------- MODULE SignatureModel ---------------------------
(***************************************************************************)
(* litestar/_signature/model.py: the signature model of route handlers.    *)
(*                                                                         *)
(* SignatureModel.create builds one msgspec Struct per handler from its    *)
(* parsed signature; while it builds each field's annotation it stores the *)
(* decoder of the field's type as an attribute `_decoder` ON THE TYPE      *)
(* OBJECT, which every handler of the process shares.  For each request,   *)
(* parse_values_from_connection_kwargs converts the raw kwargs into the    *)
(* Struct; on failure it projects the decode errors into ErrorMessage      *)
(* records and raises a ValidationException (client error) or an           *)
(* InternalServerException (failure of injected dependencies only).        *)
(*                                                                         *)
(* Handlers may be registered at any time (Litestar.register at runtime),  *)
(* so creation and requests interleave.  Each request is processed without *)
(* an await, hence atomically.                                             *)
(*                                                                         *)
(* Data abstraction.  A name (a parameter name, a member of a nested       *)
(* value, a key segment) is its text as a sequence of syllables, so the    *)
(* string operations the code performs on keys (".".join, startswith,      *)
(* replace("data.", "")) are modelled on that sequence; "." never occurs   *)
(* inside a name.  A raw value is a record [k, t, at]: its shape k, the    *)
(* type t whose format it has, and for a mapping with one bad member the   *)
(* name `at` of that member.                                               *)
(***************************************************************************)
EXTENDS Naturals, Sequences, FiniteSets

CONSTANTS
    Handlers,          \* route handler functions fn
    Syllables,         \* syllables that names are made of ("data", "set", ...)
    Names,             \* parameter names and member names, as syllable sequences
    Types,             \* the base types annotations are built from
    NativeTypes,       \* types msgspec converts itself (dec_hook never called)
    ImmutableTypes,    \* builtin types: setattr(annotation, "_decoder", .) raises
    ContainerTypes,    \* types whose values have members (errors carry `$.member`)
    StructuredErrTypes,\* types whose default deserializer raises ExtendedMsgSpecValidationError
    Decoders,          \* decoder functions of the type-decoder registries
    DefaultTypeDecoders, \* DEFAULT_TYPE_DECODERS, appended to every handler's list
    TypeDecoders,      \* type_decoders handed to create, per handler
    Signature,         \* parsed_signature.parameters, per handler, in order
    DependencyNameSet, \* dependency_name_set handed to create, per handler
    HasDataDTO,        \* has_data_dto handed to create, per handler
    RawInputs,         \* raw values a request may carry for a parameter
    QueryNames,        \* names that may appear as query parameters of a connection
    DataName,          \* the name "data" of the request body parameter
    NoDecoder, NoKey, NoSource, NoRequest  \* sentinels

(* A type annotation as parsed_signature describes it (FieldDefinition):   *)
(* Any, a plain type, or a union of types (optional when None is among    *)
(* the members; NoneType itself is not listed in ts).                      *)
Decls == [kind : {"any", "plain", "union"}, ts : Seq(Types), optional : BOOLEAN]

(* The kwarg_definition of a parameter: none, ParameterKwarg (query,       *)
(* header=..., cookie=...), BodyKwarg, or DependencyKwarg.                 *)
KwargKinds == {"none", "param_query", "param_header", "param_cookie", "body", "dependency"}

ParamRecs == [name : Names, decl : Decls, hasDefault : BOOLEAN, kwarg : KwargKinds]

(* A type-decoder registry entry: (predicate, decoder); the predicate is   *)
(* the set of types it accepts.                                            *)
DecoderEntries == [match : SUBSET Types, dec : Decoders]

RawValues == [k : {"none", "missing", "text", "inst", "nested"},
              t : Types, at : Names]

(* A converted value: the raw value it came from and what produced it.     *)
Producers == {"native", "pass", "default_deserializer", "field_default", "any", "none"} \cup Decoders
Vals == [raw : RawValues, by : Producers]

(* Error sources (ParamType and "body").                                   *)
Sources == {"query", "header", "cookie", "body"}

KeyTexts == Seq(Syllables \cup {"."})

ASSUME ConstantsAssumption ==
    /\ Names \subseteq Seq(Syllables) \ {<<>>}
    /\ "." \notin Syllables
    /\ NativeTypes \subseteq Types /\ ImmutableTypes \subseteq NativeTypes
    /\ ContainerTypes \subseteq Types
    /\ StructuredErrTypes \subseteq Types \ NativeTypes
    /\ DefaultTypeDecoders \in Seq(DecoderEntries)
    /\ TypeDecoders \in [Handlers -> Seq(DecoderEntries)]
    /\ Signature \in [Handlers -> Seq(ParamRecs)]
    /\ \A h \in Handlers : \A i, j \in 1..Len(Signature[h]) :
           Signature[h][i].name = Signature[h][j].name => i = j
    /\ \A h \in Handlers : \A i \in 1..Len(Signature[h]) :
           LET d == Signature[h][i].decl IN
           /\ d.kind # "any" => d.ts # <<>>
           /\ d.kind = "plain" => Len(d.ts) = 1
    /\ DependencyNameSet \in [Handlers -> SUBSET Names]
    /\ HasDataDTO \in [Handlers -> BOOLEAN]
    /\ RawInputs \subseteq RawValues
    /\ QueryNames \subseteq Names
    /\ DataName \in Names
    /\ NoDecoder \notin Decoders
    /\ NoKey \notin KeyTexts
    /\ NoSource \notin Sources

VARIABLES
    status,      \* per handler: "new", "registered" (create returned), "failed" (create raised)
    decoderAttr, \* the `_decoder` attribute of each (mutable) type object, shared by all handlers
    last         \* the outcome of the latest parse_values_from_connection_kwargs

vars == <<status, decoderAttr, last>>

MutableTypes == Types \ ImmutableTypes

-----------------------------------------------------------------------------
(* Parameters of a handler.                                                *)
Idx(h) == 1 .. Len(Signature[h])
Fields(h) == {Signature[h][i].name : i \in Idx(h)}
Param(h, f) == Signature[h][CHOOSE i \in Idx(h) : Signature[h][i].name = f]
IsDependency(h, f) == f \in DependencyNameSet[h]

(* _get_decoder_for_type: the first entry of the handler's type_decoders   *)
(* followed by DEFAULT_TYPE_DECODERS whose predicate accepts the type.     *)
DecoderChain(h) == TypeDecoders[h] \o DefaultTypeDecoders
GetDecoder(h, T) ==
    LET hits == {i \in 1 .. Len(DecoderChain(h)) : T \in DecoderChain(h)[i].match}
    IN  IF hits = {} THEN NoDecoder
        ELSE DecoderChain(h)[CHOOSE i \in hits : \A j \in hits : i <= j].dec

(* _normalize_annotation: with a data DTO the "data" parameter is Any.     *)
NormalizedDecl(h, p) ==
    IF HasDataDTO[h] /\ p.name = DataName
    THEN [kind |-> "any", ts |-> <<>>, optional |-> FALSE]
    ELSE p.decl

(* _create_annotation.  Any passes through; a union is rebuilt from its    *)
(* non-None members, but an optional union keeps only types[0]; a plain   *)
(* type is kept.                                                           *)
CreateAnnotation(h, p) ==
    LET d == NormalizedDecl(h, p) IN
    IF d.kind = "any" THEN [kind |-> "any", ts |-> <<>>]
    ELSE IF d.kind = "union" /\ d.optional THEN [kind |-> "optional", ts |-> <<d.ts[1]>>]
    ELSE IF d.kind = "union" THEN [kind |-> "union", ts |-> d.ts]
    ELSE [kind |-> "plain", ts |-> d.ts]

(* The setattr calls _create_annotation makes, in order: one per member    *)
(* type (every non-None member of a union is visited, also those an        *)
(* optional union then drops) that has a decoder, as <<field, member>>.    *)
SetattrOps(h) ==
    UNION {{<<i, j>> : j \in {m \in 1 .. Len(NormalizedDecl(h, Signature[h][i]).ts) :
                                GetDecoder(h, NormalizedDecl(h, Signature[h][i]).ts[m]) # NoDecoder}} :
             i \in {n \in Idx(h) : NormalizedDecl(h, Signature[h][n]).kind # "any"}}
OpType(h, op) == NormalizedDecl(h, Signature[h][op[1]]).ts[op[2]]
Before(a, b) == a[1] < b[1] \/ (a[1] = b[1] /\ a[2] < b[2])
(* setattr on a builtin type raises TypeError.                             *)
FailingOps(h) == {op \in SetattrOps(h) : OpType(h, op) \in ImmutableTypes}
AppliedOps(h) == {op \in SetattrOps(h) : \A bad \in FailingOps(h) : Before(op, bad)}

(* _validate_signature_dependencies (spec 4.3): every dependency name must *)
(* be a declared parameter.                                                *)
DependenciesValid(h) == DependencyNameSet[h] \subseteq Fields(h)

-----------------------------------------------------------------------------
(* Conversion.  _deserializer: an instance of the target type passes       *)
(* through; else the type's `_decoder` attribute is called; else the      *)
(* connection's default deserializer.  A result is [ok, val, structured,   *)
(* locs]: locs are the locations inside the value the error reports.       *)
NestedLoc(T, v) == IF v.k = "nested" /\ T \in ContainerTypes THEN <<v.at>> ELSE <<>>
Success(v, by) == [ok |-> TRUE, val |-> [raw |-> v, by |-> by], structured |-> FALSE, locs |-> {}]
Failure(v, locs, structured) ==
    [ok |-> FALSE, val |-> [raw |-> v, by |-> "none"], structured |-> structured, locs |-> locs]

Deserializer(T, v, attr) ==
    IF v.k = "inst" /\ v.t = T THEN Success(v, "pass")
    ELSE IF attr[T] # NoDecoder
    THEN IF v.k = "text" /\ v.t = T THEN Success(v, attr[T])
         ELSE Failure(v, {<<>>}, FALSE)
    ELSE IF v.k = "text" /\ v.t = T THEN Success(v, "default_deserializer")
    ELSE Failure(v, {NestedLoc(T, v)}, T \in StructuredErrTypes)

ConvertBase(T, v, attr) ==
    IF T \in NativeTypes
    THEN IF v.k \in {"inst", "text"} /\ v.t = T THEN Success(v, "native")
         ELSE Failure(v, {NestedLoc(T, v)}, FALSE)
    ELSE Deserializer(T, v, attr)

(* convert(value, type=annotation, strict=False, dec_hook=...) of one     *)
(* present value.                                                          *)
ConvertField(a, v, attr) ==
    CASE a.kind = "any"                      -> Success(v, "any")
      [] a.kind = "optional" /\ v.k = "none" -> Success(v, "none")
      [] a.kind = "union" ->
            IF \E i \in 1 .. Len(a.ts) : ConvertBase(a.ts[i], v, attr).ok
            THEN ConvertBase(a.ts[CHOOSE i \in 1 .. Len(a.ts) :
                                 /\ ConvertBase(a.ts[i], v, attr).ok
                                 /\ \A j \in 1 .. i - 1 : ~ConvertBase(a.ts[j], v, attr).ok], v, attr)
            ELSE Failure(v, {<<>>}, FALSE)
      [] OTHER -> ConvertBase(a.ts[1], v, attr)

Missing(v) == v.k = "missing"
Conv(h, f, kw, attr) == ConvertField(CreateAnnotation(h, Param(h, f)), kw[f], attr)

(* The fields the batch convert(kwargs, cls) rejects: a present value that *)
(* does not convert, or a required field left out.                         *)
PresentFailing(h, kw, attr) == {f \in Fields(h) : ~Missing(kw[f]) /\ ~Conv(h, f, kw, attr).ok}
(* Mutant: every field given a default (NODEFAULT never used).           *)
MissingRequiredNoDefaultCheck(h, kw) == {}

MissingRequired(h, kw) == {f \in Fields(h) : Missing(kw[f]) /\ ~Param(h, f).hasDefault}
Failing(h, kw, attr) == PresentFailing(h, kw, attr) \cup MissingRequired(h, kw)

(* msgspec raises on the first failure it meets: a present field in the    *)
(* order of the input mapping, else a missing required field.              *)
FirstFailing(h, kw, attr) ==
    IF PresentFailing(h, kw, attr) # {} THEN PresentFailing(h, kw, attr) ELSE MissingRequired(h, kw)

(* to_dict(): every field, left-out ones with their default.               *)
ToDict(h, kw, attr) ==
    [f \in Fields(h) |-> IF Missing(kw[f]) THEN [raw |-> kw[f], by |-> "field_default"]
                         ELSE Conv(h, f, kw, attr).val]

-----------------------------------------------------------------------------
(* _build_error_message.  keys has one or two names.  The message text is  *)
(* the exception text cut at " - ": an exception text [about, at] names    *)
(* the field it is about and the location suffix " - at `$...`".           *)
Join(keys) == IF Len(keys) = 1 THEN keys[1] ELSE keys[1] \o <<".">> \o keys[2]
(* key.replace("data.", ""): "." only separates the two names, so the only *)
(* occurrence is a first name ending in "data".                            *)
ReplaceDataDot(keys) ==
    IF Len(keys) = 2 /\ keys[1][Len(keys[1])] = "data"
    THEN SubSeq(keys[1], 1, Len(keys[1]) - 1) \o keys[2]
    ELSE Join(keys)
Truncate(excMsg) == excMsg.about

BuildErrorMessage(h, keys, excMsg, query, for) ==
    LET key == Join(keys)
        paramSrc == [param_query |-> "query", param_header |-> "header", param_cookie |-> "cookie"]
        src == IF keys = <<>> THEN NoSource
               ELSE IF keys[1][1] = "data" THEN "body"
               ELSE IF key \in query THEN "query"
               ELSE IF key \in Fields(h) /\ Param(h, key).kwarg \in DOMAIN paramSrc
                    THEN paramSrc[Param(h, key).kwarg]
               ELSE NoSource
    IN [key    |-> IF keys = <<>> THEN NoKey
                   ELSE IF keys[1][1] = "data" THEN ReplaceDataDot(keys)
                   ELSE key,
        text   |-> Truncate(excMsg),
        source |-> src,
        for    |-> for]   \* ghost: the field whose failure the message reports

(* except ExtendedMsgSpecValidationError: one message per structured       *)
(* sub-error of the first failing field, keyed by its location.           *)
StructuredMessages(h, kw, query, first, attr) ==
    {BuildErrorMessage(h, loc, [about |-> first, at |-> loc], query, first) :
        loc \in Conv(h, first, kw, attr).locs}

(* except ValidationError: _collect_errors converts field by field;        *)
(* kwargs[field_name] raises KeyError for a left-out field.  Each message  *)
(* carries the text str(e) of the batch error e, about `first`.            *)
CollectErrorKeys(h, f, kw, attr) ==
    IF Missing(kw[f]) \/ Conv(h, f, kw, attr).structured THEN <<f>>
    ELSE LET loc == CHOOSE l \in Conv(h, f, kw, attr).locs : TRUE
         IN  IF loc = <<>> THEN <<f>> ELSE <<f>> \o loc
(* Mutant: _collect_errors skips fields absent from kwargs.               *)
CollectedMessagesSkipMissing(h, kw, query, first, attr) ==
    LET batchMsg == [about |-> first, at |-> <<>>] IN
    {BuildErrorMessage(h, CollectErrorKeys(h, f, kw, attr), batchMsg, query, f) :
        f \in {g \in Fields(h) : ~Missing(kw[g]) /\ ~Conv(h, g, kw, attr).ok}}

CollectedMessages(h, kw, query, first, attr) ==
    LET batchMsg == [about |-> first, at |-> <<>>] IN
    {BuildErrorMessage(h, CollectErrorKeys(h, f, kw, attr), batchMsg, query, f) :
        f \in {g \in Fields(h) : Missing(kw[g]) \/ ~Conv(h, g, kw, attr).ok}}

(* _create_exception: client errors are messages with no key or a key     *)
(* outside the dependency names.                                           *)
ClientErrors(h, msgs) == {m \in msgs : m.key = NoKey \/ m.key \notin DependencyNameSet[h]}

FailedParse(h, kw, query, first, attr) ==
    LET msgs == IF Conv(h, first, kw, attr).structured /\ ~Missing(kw[first])
                THEN StructuredMessages(h, kw, query, first, attr)
                ELSE CollectedMessages(h, kw, query, first, attr)
        client == ClientErrors(h, msgs)
    IN [h |-> h, kwargs |-> kw, query |-> query,
        outcome  |-> IF client # {} THEN "validation" ELSE "internal",
        values   |-> <<>>,
        messages |-> msgs,
        extra    |-> client,
        attr     |-> attr]   \* ghost: the `_decoder` attributes the request saw

-----------------------------------------------------------------------------
Init ==
    /\ status = [h \in Handlers |-> "new"]
    /\ decoderAttr = [T \in MutableTypes |-> NoDecoder]
    /\ last = NoRequest

(* SignatureModel.create: dependency validation raises first; then the     *)
(* fields are visited in order and each setattr of a decoder on a type     *)
(* object is done at once, so a TypeError on a builtin type leaves the     *)
(* attributes set by the earlier fields in place.                          *)
Create(h) ==
    /\ last = NoRequest
    /\ status[h] = "new"
    /\ IF ~DependenciesValid(h)
       THEN /\ status' = [status EXCEPT ![h] = "failed"]
            /\ UNCHANGED decoderAttr
       ELSE /\ status' = [status EXCEPT ![h] = IF FailingOps(h) = {} THEN "registered" ELSE "failed"]
            /\ decoderAttr' = [T \in MutableTypes |->
                                 IF \E op \in AppliedOps(h) : OpType(h, op) = T
                                 THEN GetDecoder(h, T) ELSE decoderAttr[T]]
    /\ UNCHANGED last

(* parse_values_from_connection_kwargs on a connection with the given      *)
(* query parameter names.  It runs without an await, so no other step       *)
(* comes between it and its return or raise (Respond).                      *)
ParseValues(h) ==
    /\ last = NoRequest
    /\ status[h] = "registered"
    /\ \E kw \in [Fields(h) -> RawInputs], query \in SUBSET QueryNames :
          \/ /\ Failing(h, kw, decoderAttr) = {}
             /\ last' = [h |-> h, kwargs |-> kw, query |-> query, outcome |-> "ok",
                         values |-> ToDict(h, kw, decoderAttr), messages |-> {}, extra |-> {},
                         attr |-> decoderAttr]
          \/ \E first \in FirstFailing(h, kw, decoderAttr) :
                last' = FailedParse(h, kw, query, first, decoderAttr)
    /\ UNCHANGED <<status, decoderAttr>>

(* The dict is returned to the caller, or the exception raised.           *)
Respond ==
    /\ last # NoRequest
    /\ last' = NoRequest
    /\ UNCHANGED <<status, decoderAttr>>

Next == Respond \/ \E h \in Handlers : Create(h) \/ ParseValues(h)

Spec == Init /\ [][Next]_vars

-----------------------------------------------------------------------------
(* Messages and outcomes.                                                  *)
Messages == [key : KeyTexts \cup {NoKey}, text : Names,
             source : Sources \cup {NoSource}, for : Names]
(* The record parse_values_from_connection_kwargs leaves: its handler,    *)
(* input, outcome, result (to_dict() or the raised exception's messages   *)
(* and extra) and, as a ghost, the decoder attributes it ran with.         *)
IsOutcome(o) ==
    /\ o = [h |-> o.h, kwargs |-> o.kwargs, query |-> o.query, outcome |-> o.outcome,
            values |-> o.values, messages |-> o.messages, extra |-> o.extra, attr |-> o.attr]
    /\ o.h \in Handlers
    /\ o.kwargs \in [Fields(o.h) -> RawValues]
    /\ o.query \subseteq Names
    /\ o.outcome \in {"ok", "validation", "internal"}
    /\ o.values \in [Fields(o.h) -> Vals] \cup {<<>>}
    /\ o.messages \subseteq Messages
    /\ o.extra \subseteq o.messages
    /\ o.attr \in [MutableTypes -> Decoders \cup {NoDecoder}]

TypeOK ==
    /\ status \in [Handlers -> {"new", "registered", "failed"}]
    /\ decoderAttr \in [MutableTypes -> Decoders \cup {NoDecoder}]
    /\ last = NoRequest \/ IsOutcome(last)

(* What spec 4.1 says a parameter accepts: Any accepts everything, an      *)
(* optional accepts None, a union accepts a value of any of its members,  *)
(* a left-out parameter is accepted when it has a default.  Every decoder  *)
(* and the default deserializer accept exactly a text of their type.       *)
SpecBaseValid(T, v) == v.k \in {"inst", "text"} /\ v.t = T
SpecFieldValid(h, f, v) ==
    LET d == NormalizedDecl(h, Param(h, f)) IN
    IF Missing(v) THEN Param(h, f).hasDefault
    ELSE \/ d.kind = "any"
         \/ d.kind = "union" /\ d.optional /\ v.k = "none"
         \/ \E i \in 1 .. Len(d.ts) : SpecBaseValid(d.ts[i], v)

Parsed == last # NoRequest
Failed == Parsed /\ last.outcome \in {"validation", "internal"}

(* A request succeeds only when every parameter's raw value is acceptable, *)
(* and the result then has a value for every parameter (no partial         *)
(* success): parse_values_from_connection_kwargs / to_dict.                 *)
RejectsOnlyInvalid ==
    Parsed /\ last.outcome = "ok" =>
        /\ DOMAIN last.values = Fields(last.h)
        /\ \A f \in Fields(last.h) : SpecFieldValid(last.h, f, last.kwargs[f])

(* Conversely every acceptable request succeeds (spec 4.1: an optional     *)
(* union keeps all its members).                                           *)
AcceptsEveryValidInput ==
    Parsed /\ (\A f \in Fields(last.h) : SpecFieldValid(last.h, f, last.kwargs[f]))
        => last.outcome = "ok"

(* A failed request always raises with at least one error message, so it  *)
(* is never an InternalServerException with nothing behind it, even when   *)
(* msgspec reports only one field and _collect_errors must find the rest.  *)
FailedParseHasMessages == Failed => last.messages # {}

(* Every custom-typed value is decoded by the decoder the handler's OWN    *)
(* type_decoders (then DEFAULT_TYPE_DECODERS) select, or by the default    *)
(* deserializer when none matches (spec 6: first matching predicate wins). *)
DecoderIsolation ==
    Parsed /\ last.outcome = "ok" =>
        \A f \in Fields(last.h) :
            LET v == last.values[f]
                T == last.kwargs[f].t
            IN  v.by \in Decoders \cup {"default_deserializer"} =>
                   v.by = IF GetDecoder(last.h, T) = NoDecoder THEN "default_deserializer"
                          ELSE GetDecoder(last.h, T)

(* Only the "data" parameter's errors are attributed to the body (spec     *)
(* 4.5: body-sourced if the first key was "data").                         *)
BodySourceOnlyForBody ==
    Failed => \A m \in last.messages : m.source = "body" => m.for = DataName

(* A request with a failing client-supplied parameter is answered with a   *)
(* ValidationException, never hidden behind an InternalServerException.    *)
ClientErrorsNeverHidden ==
    Failed /\ (\E f \in Failing(last.h, last.kwargs, last.attr) : ~IsDependency(last.h, f))
        => last.outcome = "validation"

=============================================================================
