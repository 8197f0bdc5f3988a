# Formal models of litestar's signature model, logging middleware and GUID column

This directory holds TLA+ models of three parts of the repository, TLC
configurations that model-check them, and TLAPS proofs about all four
components: every safety invariant a passing run checks is also proved for
every value of the constants, and the GUID column is proved to implement an
abstract UUID column.

## The system and its parts

| Part | Source | Module(s) | Status |
|---|---|---|---|
| Signature model: struct builder, value coercion, error projection | `src/litestar/_signature/model.py` | `SignatureModel`, `MC_SignatureModel`, `SignatureModelProofs` | partly: msgspec's own validation is stated as operators |
| Constraint Translator (`KwargDefinition` to msgspec `Meta`, model.py:229-244) | `src/litestar/_signature/model.py` | `ConstraintTranslator`, `MC_ConstraintTranslator`, `ConstraintTranslatorProofs` | modelled |
| Logging middleware | `src/litestar/middleware/logging.py` | `LoggingMiddleware`, `MC_LoggingMiddleware`, `LoggingMiddlewareProofs` | partly: formatting and config validation are abstracted |
| SQLAlchemy column types | `src/litestar/contrib/sqlalchemy/types.py` | `GuidColumn`, `MC_GuidColumn` | partly: `GUID` is modelled, `JSON` is not |
| Constants | `src/litestar/constants.py` | none | declarations only |
| Builtin type aliases | `src/starlite/types/builtin_types.py` | none | type aliases only |

**How the parts interact.**

- `SignatureModel.create` runs once per route handler, at startup or whenever a handler is registered later. It builds a msgspec Struct from the handler's parsed signature.
- For every request, `parse_values_from_connection_kwargs` converts the raw kwargs into that Struct. On failure it raises a `ValidationException` (client error) or an `InternalServerException`.
- The logging middleware wraps the application for every HTTP request. It logs the request, then logs the response from inside a wrapper around `send`.
- Many requests run concurrently in one event loop and share the middleware instance. They also share the type objects that `create` tags with decoders.

## SignatureModel: state and actions

The source's idea of a handler, a signature and a decoder registry becomes **CONSTANTS**: `Handlers`, `Signature`, `TypeDecoders`, `DefaultTypeDecoders`, `DependencyNameSet`, `HasDataDTO`, `RawInputs`, `QueryNames` and the type classes. They are constrained by `ConstantsAssumption`.

- A name is a sequence of syllables. This lets the string operations of `_build_error_message` be modelled by what they do: `".".join`, `startswith("data")` and `replace("data.", "")`.
- A raw value is a record of its shape, the type whose format it has, and the name of a bad nested member.

**VARIABLES**

- `status`: per handler, whether `create` has not run, returned or raised.
- `decoderAttr`: the `_decoder` attribute of each mutable type object. This is the process-wide state that `setattr(annotation, "_decoder", decoder)` (line 296) writes.
- `last`: the outcome of the latest parse, with a ghost copy of the decoder attributes it ran with.

**Actions**

- `Create(h)` models `create` and `_create_annotation`:
  - the dependency check comes first;
  - then each field's annotation is built, with the union rebuilt and only `types[0]` kept for an optional union (line 292);
  - each setattr is applied in order, and a `TypeError` on a builtin type leaves the earlier setattrs in place.
- `ParseValues(h)` is the whole of `parse_values_from_connection_kwargs`:
  - the batch `convert` goes through `_deserializer`;
  - the structured error path (a) keeps the sub-errors of the first failing field;
  - the unstructured path (b) calls `_collect_errors` and `_build_error_message` for every field;
  - `_create_exception` classifies the result.
- `Respond` returns the result or raises the exception.

Parsing has no await, so each request is one atomic step. Creation and requests interleave, because `create` can run while the app is serving.

## ConstraintTranslator: an operator

`Translate(d)` maps the dictionary `simple_asdict(kwarg_definition, exclude_empty=True)` to the keyword arguments of `Meta`, with `extra` split off. The module has one variable, `kd`, the input under test, drawn once from `KwargDefs` (every set of keys, each with a value or `None`). The verdicts are invariants.

- `Truthy` and `ItemBounds` are the two walrus tests (lines 233-236). The key is always popped, and its value is kept only when truthy.
- `Rest`, `ToMeta` and `ToExtra` are the loop of lines 238-242. A key goes to Meta when Meta has that attribute and the value is not `None`; otherwise it goes to `extra`.
- `Translate` applies the loop after the renaming, so the loop's writes win.
- `MetaAccepts` states how msgspec enforces `min_length`/`max_length` on a collection. `Breaks` says when a length breaks a declared bound.

## GuidColumn: state and actions

**CONSTANTS**

- `UUIDs` and `Rows`.
- `Engines`: pairs of a dialect name and the `binary` flag.
- The sentinels `None`, `Error` and `NoRow`.

A value is abstracted to its form and the UUID it denotes: a `uuid.UUID`, its hex string, its hyphenated string, its 16 bytes, base64 text, `str()` of bytes, or junk.

**VARIABLES**

- `engine`: the dialect and flag the table was created with.
- `table`: the stored value of each row.
- `written`: a ghost holding what was last written to each row.
- `lastOp`: the latest operation and its outcome.

**Operators from the code**

- `ColumnType` is `load_dialect_impl`.
- `BindParam` and `Str` are `process_bind_param`.
- `ToUUID`, `FromHex` and `FromBytes` are `to_uuid` and its two parses.
- `ResultValue` is `process_result_value`.

The database is the environment. `Store` gives what a column of each type accepts. `Fetch` gives what the driver returns; in particular, spanner returns BYTES base64-encoded. `Store` is an `IF` chain, not a `CASE`: `None.k` is unspecified, so `CASE` arms testing `b.k` would overlap the arm for `None`, and `CASE` picks among overlapping arms arbitrarily.

**Actions**

- `Write(r, v)`: bind, then store or raise. On an error the row is left as it was.
- `Read(r)`: fetch, then convert the result.

**Refinement.** `UUIDColumn` states what GUID promises, a "platform-independent GUID type". It is a column of UUIDs with no dialect in it. Its variables are `cell` (per row: a UUID, `None` or `NoRow`) and `lastOp`. Its actions:

- `Write(r, v)` stores `Meaning(v)` (and never `Error`), or fails leaving the row.
- `Read(r)` returns `cell[r]`.

`GuidColumn` instantiates it with `cell <- Decoded`. `Decoded` maps each row to what `process_result_value` reads from it, so the mapping does not use the ghost `written`. `ImplementsUUIDColumn` is the abstract `Spec` as a property.

## LoggingMiddleware: state and actions

**CONSTANTS**

- `Requests`: concurrent connections.
- `MaxChunks`: a bound on the body messages of one response.
- The configuration fields the model distinguishes: `RequestLogFields`, `ResponseLogFields` and `IncludeCompressedBody`.

**VARIABLES**

- `pc`: per request, where its `__call__` is.
- `hasLogger`: the lazily fetched logger.
- `scopeState`: per request, the stored start and body messages and the compressed flag.
- `sent` and `wire`: what the app sent and what reached the server.
- `log`: the records handed to the logger, in order.

**Actions**

- `Call`: `__call__` up to its first await.
- `LogRequest`: `log_request`.
- `SendStart`: the wrapper stores the start message. An inner compression middleware may have set the compressed flag.
- `SendBody`: the wrapper stores a body message, and then one of three things happens:
  - the wrapper is not installed (no response field is logged), and the message is forwarded;
  - `log_response`/`extract_response_data` pop both stored messages, log the record, and the message is forwarded;
  - the start message was already popped by an earlier body message, and the extractor raises before the message is forwarded. The exception leaves `send`, the app and `__call__` (`ExtractorRaises`).
- The response extractor, `ResponseDataExtractor`, is not under `src/`. `ExtractorRaises` is modelled from its documented behaviour and marked `spec_modelled`. Its cookie extractor is on by default, and logging.py:88 does not set `extract_cookies`. It reads `messages[0]["headers"]`, so a `None` start message raises `TypeError`, whatever the configured response fields are.
- A record keeps the request, its kind and the body: a chunk number, `NoBody`, or `Withheld` when the body key is skipped (not configured, or compressed without `include_compressed_body`).
- `AppRaises`: the app raises.

Requests interleave at every await.

## Runs

| Run | Expect | What it shows |
|---|---|---|
| `signature_safety` (`SignatureModel.cfg`) | pass | Across all interleavings of creating the four handlers and parsing requests for them: no request with an invalid value succeeds, and success yields a value for every field (`RejectsOnlyInvalid`); every failure carries at least one message (`FailedParseHasMessages`). |
| `signature_<Property>` (4 cfgs) | violation | Findings 1-4 below. |
| `logging_safety` (`LoggingMiddleware.cfg`) | pass | With two interleaved requests and responses of up to two body messages: a request's record precedes its response records (`RequestLoggedBeforeResponse`); a response record shows the body message that triggered it, never an empty or stale one (`LoggedBodyIsTriggeringChunk`). |
| `logging_StreamForwarded` | violation | Finding 5. |
| `constraint_safety` (`ConstraintTranslator.cfg`) | pass | For all 4096 KwargDefinitions over six keys and values {0, 2, None}: the Meta rejects only lengths that break a declared bound (`NoSpuriousLengthBound`). |
| `constraint_MaxItemsEnforced`, `constraint_MinItemsEnforced` | violation | Findings 6 and 7. |
| `guid_safety` (`GuidColumn.cfg`) | pass | On postgresql, sqlite (binary and text), oracle (binary) and spanner (binary), any interleaving of writes of every input form and reads of two rows returns the UUID last written (`RoundTrip`), and a junk value is never stored: a NULL row was written `None`, and every other row holds the UUID last written to it (`JunkNeverStored`). The table implements the abstract UUID column (`ImplementsUUIDColumn`). |
| `guid_RoundTrip` | violation | Finding 8. |

Every property of a passing run has a mutant in `PROJECT.json` that TLC catches. A mutant is a plausible bug: the default check dropped, `_collect_errors` skipping absent fields, the request log skipped, the body stored after logging, the item bounds renamed the wrong way round, the spanner base64 branch dropped, and `to_uuid` swallowing its fallback's error.

## Findings (TLC counterexamples)

1. **Optional unions keep only their first member** (`signature_AcceptsEveryValidInput`). `Optional[types[0]]` (model.py:292): a value of the second member of `Optional[Union[A, B]]` is rejected. Spec 4.1 says all members are kept.
2. **Decoders leak between handlers** (`signature_DecoderIsolation`). The decoder is stored on the shared type object (model.py:296), so a handler created later changes the decoder an earlier handler uses.
3. **Prefix test too broad** (`signature_BodySourceOnlyForBody`). `startswith("data")` labels a parameter named like `dataset` as body-sourced (model.py:137).
4. **Client error hidden** (`signature_ClientErrorsNeverHidden`). A structured key is relative to its field. If a dependency's bad member is named like a dependency, the only message is classified as internal, and a failing body parameter is never reported (model.py:115, 186).
5. **Streamed responses break off after the first chunk** (`logging_StreamForwarded`). This happens whenever a response field is logged. `send_wrapper` calls `log_response` on every body message, and the first call pops the start message (logging.py:201). At the second body message, the response extractor gets `None` as the start message. Its cookie extractor, on by default (logging.py:88), reads `None["headers"]` and raises `TypeError` inside `send_wrapper`, before `await send(message)` (logging.py:232-233). The chunk never reaches the server, and the exception ends the app. No status-less record is ever written: the raise comes first.
6. **A zero `max_items` is dropped** (`constraint_MaxItemsEnforced`). The walrus test pops `max_items` and keeps it only when truthy, so `max_items=0` reaches neither Meta nor `extra`, and lists of any length are accepted. Spec 4.2 says it becomes `max_length` (model.py:235).
7. **A length bound overwrites an item bound** (`constraint_MinItemsEnforced`). The loop runs after the renaming, so `min_length=0, min_items=2` yields `Meta(min_length=0)` and an empty list is accepted (model.py:238).
8. **`GUID(binary=False)` on Oracle cannot read back** (`guid_RoundTrip`). Bind always stores bytes on Oracle, but the result path honours `binary` and calls `uuid.UUID(hex=<bytes>)`, which raises (types.py:58, 71).

### Divergences not kept as runs

The model exhibits these too, but no run checks them. They are single-step transformations, recorded here and as uncovered hazards in `PROJECT.json`:

- Path (b) gives every message the batch error's text (model.py:195).
- `_collect_errors` reports a left-out field with a default as failing, because `kwargs[field_name]` raises `KeyError` (model.py:158).
- Path (a) reports only the first failing field, against spec 8 (model.py:186).
- A keyed message of a parameter that is neither a query name nor a `ParameterKwarg` gets no source, where spec 4.5 says the source defaults to query (model.py:143-149).
- A dependency failing with a whole-value structured error yields a key-less message, which `_create_exception` counts as a client error (model.py:115).
- On postgresql and duckdb, `process_bind_param` binds `str(value)` without `to_uuid`. A UUID given as bytes therefore becomes the literal `"b'...'"`, which every other dialect would have accepted (types.py:54).

## Bounds and why they suffice

**Signature model** (`MC_SignatureModel`): four handlers, whose shapes are listed in the module's header comment.

- `h1` has a cookie parameter `dataset: Optional[Union[int, Path]]`, a dependency `dep: Model` and a body `data`.
- `h2` has a data DTO, a header parameter of a custom type, and its own decoder `d2` for `Model`.
- `h3` has a decoder for `Model` and `int`, so its `create` tags `Model` and then raises on the builtin `int`.
- `h4` names an unknown dependency.

The names are `id`, `data`, `dataset`, `dep` and `x`. The types are a native `int`, a native container `obj`, a `path` type served by `DEFAULT_TYPE_DECODERS`, and a custom `model` with structured errors. The raw values are missing, none, text and instance of each type, plus nested values with a bad member.

Each finding's mechanism needs at most two handlers, three fields and one nested member. Every branch of `_deserializer`, `_build_error_message` and `_create_exception` is reached; a larger instance would repeat the same cases.

**Logging**: two requests and `MaxChunks = 2`. Two chunks are the least that exercise the multi-message path, and two requests the least that interleave on the shared log. `CHECK_DEADLOCK FALSE` holds because the finite set of requests all end, and then the system really stops.

**Constraint Translator**: keys `min_items`, `max_items`, `min_length`, `max_length`, `title` (a Meta attribute) and `lower_case` (not one); values 0 and 2 and `None`; lengths 0 to 3. Zero is the truthiness edge, and 2 lies strictly between the lengths tried. Every combination of an item bound with a length bound, with each value, is enumerated. The theorem `NoSpurious` covers all other sets and values.

**GUID**: two UUIDs and two rows, so that overwriting a row with another UUID and reading a different row both happen. The engines are every dialect branch of the code with both flag values where both are meaningful. Spanner with `binary=False` is not instantiated, because what that driver does with bytes bound to a CHAR(32) column is not stated in the repository. Oracle text mode is the finding run's engine.

## Fairness and liveness

The passing runs check safety only. In the logging model every request takes a finite number of steps, so "every request completes" would hold by the shape of the model and is not checked. The signature model has no waiting.

## Proofs (TLAPS, `SignatureModelProofs`)

- `TypeCorrect`: `Spec => []TypeOK` for every value of the constants satisfying `ConstantsAssumption`. The argument is the step lemma `TypeOKStep`, built on one typing lemma per operator:
  - `CreateAnnotationType`, `ConvertBaseType`, `ConvertFieldType`, `BuildErrorMessageType`, `CollectErrorKeysType`, `MessagesType`, `ToDictType` and `OutcomeType`;
  - `GetDecoderType`, which uses a least-element lemma over `Nat` from `WellFoundedInduction` to show that the first matching decoder exists.
- `FailuresHaveMessages`: `Spec => []FailedParseHasMessages`, the property of the `signature_safety` run.
  - On its own the invariant is not inductive: a `Respond` or `Create` step needs `last` to be well formed.
  - The inductive invariant is `MessagesInv == TypeOK /\ FailedParseHasMessages`.
  - The key lemmas are `FirstFailingFails` (the field msgspec reports first really fails) and `FailedParseMessages`. The latter shows that both failure paths produce a message for it: the structured path has a location per failure, and `_collect_errors` visits every failing field.
- `OnlyValidAccepted`: `Spec => []RejectsOnlyInvalid`.
  - The invariant is inductive as it stands: only `ParseValues` writes `last`, and a failed parse never records "ok".
  - The argument is `ConvSound`: `convert` accepts a given value only when spec 4.1 does. It rests on `ConvertBaseSound`, which says every member conversion (native, isinstance, decoder, default deserializer) accepts only an instance or text of its type. It also rests on `NormalizedDeclType`: an annotation other than Any has at least one member.
  - `SuccessSound` then covers the parameters that were left out: they are accepted only with a default.
  - It holds for any decoder attributes earlier `create` calls left on shared type objects.

## Proofs (TLAPS, `ConstraintTranslatorProofs`)

- `NoSpurious`: `Spec => []NoSpuriousLengthBound`, for every set of keys and Meta attributes and every set of natural values satisfying `TranslatorAssumption`.
- The key lemma is `MetaBoundDeclared`: a length bound the Meta has is either the declared `min_length`/`max_length` (when it is in `ToMeta`) or the truthy item bound it was renamed from, and in both cases it is of the same direction. `NoSpuriousFor` then splits on which bound rejects the length.

## Proofs (TLAPS, `GuidColumnProofs`)

- `JunkNeverStoredHolds`: `Spec => []JunkNeverStored` on every engine, Oracle text mode included.
  - The theorem says more than "NULL exactly for `None`": every non-NULL row holds a value that is not junk, and it carries the UUID last written to it.
  - The inductive invariant is `JunkInv == TypeOK /\ JunkNeverStored`.
  - The key lemma is `WriteOutcome`. An accepted write stores NULL exactly when `None` was written. Otherwise it stores a non-junk value whose UUID is the one the input denotes. It rests on one lemma per layer: `StoreNull`, `StoreVal`, `StoreJunk`, `BindUUID`, `StoreUUID` and `ResultOf`.
- `RoundTripHolds`: `Spec => []RoundTrip`, under the hypothesis `\A e \in Engines : ReadsBack(e)`. `ReadsBack(e)` excludes exactly Oracle with `binary=False`, the engine of finding 8; the theorem would be false without the hypothesis.
  - `RoundTrip` alone is not inductive: a read looks at the table, and nothing says that the table decodes to the ghost `written`.
  - The strengthening is `RowsDecode`: every written row decodes to what was written to it.
  - The inductive invariant is `RoundTripInv == TypeOK /\ RowsDecode /\ RoundTrip`. It was checked with TLC on every engine but Oracle text mode, including spanner with `binary=False` and duckdb, before it was proved.
- `GuidImplementsUUIDColumn`: `Spec => ImplementsUUIDColumn`, under the same hypothesis.
  - The initial table maps to the empty abstract column.
  - `RefinementStep` shows that every step under `TypeOK` is an abstract step:
    - a read maps to `Read` (`DecodedIsRow`: a written row never decodes to `NoRow`);
    - a failed write maps to a failed `Write`;
    - an accepted write maps to a storing `Write`, by `WriteOutcome`.

## Proofs (TLAPS, `LoggingMiddlewareProofs`)

- `LoggingTypeCorrect`: `Spec => []TypeOK` for every set of requests, every `MaxChunks` and every configuration satisfying `ConfigAssumption`. It rests on `InitTypeOK` and `TypeOKStep`, with one case per action, and on the typing lemmas `ResponseRecordType` and `StoreBodyType`.
- `RequestOrdered`: `Spec => []RequestLoggedBeforeResponse`, the property of the `logging_safety` run, for any number of concurrent requests.
  - The invariant alone is not inductive: a `SendBody` step appends a response record, and nothing in the log says its request was logged.
  - The strengthening `Ordered` ties the log to each request's `pc`. Before `log_request` ran, the log has no response record of the request. From the app onwards, it holds the request record.
  - The inductive invariant is `IInv == TypeOK /\ (RequestLogFields # {} => OrderedLog(log)) /\ Ordered`. It was checked with TLC on the `logging_safety` instance before it was proved.
  - The lemma `AppendLog` states what appending a record preserves.
- `TriggeringChunkLogged`: `Spec => []LoggedBodyIsTriggeringChunk`.
  - The invariant is not inductive: it says nothing about how many records a request has, so a new record's position is unconstrained.
  - The strengthening `Unlogged` has two parts. A stored, unpopped start message exists only when the wrapper is installed. Until the start message is stored, and while it is unpopped, the request has sent no body message and has no response record. So the one record a request gets is logged at its first body message and shows chunk 1. Every later message finds the start popped and raises.
  - The lemma `SendBodyCases` splits `SendBody` into its three outcomes (`Unwrapped`, `Logged`, `Raised`).
  - The inductive invariant is `ChunkInv == TypeOK /\ Unlogged /\ ChunkOK(log)`, checked with TLC for `MaxChunks` 3, with and without response fields.
  - The lemmas `RespIdxAppend` and `ChunkAppend` (from `FiniteSetTheorems`' cardinality facts) state how appending a record changes the response indices and counts.

**Only model-checked**: the violations (they are counterexamples, not theorems). Every invariant and the refinement property of the passing runs is proved. Liveness and `ENABLED` are out of the prover's reach. Induction over data with an operator parameter cannot be instantiated by the installed provers, and a module that reaches a `RECURSIVE` operator loses the SMT backend. The models therefore use no recursion.

## Not modelled, and the plan

- The `JSON` type of `contrib/sqlalchemy/types.py`. It selects a SQLAlchemy type per dialect and attaches DDL events (the Oracle `IS JSON` check constraint). That is SQLAlchemy's own plumbing, with no state of its own to check. `BigIntIdentity` is a type declaration.
- Spanner with `binary=False`: the driver's behaviour is not stated in the repository.
- msgspec's validation beyond length bounds (`gt`, `pattern`, ...). The translator passes those keys through unchanged, and `ToMeta` models exactly that.
- Constants and type aliases carry no behaviour.
