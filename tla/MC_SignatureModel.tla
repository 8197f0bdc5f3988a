------------------------- MODULE MC_SignatureModel -------------------------
(***************************************************************************)
(* Four route handlers for SignatureModel.                                 *)
(*   h1  dataset: Optional[Union[int, Path]] = None  (Parameter(cookie=..)) *)
(*       dep: Model             (Dependency, provided as "dep")            *)
(*       data: Obj              (Body)                                      *)
(*   h2  data: Obj (with a data DTO), id: int, x: Model (Parameter(header)) *)
(*       type_decoders = [(is Model, d2)]                                   *)
(*   h3  x: Model, id: int;  type_decoders = [(is Model or int, d3)]:       *)
(*       create sets Model._decoder, then raises on int                     *)
(*   h4  id: int with dependency_name_set {"x"}: create raises             *)
(* Model is a pydantic-like type (custom, structured errors), Obj a msgspec *)
(* struct (native container), Path matches DEFAULT_TYPE_DECODERS.           *)
(***************************************************************************)
EXTENDS SignatureModel

MCHandlers == {"h1", "h2", "h3", "h4"}
MCSyllables == {"id", "data", "set", "dep", "x"}
ID == <<"id">>
DATA == <<"data">>
DATASET == <<"data", "set">>
DEP == <<"dep">>
X == <<"x">>
MCNames == {ID, DATA, DATASET, DEP, X}

MCTypes == {"int", "obj", "path", "model"}
MCDecoders == {"path_dec", "d2", "d3"}
MCDefaultTypeDecoders == <<[match |-> {"path"}, dec |-> "path_dec"]>>

Plain(T) == [kind |-> "plain", ts |-> <<T>>, optional |-> FALSE]
OptionalUnion(ts) == [kind |-> "union", ts |-> ts, optional |-> TRUE]
P(n, d, dflt, kw) == [name |-> n, decl |-> d, hasDefault |-> dflt, kwarg |-> kw]

MCSignature ==
    [h \in MCHandlers |->
        CASE h = "h1" -> <<P(DATASET, OptionalUnion(<<"int", "path">>), TRUE, "param_cookie"),
                           P(DEP, Plain("model"), FALSE, "dependency"),
                           P(DATA, Plain("obj"), FALSE, "body")>>
          [] h = "h2" -> <<P(DATA, Plain("obj"), FALSE, "body"),
                           P(ID, Plain("int"), FALSE, "none"),
                           P(X, Plain("model"), FALSE, "param_header")>>
          [] h = "h3" -> <<P(X, Plain("model"), FALSE, "none"),
                           P(ID, Plain("int"), FALSE, "none")>>
          [] h = "h4" -> <<P(ID, Plain("int"), FALSE, "none")>>]

MCTypeDecoders ==
    [h \in MCHandlers |->
        CASE h = "h2" -> <<[match |-> {"model"}, dec |-> "d2"]>>
          [] h = "h3" -> <<[match |-> {"model", "int"}, dec |-> "d3"]>>
          [] OTHER    -> <<>>]

MCDependencyNameSet ==
    [h \in MCHandlers |-> CASE h = "h1" -> {DEP} [] h = "h4" -> {X} [] OTHER -> {}]

MCHasDataDTO == [h \in MCHandlers |-> h = "h2"]

V(k, t, at) == [k |-> k, t |-> t, at |-> at]
MCRawInputs ==
    {V("missing", "int", X), V("none", "int", X),
     V("text", "int", X), V("text", "path", X), V("inst", "path", X),
     V("text", "model", X), V("inst", "model", X), V("nested", "model", X),
     V("text", "obj", X), V("nested", "obj", DEP)}
(* The query string of a request may carry "id".                          *)
MCQueryNames == {ID}

=============================================================================
