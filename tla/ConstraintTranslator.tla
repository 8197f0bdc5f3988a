------------------------ MODULE ConstraintTranslator ------------------------
(***************************************************************************)
(* litestar/_signature/model.py, SignatureModel.create lines 229-244: the  *)
(* translation of a parameter's KwargDefinition into msgspec Meta.         *)
(*                                                                         *)
(* The input kd is simple_asdict(kwarg_definition, exclude_empty=True): a  *)
(* function from the keys that are set to their values (None included).   *)
(* The output is the keyword arguments handed to Meta as meta_kwargs: a     *)
(* function from Meta field names to values, with the key "extra" split   *)
(* off as a function of its own.  A length bound is checked the way msgspec *)
(* enforces Meta(min_length=..., max_length=...) on a collection.          *)
(*                                                                         *)
(* The module has no behaviour of its own: its only variable is the input *)
(* under test, chosen once, and the verdicts are invariants.               *)
(***************************************************************************)
EXTENDS Naturals

CONSTANTS
    Keys,        \* KwargDefinition field names that may be set
    MetaFields,  \* the subset of Keys that are attributes of msgspec.Meta
    Values,      \* constraint values (natural numbers in the model)
    None,        \* Python's None
    MaxLen       \* bound: longest collection the properties try

ASSUME TranslatorAssumption ==
    /\ MetaFields \subseteq Keys
    /\ {"min_items", "max_items"} \subseteq Keys \ MetaFields
    /\ {"min_length", "max_length"} \subseteq MetaFields
    /\ Values \subseteq Nat /\ None \notin Nat
    /\ MaxLen \in Nat

(* The KwargDefinitions simple_asdict can produce: any set of keys, each   *)
(* with a value or None.                                                   *)
KwargDefs == UNION {[D -> Values \cup {None}] : D \in SUBSET Keys}

VARIABLE kd

-----------------------------------------------------------------------------
(* `if x := kwarg_definition.pop(k, None)`: the key is always removed, and *)
(* its value kept only when truthy (not None and not 0).                   *)
Truthy(v) == v # None /\ v # 0

(* Mutant: min_items and max_items renamed the wrong way round.            *)
ItemBoundsSwapped(d) ==
    LET src == [min_length |-> "max_items", max_length |-> "min_items"] IN
    [m \in {x \in DOMAIN src : src[x] \in DOMAIN d /\ Truthy(d[src[x]])} |-> d[src[m]]]

(* The Meta bounds the two walrus tests set (lines 233-236), each named    *)
(* after the KwargDefinition key it is renamed from.                       *)
ItemBounds(d) ==
    LET src == [min_length |-> "min_items", max_length |-> "max_items"] IN
    [m \in {x \in DOMAIN src : src[x] \in DOMAIN d /\ Truthy(d[src[x]])} |-> d[src[m]]]

(* The loop of lines 238-242 over what is left: a Meta attribute with a   *)
(* value goes to Meta, anything else (None included) to extra.             *)
Rest(d) == DOMAIN d \ {"min_items", "max_items"}
ToMeta(d) == {k \in Rest(d) : k \in MetaFields /\ d[k] # None}

ToExtra(d) == Rest(d) \ ToMeta(d)

(* meta_kwargs as passed to Meta(...): the loop runs after the walrus      *)
(* tests, so a min_length or max_length set on the KwargDefinition         *)
(* overwrites the bound renamed from min_items or max_items.               *)
Translate(d) ==
    [meta  |-> [m \in DOMAIN ItemBounds(d) \cup ToMeta(d) |->
                   IF m \in ToMeta(d) THEN d[m] ELSE ItemBounds(d)[m]],
     extra |-> [k \in ToExtra(d) |-> d[k]]]

-----------------------------------------------------------------------------
Init == kd \in KwargDefs
Next == UNCHANGED kd
Spec == Init /\ [][Next]_kd

TypeOK == kd \in KwargDefs

(* msgspec: a collection of length n satisfies the Meta's length bounds.   *)
MetaAccepts(meta, n) ==
    /\ "min_length" \in DOMAIN meta => n >= meta["min_length"]
    /\ "max_length" \in DOMAIN meta => n <= meta["max_length"]

(* A declared lower (upper) bound of kd that a length n breaks.            *)
Breaks(d, k, n) ==
    /\ k \in DOMAIN d /\ d[k] # None
    /\ \/ k \in {"min_items", "min_length"} /\ n < d[k]
       \/ k \in {"max_items", "max_length"} /\ n > d[k]

(* The translation adds no constraint of its own (spec 4.2: no synthesis  *)
(* of spurious constraints): every length the Meta rejects breaks some    *)
(* bound the KwargDefinition declares, whatever the mix of item and length *)
(* bounds.                                                                  *)
NoSpuriousLengthBound ==
    \A n \in 0 .. MaxLen :
        ~MetaAccepts(Translate(kd).meta, n) =>
            \E k \in {"min_items", "max_items", "min_length", "max_length"} : Breaks(kd, k, n)

(* A declared max_items is enforced: no longer collection is accepted     *)
(* (spec 4.2: max_items is renamed to max_length).                         *)
MaxItemsEnforced ==
    \A n \in 0 .. MaxLen : Breaks(kd, "max_items", n) => ~MetaAccepts(Translate(kd).meta, n)

(* A declared min_items is enforced: no shorter collection is accepted.   *)
MinItemsEnforced ==
    \A n \in 0 .. MaxLen : Breaks(kd, "min_items", n) => ~MetaAccepts(Translate(kd).meta, n)
=============================================================================
