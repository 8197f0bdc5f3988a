--------------------- MODULE ConstraintTranslatorProofs ---------------------
(***************************************************************************)
(* Proofs about the Constraint Translator for every set of KwargDefinition *)
(* keys, every set of Meta attributes and every constraint value.          *)
(***************************************************************************)
EXTENDS ConstraintTranslator, TLAPS

USE TranslatorAssumption

(* The lower (upper) length bound of the Meta, when it has one, is a      *)
(* lower (upper) bound the KwargDefinition declares: min_length itself if  *)
(* it is set to a value, min_items otherwise.                              *)
LEMMA MetaBoundDeclared ==
    ASSUME NEW d \in KwargDefs,
           NEW m \in {"min_length", "max_length"},
           m \in DOMAIN Translate(d).meta
    PROVE  \E k \in {"min_items", "max_items", "min_length", "max_length"} :
               /\ k \in DOMAIN d /\ d[k] # None
               /\ Translate(d).meta[m] = d[k]
               /\ (k \in {"min_items", "min_length"} <=> m = "min_length")
<1>1. PICK D \in SUBSET Keys : d \in [D -> Values \cup {None}]
  BY DEF KwargDefs
<1>. DEFINE src == [min_length |-> "min_items", max_length |-> "max_items"]
<1>2. DOMAIN Translate(d).meta = DOMAIN ItemBounds(d) \cup ToMeta(d)
  BY DEF Translate
<1>3. CASE m \in ToMeta(d)
  <2>1. Translate(d).meta[m] = d[m]
    BY <1>3, <1>2 DEF Translate
  <2>2. m \in DOMAIN d /\ d[m] # None
    BY <1>3 DEF ToMeta, Rest
  <2>. QED  BY <2>1, <2>2
<1>4. CASE m \notin ToMeta(d)
  <2>1. m \in DOMAIN ItemBounds(d)
    BY <1>4, <1>2
  <2>2. src[m] \in DOMAIN d /\ Truthy(d[src[m]])
    BY <2>1 DEF ItemBounds
  <2>3. Translate(d).meta[m] = d[src[m]]
    BY <1>4, <2>1 DEF Translate, ItemBounds
  <2>4. src[m] \in {"min_items", "max_items"}
        /\ (src[m] = "min_items" <=> m = "min_length")
    OBVIOUS
  <2>. QED  BY <2>2, <2>3, <2>4 DEF Truthy
<1>. QED  BY <1>3, <1>4

(* The Meta the translator builds rejects only collections that break a   *)
(* bound the KwargDefinition declares, for every length.                   *)
LEMMA NoSpuriousFor ==
    ASSUME NEW d \in KwargDefs, NEW n \in Nat,
           ~MetaAccepts(Translate(d).meta, n)
    PROVE  \E k \in {"min_items", "max_items", "min_length", "max_length"} : Breaks(d, k, n)
<1>. DEFINE meta == Translate(d).meta
<1>1. PICK D \in SUBSET Keys : d \in [D -> Values \cup {None}]
  BY DEF KwargDefs
<1>2. CASE "min_length" \in DOMAIN meta /\ ~(n >= meta["min_length"])
  <2>1. PICK k \in {"min_items", "max_items", "min_length", "max_length"} :
           /\ k \in DOMAIN d /\ d[k] # None
           /\ meta["min_length"] = d[k]
           /\ (k \in {"min_items", "min_length"} <=> "min_length" = "min_length")
    BY <1>2, MetaBoundDeclared
  <2>2. d[k] \in Nat
    BY <1>1, <2>1
  <2>3. k \in {"min_items", "min_length"}
    BY <2>1
  <2>4. n < d[k]
    BY <1>2, <2>1, <2>2
  <2>5. Breaks(d, k, n)
    BY <2>1, <2>3, <2>4 DEF Breaks
  <2>. QED  BY <2>5
<1>3. CASE "max_length" \in DOMAIN meta /\ ~(n <= meta["max_length"])
  <2>1. PICK k \in {"min_items", "max_items", "min_length", "max_length"} :
           /\ k \in DOMAIN d /\ d[k] # None
           /\ meta["max_length"] = d[k]
           /\ (k \in {"min_items", "min_length"} <=> "max_length" = "min_length")
    BY <1>3, MetaBoundDeclared
  <2>2. d[k] \in Nat
    BY <1>1, <2>1
  <2>3. k \in {"max_items", "max_length"}
    BY <2>1
  <2>4. n > d[k]
    BY <1>3, <2>1, <2>2
  <2>5. Breaks(d, k, n)
    BY <2>1, <2>3, <2>4 DEF Breaks
  <2>. QED  BY <2>5
<1>. QED  BY <1>2, <1>3 DEF MetaAccepts

(* The translation adds no length bound of its own, in every state: a     *)
(* KwargDefinition's Meta rejects a length only if the definition declares *)
(* a bound that length breaks.                                             *)
THEOREM NoSpurious == Spec => []NoSpuriousLengthBound
<1>1. Init => TypeOK
  BY DEF Init, TypeOK
<1>2. TypeOK /\ [Next]_kd => TypeOK'
  BY DEF TypeOK, Next
<1>3. TypeOK => NoSpuriousLengthBound
  BY NoSpuriousFor DEF TypeOK, NoSpuriousLengthBound
<1>. QED  BY <1>1, <1>2, <1>3, PTL DEF Spec
=============================================================================
