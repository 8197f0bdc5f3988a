------------------------ MODULE SignatureModelProofs ------------------------
(***************************************************************************)
(* Proofs about SignatureModel for every value of the constants that       *)
(* satisfies ConstantsAssumption.                                          *)
(***************************************************************************)
EXTENDS SignatureModel, WellFoundedInduction, SequenceTheorems, TLAPS

USE ConstantsAssumption

(* A non-empty set of naturals has a least element: the index CHOOSE picks *)
(* in GetDecoder (the first matching registry entry) and in a union's      *)
(* conversion (the first member that converts) exists.                     *)
LEMMA LeastElement ==
    ASSUME NEW S \in SUBSET Nat, S # {}
    PROVE  \E m \in S : \A j \in S : m <= j
<1>1. \E x \in S : \A y \in S : ~(<<y, x>> \in OpToRel(<, Nat))
  BY NatLessThanWellFounded, WFMin
<1>2. PICK x \in S : \A y \in S : ~(<<y, x>> \in OpToRel(<, Nat))
  BY <1>1
<1>3. ASSUME NEW y \in S PROVE x <= y
  <2>1. <<y, x>> \in Nat \X Nat
    OBVIOUS
  <2>2. ~(y < x)
    BY <1>2, <2>1 DEF OpToRel
  <2>. QED  BY <2>2
<1>. QED  BY <1>3

(* The registry a handler's decoders are looked up in is a sequence of     *)
(* entries.                                                                *)
LEMMA DecoderChainType ==
    ASSUME NEW h \in Handlers
    PROVE  DecoderChain(h) \in Seq(DecoderEntries)
BY DEF DecoderChain

(* _get_decoder_for_type returns a registered decoder or none.            *)
LEMMA GetDecoderType ==
    ASSUME NEW h \in Handlers, NEW T
    PROVE  GetDecoder(h, T) \in Decoders \cup {NoDecoder}
<1>. DEFINE chain == DecoderChain(h)
            hits == {i \in 1 .. Len(chain) : T \in chain[i].match}
<1>1. chain \in Seq(DecoderEntries)
  BY DecoderChainType
<1>2. CASE hits = {}
  BY <1>2 DEF GetDecoder
<1>3. CASE hits # {}
  <2>1. \E m \in hits : \A j \in hits : m <= j
    <3>1. hits \in SUBSET Nat
      BY <1>1
    <3>. QED  BY <1>3, <3>1, LeastElement
  <2>. DEFINE first == CHOOSE i \in hits : \A j \in hits : i <= j
  <2>2. first \in 1 .. Len(chain)
    BY <2>1
  <2>3. GetDecoder(h, T) = chain[first].dec
    BY <1>3 DEF GetDecoder
  <2>4. chain[first] \in DecoderEntries
    BY <1>1, <2>2
  <2>. QED  BY <2>3, <2>4 DEF DecoderEntries
<1>. QED  BY <1>2, <1>3

-----------------------------------------------------------------------------
(* Parameters and annotations.                                             *)

(* Param(h, f) is the parameter record of f in the handler's signature.   *)
(* Every entry of a handler's signature is a parameter record.           *)
LEMMA SignatureEntry ==
    ASSUME NEW h \in Handlers, NEW i \in Idx(h)
    PROVE  Signature[h][i] \in ParamRecs
<1>1. Signature[h] \in Seq(ParamRecs)
  OBVIOUS
<1>. QED  BY <1>1 DEF Idx

LEMMA ParamType ==
    ASSUME NEW g \in Handlers, NEW x, x \in Fields(g)
    PROVE  \E i \in Idx(g) : /\ Param(g, x) = Signature[g][i]
                             /\ Signature[g][i].name = x
<1>1. \E i \in Idx(g) : Signature[g][i].name = x
  BY DEF Fields
<1>. QED  BY <1>1 DEF Param

(* The parameter names of a handler are names.                              *)
LEMMA FieldsAreNames ==
    ASSUME NEW h \in Handlers
    PROVE  Fields(h) \subseteq Names
<1>1. ASSUME NEW i \in Idx(h) PROVE Signature[h][i].name \in Names
  <2>1. Signature[h][i] \in ParamRecs
    BY SignatureEntry
  <2>. QED  BY <2>1 DEF ParamRecs
<1>. QED  BY <1>1 DEF Fields

(* What _create_annotation builds: a kind and its member types, at least  *)
(* one unless the annotation is Any.                                      *)
AnnotationOK(a) ==
    /\ a.kind \in {"any", "optional", "union", "plain"}
    /\ a.ts \in Seq(Types)
    /\ a.kind # "any" => Len(a.ts) >= 1

(* What _normalize_annotation returns for a parameter of a handler: Any, *)
(* or a plain type or union with at least one member type.                 *)
DeclOK(d) ==
    /\ d.kind \in {"any", "plain", "union"}
    /\ d.ts \in Seq(Types)
    /\ d.kind # "any" => Len(d.ts) >= 1

LEMMA NormalizedDeclType ==
    ASSUME NEW h \in Handlers, NEW f \in Fields(h)
    PROVE  DeclOK(NormalizedDecl(h, Param(h, f)))
<1>. DEFINE i == CHOOSE n \in Idx(h) : Signature[h][n].name = f
            p == Signature[h][i]
            d == NormalizedDecl(h, p)
<1>0. i \in Idx(h) /\ Param(h, f) = p
  BY DEF Fields, Param
<1>. SUFFICES DeclOK(d)
  BY <1>0
<1>1. p.decl \in Decls /\ (p.decl.kind # "any" => p.decl.ts # <<>>)
  <2>1. p \in ParamRecs
    BY <1>0, SignatureEntry
  <2>2. p.decl \in Decls
    BY <2>1 DEF ParamRecs
  <2>3. p.decl.kind # "any" => p.decl.ts # <<>>
    BY <1>0 DEF Idx
  <2>. QED  BY <2>2, <2>3
<1>2. CASE HasDataDTO[h] /\ p.name = DataName
  <2>1. d = [kind |-> "any", ts |-> <<>>, optional |-> FALSE]
    BY <1>2 DEF NormalizedDecl
  <2>. QED  BY <2>1, EmptySeq DEF DeclOK
<1>3. CASE ~(HasDataDTO[h] /\ p.name = DataName)
  <2>1. d = p.decl
    BY <1>3 DEF NormalizedDecl
  <2>2. p.decl.ts \in Seq(Types) /\ p.decl.kind \in {"any", "plain", "union"}
    BY <1>1 DEF Decls
  <2>3. p.decl.kind # "any" => Len(p.decl.ts) >= 1
    BY <1>1, <2>2, EmptySeq, LenProperties
  <2>. QED  BY <2>1, <2>2, <2>3 DEF DeclOK
<1>. QED  BY <1>2, <1>3

LEMMA CreateAnnotationType ==
    ASSUME NEW h \in Handlers, NEW f \in Fields(h)
    PROVE  AnnotationOK(CreateAnnotation(h, Param(h, f)))
<1>. DEFINE i == CHOOSE n \in Idx(h) : Signature[h][n].name = f
            p == Signature[h][i]
            d == NormalizedDecl(h, p)
<1>1. i \in Idx(h) /\ Param(h, f) = p
  BY DEF Fields, Param
<1>2. /\ d.kind \in {"any", "plain", "union"}
      /\ d.ts \in Seq(Types)
      /\ d.kind # "any" => Len(d.ts) >= 1
  BY <1>1, NormalizedDeclType DEF DeclOK
<1>3. CreateAnnotation(h, Param(h, f)) =
        IF d.kind = "any" THEN [kind |-> "any", ts |-> <<>>]
        ELSE IF d.kind = "union" /\ d.optional THEN [kind |-> "optional", ts |-> <<d.ts[1]>>]
        ELSE IF d.kind = "union" THEN [kind |-> "union", ts |-> d.ts]
        ELSE [kind |-> "plain", ts |-> d.ts]
  BY <1>1 DEF CreateAnnotation
<1>4. CASE d.kind = "any"
  BY <1>3, <1>4, EmptySeq DEF AnnotationOK
<1>5. CASE d.kind = "union" /\ d.optional
  <2>1. d.ts[1] \in Types
    BY <1>2, <1>5, ElementOfSeq
  <2>. QED  BY <1>3, <1>5, <2>1 DEF AnnotationOK
<1>6. CASE d.kind # "any" /\ ~(d.kind = "union" /\ d.optional)
  <2>1. CreateAnnotation(h, Param(h, f)) \in {[kind |-> "union", ts |-> d.ts],
                                              [kind |-> "plain", ts |-> d.ts]}
    BY <1>3, <1>6
  <2>2. d.ts \in Seq(Types) /\ Len(d.ts) >= 1
    BY <1>2, <1>6
  <2>. QED  BY <2>1, <2>2 DEF AnnotationOK
<1>. QED  BY <1>4, <1>5, <1>6

-----------------------------------------------------------------------------
(* Conversion results.                                                     *)

(* The locations an error reports: the value itself or one member.         *)
LocSet == {<<>>} \cup {<<n>> : n \in Names}
AttrOK(attr) == attr \in [MutableTypes -> Decoders \cup {NoDecoder}]
(* A conversion result: a typed value, and a failure reports a location.   *)
ConvOK(r) ==
    /\ r.ok \in BOOLEAN
    /\ r.val \in Vals
    /\ r.structured \in BOOLEAN
    /\ r.locs \subseteq LocSet
    /\ ~r.ok => r.locs # {}

LEMMA SuccessFailureType ==
    ASSUME NEW v \in RawValues
    PROVE  /\ \A by \in Producers : ConvOK(Success(v, by))
           /\ \A locs \in SUBSET LocSet, s \in BOOLEAN :
                 locs # {} => ConvOK(Failure(v, locs, s))
BY DEF Success, Failure, ConvOK, Vals, Producers

LEMMA NestedLocType ==
    ASSUME NEW T, NEW v \in RawValues
    PROVE  NestedLoc(T, v) \in LocSet
BY DEF NestedLoc, LocSet, RawValues

LEMMA ConvertBaseType ==
    ASSUME NEW T \in Types, NEW v \in RawValues, NEW attr, AttrOK(attr)
    PROVE  ConvOK(ConvertBase(T, v, attr))
<1>1. NestedLoc(T, v) \in LocSet /\ <<>> \in LocSet
  BY NestedLocType DEF LocSet
<1>2. CASE T \in NativeTypes
  BY <1>1, <1>2, SuccessFailureType DEF ConvertBase, Producers
<1>3. CASE T \notin NativeTypes
  <2>1. T \in MutableTypes
    BY <1>3 DEF MutableTypes
  <2>2. attr[T] # NoDecoder => attr[T] \in Producers
    BY <2>1 DEF AttrOK, Producers
  <2>3. ConvOK(Deserializer(T, v, attr))
    <3>0. /\ \A by \in Producers : ConvOK(Success(v, by))
          /\ \A locs \in SUBSET LocSet, s \in BOOLEAN :
                locs # {} => ConvOK(Failure(v, locs, s))
      BY SuccessFailureType
    <3>1. CASE v.k = "inst" /\ v.t = T
      <4>1. Deserializer(T, v, attr) = Success(v, "pass")
        BY <3>1 DEF Deserializer
      <4>. QED  BY <3>0, <4>1 DEF Producers
    <3>2. CASE ~(v.k = "inst" /\ v.t = T) /\ attr[T] # NoDecoder
      <4>1. Deserializer(T, v, attr) = IF v.k = "text" /\ v.t = T THEN Success(v, attr[T])
                                       ELSE Failure(v, {<<>>}, FALSE)
        BY <3>2 DEF Deserializer
      <4>. QED  BY <1>1, <2>2, <3>0, <3>2, <4>1
    <3>3. CASE ~(v.k = "inst" /\ v.t = T) /\ attr[T] = NoDecoder
      <4>1. Deserializer(T, v, attr) =
                IF v.k = "text" /\ v.t = T THEN Success(v, "default_deserializer")
                ELSE Failure(v, {NestedLoc(T, v)}, T \in StructuredErrTypes)
        BY <3>3 DEF Deserializer
      <4>2. ConvOK(Success(v, "default_deserializer"))
        BY <3>0 DEF Producers
      <4>3. ConvOK(Failure(v, {NestedLoc(T, v)}, T \in StructuredErrTypes))
        <5>1. {NestedLoc(T, v)} \in SUBSET LocSet /\ (T \in StructuredErrTypes) \in BOOLEAN
          BY <1>1
        <5>. QED  BY <3>0, <5>1
      <4>. QED  BY <4>1, <4>2, <4>3
    <3>. QED  BY <3>1, <3>2, <3>3
  <2>. QED  BY <1>3, <2>3 DEF ConvertBase
<1>. QED  BY <1>2, <1>3

(* The member of a union that convert() settles on is the first one that  *)
(* accepts the value.                                                      *)
LEMMA FirstAcceptingMember ==
    ASSUME NEW a, a.ts \in Seq(Types), NEW v, NEW attr,
           \E i \in 1 .. Len(a.ts) : ConvertBase(a.ts[i], v, attr).ok
    PROVE  (CHOOSE i \in 1 .. Len(a.ts) :
               /\ ConvertBase(a.ts[i], v, attr).ok
               /\ \A j \in 1 .. i - 1 : ~ConvertBase(a.ts[j], v, attr).ok) \in 1 .. Len(a.ts)
<1>. DEFINE S == {i \in 1 .. Len(a.ts) : ConvertBase(a.ts[i], v, attr).ok}
<1>1. S \in SUBSET Nat /\ S # {}
  <2>1. S \in SUBSET Nat
    OBVIOUS
  <2>2. S # {}
    BY Zenon
  <2>. QED  BY <2>1, <2>2
<1>2. PICK m \in S : \A j \in S : m <= j
  BY <1>1, LeastElement
<1>3. \A j \in 1 .. m - 1 : ~ConvertBase(a.ts[j], v, attr).ok
  BY <1>2
<1>. QED  BY <1>2, <1>3

LEMMA ConvertFieldType ==
    ASSUME NEW a, AnnotationOK(a), NEW v \in RawValues, NEW attr, AttrOK(attr)
    PROVE  ConvOK(ConvertField(a, v, attr))
<1>1. \A i \in 1 .. Len(a.ts) : ConvOK(ConvertBase(a.ts[i], v, attr))
  BY ConvertBaseType DEF AnnotationOK
<1>2. /\ \A by \in Producers : ConvOK(Success(v, by))
      /\ ConvOK(Failure(v, {<<>>}, FALSE))
  BY SuccessFailureType DEF LocSet
<1>3. CASE a.kind = "any"
  BY <1>2, <1>3 DEF ConvertField, Producers
<1>4. CASE a.kind = "optional" /\ v.k = "none"
  BY <1>2, <1>4 DEF ConvertField, Producers
<1>5. CASE a.kind = "union"
  <2>1. CASE \E i \in 1 .. Len(a.ts) : ConvertBase(a.ts[i], v, attr).ok
    <3>1. (CHOOSE i \in 1 .. Len(a.ts) :
              /\ ConvertBase(a.ts[i], v, attr).ok
              /\ \A j \in 1 .. i - 1 : ~ConvertBase(a.ts[j], v, attr).ok) \in 1 .. Len(a.ts)
      BY <2>1, FirstAcceptingMember DEF AnnotationOK
    <3>. QED  BY <1>1, <1>5, <2>1, <3>1 DEF ConvertField
  <2>3. CASE ~\E i \in 1 .. Len(a.ts) : ConvertBase(a.ts[i], v, attr).ok
    BY <1>2, <1>5, <2>3 DEF ConvertField
  <2>. QED  BY <2>1, <2>3
<1>6. CASE a.kind \in {"optional", "plain"} /\ ~(a.kind = "optional" /\ v.k = "none")
  <2>1. 1 \in 1 .. Len(a.ts)
    BY <1>6 DEF AnnotationOK
  <2>. QED  BY <1>1, <1>6, <2>1 DEF ConvertField
<1>. QED  BY <1>3, <1>4, <1>5, <1>6 DEF AnnotationOK

(* The conversion of one present parameter of a handler.                   *)
LEMMA ConvType ==
    ASSUME NEW h \in Handlers, NEW f \in Fields(h), NEW kw \in [Fields(h) -> RawValues],
           NEW attr, AttrOK(attr)
    PROVE  ConvOK(Conv(h, f, kw, attr))
BY CreateAnnotationType, ConvertFieldType DEF Conv

-----------------------------------------------------------------------------
(* Error messages.                                                         *)

(* The keys _build_error_message is called with: none, one name, or a     *)
(* name followed by the member an error is located at.                    *)
KeySeqs == {<<>>} \cup {<<n>> : n \in Names} \cup (Names \X Names)

(* A name is a key text.                                                    *)
LEMMA NameIsKeyText ==
    ASSUME NEW n \in Names
    PROVE  n \in KeyTexts /\ n \in Seq(Syllables) /\ Len(n) >= 1
<1>1. n \in Seq(Syllables) /\ n # <<>>
  OBVIOUS
<1>2. n \in KeyTexts
  BY <1>1, SeqMonotonic DEF KeyTexts
<1>3. Len(n) >= 1
  BY <1>1, LenProperties, EmptySeq
<1>. QED  BY <1>1, <1>2, <1>3

(* ".".join(keys) and key.replace("data.", "") give key texts.             *)
LEMMA JoinType ==
    ASSUME NEW keys \in KeySeqs \ {<<>>}
    PROVE  Join(keys) \in KeyTexts /\ ReplaceDataDot(keys) \in KeyTexts
<1>1. CASE \E n \in Names : keys = <<n>>
  <2>1. PICK n \in Names : keys = <<n>>
    BY <1>1
  <2>2. n \in KeyTexts
    BY NameIsKeyText
  <2>. QED  BY <2>1, <2>2 DEF Join, ReplaceDataDot
<1>2. CASE keys \in Names \X Names
  <2>1. PICK n, m \in Names : keys = <<n, m>>
    BY <1>2
  <2>2. n \in KeyTexts /\ m \in KeyTexts /\ <<".">> \in KeyTexts
    BY NameIsKeyText DEF KeyTexts
  <2>3. Join(keys) = n \o <<".">> \o m
    BY <2>1 DEF Join
  <2>4. n \o <<".">> \o m \in KeyTexts
    BY <2>2, ConcatProperties DEF KeyTexts
  <2>5. SubSeq(n, 1, Len(n) - 1) \o m \in KeyTexts
    <3>1. n \in Seq(Syllables) /\ Len(n) >= 1
      BY NameIsKeyText
    <3>2. \A i \in 1 .. Len(n) - 1 : n[i] \in Syllables \cup {"."}
      BY <3>1, ElementOfSeq
    <3>3. SubSeq(n, 1, Len(n) - 1) \in KeyTexts
      BY <3>1, <3>2, SubSeqProperties DEF KeyTexts
    <3>. QED  BY <2>2, <3>3, ConcatProperties DEF KeyTexts
  <2>6. ReplaceDataDot(keys) \in {SubSeq(n, 1, Len(n) - 1) \o m, Join(keys)}
    BY <2>1 DEF ReplaceDataDot
  <2>. QED  BY <2>3, <2>4, <2>5, <2>6
<1>. QED  BY <1>1, <1>2 DEF KeySeqs

(* _build_error_message builds an ErrorMessage: a key text or no key, the *)
(* exception text, a source or none.                                       *)
LEMMA BuildErrorMessageType ==
    ASSUME NEW h \in Handlers, NEW keys \in KeySeqs, NEW excMsg, excMsg.about \in Names,
           NEW query, NEW for \in Names
    PROVE  BuildErrorMessage(h, keys, excMsg, query, for) \in Messages
<1>. DEFINE m == BuildErrorMessage(h, keys, excMsg, query, for)
<1>1. m.key \in KeyTexts \cup {NoKey}
  <2>1. CASE keys = <<>>
    BY <2>1 DEF BuildErrorMessage
  <2>2. CASE keys # <<>>
    <3>1. Join(keys) \in KeyTexts /\ ReplaceDataDot(keys) \in KeyTexts
      BY <2>2, JoinType
    <3>. QED  BY <2>2, <3>1 DEF BuildErrorMessage
  <2>. QED  BY <2>1, <2>2
<1>2. m.source \in Sources \cup {NoSource}
  BY DEF BuildErrorMessage, Sources
<1>3. m.text \in Names /\ m.for \in Names
  BY DEF BuildErrorMessage, Truncate
<1>4. m = [key |-> m.key, text |-> m.text, source |-> m.source, for |-> m.for]
  BY DEF BuildErrorMessage
<1>. QED  BY <1>1, <1>2, <1>3, <1>4 DEF Messages

(* The keys _collect_errors builds for a left-out or failing field.        *)
LEMMA CollectErrorKeysType ==
    ASSUME NEW h \in Handlers, NEW f \in Fields(h), NEW kw \in [Fields(h) -> RawValues],
           NEW attr, AttrOK(attr),
           Missing(kw[f]) \/ ~Conv(h, f, kw, attr).ok
    PROVE  CollectErrorKeys(h, f, kw, attr) \in KeySeqs
<1>1. f \in Names
  BY FieldsAreNames
<1>2. ConvOK(Conv(h, f, kw, attr))
  BY ConvType
<1>3. CASE Missing(kw[f]) \/ Conv(h, f, kw, attr).structured
  BY <1>1, <1>3 DEF CollectErrorKeys, KeySeqs
<1>4. CASE ~(Missing(kw[f]) \/ Conv(h, f, kw, attr).structured)
  <2>. DEFINE loc == CHOOSE l \in Conv(h, f, kw, attr).locs : TRUE
  <2>1. loc \in LocSet
    BY <1>2, <1>4 DEF ConvOK
  <2>2. CASE loc = <<>>
    BY <1>1, <1>4, <2>2 DEF CollectErrorKeys, KeySeqs
  <2>3. CASE loc # <<>>
    <3>1. PICK n \in Names : loc = <<n>>
      BY <2>1, <2>3 DEF LocSet
    <3>2. <<f>> \o loc = <<f, n>>
      <4>1. <<f>> \in Seq(Names) /\ <<n>> \in Seq(Names)
        BY <1>1
      <4>2. /\ <<f>> \o <<n>> \in Seq(Names)
            /\ Len(<<f>> \o <<n>>) = 2
            /\ \A i \in 1 .. 2 : (<<f>> \o <<n>>)[i] = IF i <= 1 THEN f ELSE n
        BY <4>1, ConcatProperties
      <4>3. <<f, n>> \in Seq(Names) /\ Len(<<f, n>>) = 2
        BY <1>1
      <4>4. \A i \in 1 .. 2 : (<<f>> \o <<n>>)[i] = <<f, n>>[i]
        BY <4>2
      <4>5. <<f>> \o <<n>> = <<f, n>>
        BY <4>2, <4>3, <4>4, SeqEqual
      <4>. QED  BY <3>1, <4>5
    <3>3. CollectErrorKeys(h, f, kw, attr) = <<f>> \o loc
      BY <1>4, <2>3 DEF CollectErrorKeys
    <3>4. <<f, n>> \in Names \X Names
      BY <1>1
    <3>. QED  BY <3>2, <3>3, <3>4 DEF KeySeqs
  <2>. QED  BY <2>2, <2>3
<1>. QED  BY <1>3, <1>4

(* Both ways parse_values_from_connection_kwargs builds its messages give  *)
(* ErrorMessages.                                                          *)
LEMMA MessagesType ==
    ASSUME NEW h \in Handlers, NEW kw \in [Fields(h) -> RawValues], NEW query,
           NEW first \in Fields(h), NEW attr, AttrOK(attr)
    PROVE  /\ StructuredMessages(h, kw, query, first, attr) \subseteq Messages
           /\ CollectedMessages(h, kw, query, first, attr) \subseteq Messages
<1>1. first \in Names
  BY FieldsAreNames
<1>2. StructuredMessages(h, kw, query, first, attr) \subseteq Messages
  <2>1. Conv(h, first, kw, attr).locs \subseteq KeySeqs
    <3>1. ConvOK(Conv(h, first, kw, attr))
      BY ConvType
    <3>2. LocSet \subseteq KeySeqs
      BY DEF LocSet, KeySeqs
    <3>. QED  BY <3>1, <3>2 DEF ConvOK
  <2>2. ASSUME NEW loc \in Conv(h, first, kw, attr).locs
        PROVE  BuildErrorMessage(h, loc, [about |-> first, at |-> loc], query, first) \in Messages
    BY <1>1, <2>1, BuildErrorMessageType
  <2>. QED  BY <2>2 DEF StructuredMessages
<1>3. CollectedMessages(h, kw, query, first, attr) \subseteq Messages
  <2>1. ASSUME NEW f \in Fields(h), Missing(kw[f]) \/ ~Conv(h, f, kw, attr).ok
        PROVE  BuildErrorMessage(h, CollectErrorKeys(h, f, kw, attr),
                                 [about |-> first, at |-> <<>>], query, f) \in Messages
    <3>1. CollectErrorKeys(h, f, kw, attr) \in KeySeqs /\ f \in Names
      BY <2>1, CollectErrorKeysType, FieldsAreNames
    <3>. QED  BY <1>1, <3>1, BuildErrorMessageType
  <2>. QED  BY <2>1 DEF CollectedMessages
<1>. QED  BY <1>2, <1>3

-----------------------------------------------------------------------------
(* Outcomes of parse_values_from_connection_kwargs.                        *)

(* to_dict() has a converted value for every field.                        *)
LEMMA ToDictType ==
    ASSUME NEW h \in Handlers, NEW kw \in [Fields(h) -> RawValues], NEW attr, AttrOK(attr)
    PROVE  ToDict(h, kw, attr) \in [Fields(h) -> Vals]
<1>1. ASSUME NEW f \in Fields(h)
      PROVE  (IF Missing(kw[f]) THEN [raw |-> kw[f], by |-> "field_default"]
              ELSE Conv(h, f, kw, attr).val) \in Vals
  <2>1. Conv(h, f, kw, attr).val \in Vals
    BY ConvType DEF ConvOK
  <2>2. [raw |-> kw[f], by |-> "field_default"] \in Vals
    BY DEF Vals, Producers
  <2>. QED  BY <2>1, <2>2
<1>. QED  BY <1>1 DEF ToDict

(* Both results a request can leave are outcomes: the values of a success *)
(* and the raised exception of a failure about a field of the handler.    *)
LEMMA OutcomeType ==
    ASSUME NEW h \in Handlers, NEW kw \in [Fields(h) -> RawInputs],
           NEW query \in SUBSET QueryNames, NEW attr, AttrOK(attr)
    PROVE  /\ \A first \in Fields(h) : IsOutcome(FailedParse(h, kw, query, first, attr))
           /\ IsOutcome([h |-> h, kwargs |-> kw, query |-> query, outcome |-> "ok",
                         values |-> ToDict(h, kw, attr), messages |-> {}, extra |-> {},
                         attr |-> attr])
<1>1. kw \in [Fields(h) -> RawValues] /\ query \subseteq Names
  OBVIOUS
<1>2. ASSUME NEW first \in Fields(h)
      PROVE  IsOutcome(FailedParse(h, kw, query, first, attr))
  <2>1. /\ StructuredMessages(h, kw, query, first, attr) \subseteq Messages
        /\ CollectedMessages(h, kw, query, first, attr) \subseteq Messages
    BY <1>1, MessagesType
  <2>. DEFINE o == FailedParse(h, kw, query, first, attr)
  <2>2. o.messages \subseteq Messages
    BY <2>1 DEF FailedParse
  <2>3. o.extra \subseteq o.messages
    BY DEF FailedParse, ClientErrors
  <2>4. /\ o.h = h /\ o.kwargs = kw /\ o.query = query /\ o.values = <<>> /\ o.attr = attr
        /\ o.outcome \in {"ok", "validation", "internal"}
    BY DEF FailedParse
  <2>5. o = [h |-> o.h, kwargs |-> o.kwargs, query |-> o.query, outcome |-> o.outcome,
             values |-> o.values, messages |-> o.messages, extra |-> o.extra, attr |-> o.attr]
    BY DEF FailedParse
  <2>. QED  BY <1>1, <2>2, <2>3, <2>4, <2>5 DEF IsOutcome, AttrOK
<1>3. ToDict(h, kw, attr) \in [Fields(h) -> Vals]
  BY <1>1, ToDictType
<1>. QED  BY <1>1, <1>2, <1>3 DEF IsOutcome, AttrOK

(* The field reported first is a field of the handler.                     *)
LEMMA FirstFailingType ==
    ASSUME NEW h \in Handlers, NEW kw, NEW attr
    PROVE  FirstFailing(h, kw, attr) \subseteq Fields(h)
BY DEF FirstFailing, PresentFailing, MissingRequired

-----------------------------------------------------------------------------
(* One step of any handler creation, request or response keeps the      *)
(* state well formed.                                                    *)
LEMMA TypeOKStep == TypeOK /\ [Next]_vars => TypeOK'
<1> SUFFICES ASSUME TypeOK, [Next]_vars PROVE TypeOK'
  OBVIOUS
<1>1. AttrOK(decoderAttr)
  BY DEF TypeOK, AttrOK
<1>2. CASE Respond
  BY <1>2 DEF Respond, TypeOK
<1>3. ASSUME NEW h \in Handlers, Create(h) PROVE TypeOK'
  <2>1. status' \in [Handlers -> {"new", "registered", "failed"}]
    BY <1>3 DEF Create, TypeOK
  <2>2. decoderAttr' \in [MutableTypes -> Decoders \cup {NoDecoder}]
    <3>1. \A T \in MutableTypes : GetDecoder(h, T) \in Decoders \cup {NoDecoder}
      BY GetDecoderType
    <3>2. CASE ~DependenciesValid(h)
      BY <1>3, <3>2 DEF Create, TypeOK
    <3>3. CASE DependenciesValid(h)
      <4>1. decoderAttr' = [T \in MutableTypes |->
                               IF \E op \in AppliedOps(h) : OpType(h, op) = T
                               THEN GetDecoder(h, T) ELSE decoderAttr[T]]
        BY <1>3, <3>3 DEF Create
      <4>. QED  BY <3>1, <4>1 DEF TypeOK
    <3>. QED  BY <3>2, <3>3
  <2>3. last' = last /\ last = NoRequest
    BY <1>3 DEF Create
  <2>. QED  BY <2>1, <2>2, <2>3 DEF TypeOK
<1>4. ASSUME NEW h \in Handlers, ParseValues(h) PROVE TypeOK'
  <2>1. PICK kw \in [Fields(h) -> RawInputs], query \in SUBSET QueryNames :
            \/ /\ Failing(h, kw, decoderAttr) = {}
               /\ last' = [h |-> h, kwargs |-> kw, query |-> query, outcome |-> "ok",
                           values |-> ToDict(h, kw, decoderAttr), messages |-> {}, extra |-> {},
                           attr |-> decoderAttr]
            \/ \E first \in FirstFailing(h, kw, decoderAttr) :
                  last' = FailedParse(h, kw, query, first, decoderAttr)
    BY <1>4 DEF ParseValues
  <2>2. IsOutcome(last')
    <3>1. /\ \A first \in Fields(h) : IsOutcome(FailedParse(h, kw, query, first, decoderAttr))
          /\ IsOutcome([h |-> h, kwargs |-> kw, query |-> query, outcome |-> "ok",
                        values |-> ToDict(h, kw, decoderAttr), messages |-> {}, extra |-> {},
                        attr |-> decoderAttr])
      BY <1>1, OutcomeType
    <3>2. FirstFailing(h, kw, decoderAttr) \subseteq Fields(h)
      BY FirstFailingType
    <3>. QED  BY <2>1, <3>1, <3>2
  <2>. QED  BY <1>4, <2>2 DEF ParseValues, TypeOK
<1>5. CASE UNCHANGED vars
  BY <1>5 DEF vars, TypeOK
<1>. QED  BY <1>2, <1>3, <1>4, <1>5 DEF Next

(* The state is always well formed: every handler has a creation status,  *)
(* every mutable type object a `_decoder` attribute that is a decoder of  *)
(* some handler's registry or unset, and the latest request left a well-  *)
(* formed result or exception (SignatureModel.create and                  *)
(* parse_values_from_connection_kwargs).                                   *)
THEOREM TypeCorrect == Spec => []TypeOK
<1>1. Init => TypeOK
  BY DEF Init, TypeOK
<1>2. TypeOK /\ [Next]_vars => TypeOK'
  BY TypeOKStep
<1>. QED  BY <1>1, <1>2, PTL DEF Spec

-----------------------------------------------------------------------------
(* A failed request always carries error messages.                         *)

(* The field msgspec reports first really fails: it was given and did not *)
(* convert, or it is required and was left out.                           *)
LEMMA FirstFailingFails ==
    ASSUME NEW h \in Handlers, NEW kw, NEW attr, NEW first \in FirstFailing(h, kw, attr)
    PROVE  /\ first \in Fields(h)
           /\ Missing(kw[first]) \/ ~Conv(h, first, kw, attr).ok
BY DEF FirstFailing, PresentFailing, MissingRequired

(* Whichever except clause handles the error, the messages about the field *)
(* reported first are not empty: the structured errors of a present field *)
(* report at least one location, and _collect_errors visits that field.   *)
LEMMA FailedParseMessages ==
    ASSUME NEW h \in Handlers, NEW kw \in [Fields(h) -> RawValues], NEW query,
           NEW attr, AttrOK(attr), NEW first \in FirstFailing(h, kw, attr)
    PROVE  FailedParse(h, kw, query, first, attr).messages # {}
<1>1. first \in Fields(h) /\ (Missing(kw[first]) \/ ~Conv(h, first, kw, attr).ok)
  BY FirstFailingFails
<1>2. CASE Conv(h, first, kw, attr).structured /\ ~Missing(kw[first])
  <2>1. Conv(h, first, kw, attr).locs # {}
    <3>1. ConvOK(Conv(h, first, kw, attr))
      BY <1>1, ConvType
    <3>. QED  BY <1>1, <1>2, <3>1 DEF ConvOK
  <2>2. StructuredMessages(h, kw, query, first, attr) # {}
    <3>1. PICK loc \in Conv(h, first, kw, attr).locs : TRUE
      BY <2>1
    <3>2. BuildErrorMessage(h, loc, [about |-> first, at |-> loc], query, first)
              \in StructuredMessages(h, kw, query, first, attr)
      BY DEF StructuredMessages
    <3>. QED  BY <3>2
  <2>. QED  BY <1>2, <2>2 DEF FailedParse
<1>3. CASE ~(Conv(h, first, kw, attr).structured /\ ~Missing(kw[first]))
  <2>1. CollectedMessages(h, kw, query, first, attr) # {}
    BY <1>1 DEF CollectedMessages
  <2>. QED  BY <1>3, <2>1 DEF FailedParse
<1>. QED  BY <1>2, <1>3

(* The state invariant behind FailedParseHasMessages: the latest request,  *)
(* if it failed, left messages; together with the type invariant.          *)
MessagesInv == TypeOK /\ FailedParseHasMessages

(* A failed parse_values_from_connection_kwargs never raises an exception  *)
(* without error messages, for every signature, registry and input.        *)
THEOREM FailuresHaveMessages == Spec => []FailedParseHasMessages
<1>1. Init => MessagesInv
  BY DEF Init, MessagesInv, TypeOK, FailedParseHasMessages, Failed, Parsed
<1>2. MessagesInv /\ [Next]_vars => MessagesInv'
  <2> SUFFICES ASSUME MessagesInv, [Next]_vars PROVE MessagesInv'
    OBVIOUS
  <2>1. TypeOK'
    BY TypeOKStep DEF MessagesInv
  <2>2. CASE Respond
    BY <2>1, <2>2 DEF Respond, MessagesInv, FailedParseHasMessages, Failed, Parsed
  <2>3. ASSUME NEW h \in Handlers, Create(h) PROVE MessagesInv'
    BY <2>1, <2>3 DEF Create, MessagesInv, FailedParseHasMessages, Failed, Parsed
  <2>4. ASSUME NEW h \in Handlers, ParseValues(h) PROVE MessagesInv'
    <3>1. AttrOK(decoderAttr)
      BY DEF MessagesInv, TypeOK, AttrOK
    <3>2. PICK kw \in [Fields(h) -> RawInputs], query \in SUBSET QueryNames :
              \/ /\ Failing(h, kw, decoderAttr) = {}
                 /\ last' = [h |-> h, kwargs |-> kw, query |-> query, outcome |-> "ok",
                             values |-> ToDict(h, kw, decoderAttr), messages |-> {}, extra |-> {},
                             attr |-> decoderAttr]
              \/ \E first \in FirstFailing(h, kw, decoderAttr) :
                    last' = FailedParse(h, kw, query, first, decoderAttr)
      BY <2>4 DEF ParseValues
    <3>3. kw \in [Fields(h) -> RawValues]
      OBVIOUS
    <3>4. CASE last'.outcome = "ok"
      BY <2>1, <3>4 DEF MessagesInv, FailedParseHasMessages, Failed, Parsed
    <3>5. CASE last'.outcome # "ok"
      <4>1. PICK first \in FirstFailing(h, kw, decoderAttr) :
                last' = FailedParse(h, kw, query, first, decoderAttr)
        BY <3>2, <3>5
      <4>2. last'.messages # {}
        BY <3>1, <3>3, <4>1, FailedParseMessages
      <4>. QED  BY <2>1, <4>2 DEF MessagesInv, FailedParseHasMessages, Failed, Parsed
    <3>. QED  BY <3>4, <3>5
  <2>5. CASE UNCHANGED vars
    BY <2>1, <2>5 DEF vars, MessagesInv, FailedParseHasMessages, Failed, Parsed
  <2>. QED  BY <2>2, <2>3, <2>4, <2>5 DEF Next
<1>3. MessagesInv => FailedParseHasMessages
  BY DEF MessagesInv
<1>. QED  BY <1>1, <1>2, <1>3, PTL DEF Spec

-----------------------------------------------------------------------------
(* A request succeeds only with acceptable input.                         *)

(* A member type converts a value only when it is an instance or a text of *)
(* that type: msgspec's native conversion, the isinstance short-cut, a     *)
(* registered decoder and the default deserializer all refuse the rest.    *)
LEMMA ConvertBaseSound ==
    ASSUME NEW T, NEW v, NEW attr, ConvertBase(T, v, attr).ok
    PROVE  SpecBaseValid(T, v)
<1>1. CASE T \in NativeTypes
  BY <1>1 DEF ConvertBase, Success, Failure, SpecBaseValid
<1>2. CASE T \notin NativeTypes
  <2>1. Deserializer(T, v, attr).ok
    BY <1>2 DEF ConvertBase
  <2>. QED  BY <2>1 DEF Deserializer, Success, Failure, SpecBaseValid
<1>. QED  BY <1>1, <1>2

(* convert() accepts a given value of a parameter only when spec 4.1 does: *)
(* the annotation _create_annotation built never widens what the declared *)
(* type accepts (an optional union keeps only its first member, which can *)
(* only narrow it).                                                        *)
LEMMA ConvSound ==
    ASSUME NEW h \in Handlers, NEW f \in Fields(h), NEW v, NEW attr, ~Missing(v),
           ConvertField(CreateAnnotation(h, Param(h, f)), v, attr).ok
    PROVE  SpecFieldValid(h, f, v)
<1>. DEFINE d == NormalizedDecl(h, Param(h, f))
            a == CreateAnnotation(h, Param(h, f))
<1>1. DeclOK(d)
  BY NormalizedDeclType
<1>2. SUFFICES \/ d.kind = "any"
               \/ d.kind = "union" /\ d.optional /\ v.k = "none"
               \/ \E i \in 1 .. Len(d.ts) : SpecBaseValid(d.ts[i], v)
  BY DEF SpecFieldValid
<1>3. CASE d.kind = "any"
  BY <1>3
<1>4. CASE d.kind = "union" /\ d.optional
  <2>1. a = [kind |-> "optional", ts |-> <<d.ts[1]>>]
    BY <1>4 DEF CreateAnnotation
  <2>2. CASE v.k = "none"
    BY <1>4, <2>2
  <2>3. CASE v.k # "none"
    <3>1. ConvertField(a, v, attr) = ConvertBase(d.ts[1], v, attr)
      BY <2>1, <2>3 DEF ConvertField
    <3>2. SpecBaseValid(d.ts[1], v)
      BY <3>1, ConvertBaseSound
    <3>3. 1 \in 1 .. Len(d.ts)
      BY <1>1, <1>4 DEF DeclOK
    <3>. QED  BY <3>2, <3>3
  <2>. QED  BY <2>2, <2>3
<1>5. CASE d.kind = "union" /\ ~d.optional
  <2>1. a = [kind |-> "union", ts |-> d.ts]
    BY <1>5 DEF CreateAnnotation
  <2>2. \E i \in 1 .. Len(d.ts) : ConvertBase(d.ts[i], v, attr).ok
    <3>1. SUFFICES ASSUME ~\E i \in 1 .. Len(d.ts) : ConvertBase(d.ts[i], v, attr).ok
                   PROVE  FALSE
      OBVIOUS
    <3>2. ConvertField(a, v, attr) = Failure(v, {<<>>}, FALSE)
      BY <2>1, <3>1 DEF ConvertField
    <3>. QED  BY <3>2 DEF Failure
  <2>. QED  BY <2>2, ConvertBaseSound
<1>6. CASE d.kind = "plain"
  <2>1. a = [kind |-> "plain", ts |-> d.ts]
    BY <1>6 DEF CreateAnnotation
  <2>2. ConvertField(a, v, attr) = ConvertBase(d.ts[1], v, attr)
    BY <2>1 DEF ConvertField
  <2>3. SpecBaseValid(d.ts[1], v)
    BY <2>2, ConvertBaseSound
  <2>4. 1 \in 1 .. Len(d.ts)
    BY <1>1, <1>6 DEF DeclOK
  <2>. QED  BY <2>3, <2>4
<1>. QED  BY <1>1, <1>3, <1>4, <1>5, <1>6 DEF DeclOK

(* When the batch convert() finds nothing failing, every parameter is     *)
(* acceptable and to_dict() has a value for each.                         *)
LEMMA SuccessSound ==
    ASSUME NEW h \in Handlers, NEW kw, NEW attr, Failing(h, kw, attr) = {}
    PROVE  /\ DOMAIN ToDict(h, kw, attr) = Fields(h)
           /\ \A f \in Fields(h) : SpecFieldValid(h, f, kw[f])
<1>1. DOMAIN ToDict(h, kw, attr) = Fields(h)
  BY DEF ToDict
<1>2. ASSUME NEW f \in Fields(h) PROVE SpecFieldValid(h, f, kw[f])
  <2>1. f \notin PresentFailing(h, kw, attr) /\ f \notin MissingRequired(h, kw)
    BY DEF Failing
  <2>2. CASE Missing(kw[f])
    <3>1. Param(h, f).hasDefault
      BY <2>1, <2>2 DEF MissingRequired
    <3>. QED  BY <2>2, <3>1 DEF SpecFieldValid
  <2>3. CASE ~Missing(kw[f])
    <3>1. ConvertField(CreateAnnotation(h, Param(h, f)), kw[f], attr).ok
      BY <2>1, <2>3 DEF PresentFailing, Conv
    <3>. QED  BY <2>3, <3>1, ConvSound
  <2>. QED  BY <2>2, <2>3
<1>. QED  BY <1>1, <1>2

(* A failed request never records the outcome "ok".                        *)
LEMMA FailedParseNotOk ==
    ASSUME NEW h, NEW kw, NEW query, NEW first, NEW attr
    PROVE  FailedParse(h, kw, query, first, attr).outcome # "ok"
BY DEF FailedParse

(* parse_values_from_connection_kwargs returns to_dict() only when every   *)
(* parameter's raw value is acceptable by spec 4.1 and then has a value    *)
(* for every parameter, for every signature, decoder registry, decoder     *)
(* attribute left by earlier create calls, and input: no partial success.  *)
THEOREM OnlyValidAccepted == Spec => []RejectsOnlyInvalid
<1>1. Init => RejectsOnlyInvalid
  BY DEF Init, RejectsOnlyInvalid, Parsed
<1>2. RejectsOnlyInvalid /\ [Next]_vars => RejectsOnlyInvalid'
  <2> SUFFICES ASSUME RejectsOnlyInvalid, [Next]_vars PROVE RejectsOnlyInvalid'
    OBVIOUS
  <2>1. CASE Respond
    BY <2>1 DEF Respond, RejectsOnlyInvalid, Parsed
  <2>2. ASSUME NEW h \in Handlers, Create(h) PROVE RejectsOnlyInvalid'
    BY <2>2 DEF Create, RejectsOnlyInvalid, Parsed
  <2>3. ASSUME NEW h \in Handlers, ParseValues(h) PROVE RejectsOnlyInvalid'
    <3>1. PICK kw \in [Fields(h) -> RawInputs], query \in SUBSET QueryNames :
              \/ /\ Failing(h, kw, decoderAttr) = {}
                 /\ last' = [h |-> h, kwargs |-> kw, query |-> query, outcome |-> "ok",
                             values |-> ToDict(h, kw, decoderAttr), messages |-> {}, extra |-> {},
                             attr |-> decoderAttr]
              \/ \E first \in FirstFailing(h, kw, decoderAttr) :
                    last' = FailedParse(h, kw, query, first, decoderAttr)
      BY <2>3 DEF ParseValues
    <3>2. CASE /\ Failing(h, kw, decoderAttr) = {}
               /\ last' = [h |-> h, kwargs |-> kw, query |-> query, outcome |-> "ok",
                           values |-> ToDict(h, kw, decoderAttr), messages |-> {}, extra |-> {},
                           attr |-> decoderAttr]
      <4>1. /\ DOMAIN ToDict(h, kw, decoderAttr) = Fields(h)
            /\ \A f \in Fields(h) : SpecFieldValid(h, f, kw[f])
        BY <3>2, SuccessSound
      <4>. QED  BY <3>2, <4>1 DEF RejectsOnlyInvalid, Parsed
    <3>3. CASE \E first \in FirstFailing(h, kw, decoderAttr) :
                  last' = FailedParse(h, kw, query, first, decoderAttr)
      <4>1. last'.outcome # "ok"
        BY <3>3, FailedParseNotOk
      <4>. QED  BY <4>1 DEF RejectsOnlyInvalid
    <3>. QED  BY <3>1, <3>2, <3>3
  <2>4. CASE UNCHANGED vars
    BY <2>4 DEF vars, RejectsOnlyInvalid, Parsed
  <2>. QED  BY <2>1, <2>2, <2>3, <2>4 DEF Next
<1>. QED  BY <1>1, <1>2, PTL DEF Spec

====
