------------------------- MODULE GuidColumnProofs -------------------------
(***************************************************************************)
(* Proofs about the GUID column for every set of UUIDs and rows and every *)
(* set of engines.                                                         *)
(***************************************************************************)
EXTENDS GuidColumn, TLAPS

USE GuidAssumption

(* The value Write stores for input v on engine e.                          *)
Stored(v, e) == Store(ColumnType(e), BindParam(v, e))

(* The engines on which process_result_value undoes what                   *)
(* process_bind_param stored: all but Oracle with binary=False, where bind *)
(* writes bytes and the result path parses them as hex (types.py:58, 71). *)
ReadsBack(e) == ~(e.dialect = "oracle" /\ ~e.binary)

-----------------------------------------------------------------------------
(* A value of any form is neither None nor Error, and has its form and     *)
(* UUID.                                                                    *)
LEMMA ValFacts ==
    ASSUME NEW f \in Forms, NEW u \in UUIDs
    PROVE  /\ Val(f, u) \in Vals
           /\ Val(f, u) # None /\ Val(f, u) # Error
           /\ Val(f, u).k = f /\ Val(f, u).u = u
BY DEF Val, Vals

(* Store keeps NULL and an error raised by the bind.                       *)
LEMMA StoreNull ==
    ASSUME NEW col
    PROVE  Store(col, None) = None /\ Store(col, Error) = Error
BY DEF Store

(* What a column makes of a bound value: a UUID column parses a UUID      *)
(* string, a binary column takes bytes, a CHAR(32) column hex.             *)
LEMMA StoreVal ==
    ASSUME NEW col, NEW f \in Forms, NEW u \in UUIDs
    PROVE  Store(col, Val(f, u)) =
              IF col = "UUID" /\ f \in {"hex", "str"} THEN Val("uuid", u)
              ELSE IF col \in {"RAW16", "BINARY16"} /\ f = "bytes" THEN Val(f, u)
              ELSE IF col = "CHAR32" /\ f = "hex" THEN Val(f, u)
              ELSE Error
<1>1. Val(f, u) \notin {None, Error} /\ Val(f, u).k = f /\ Val(f, u).u = u
  BY ValFacts
<1>. QED  BY <1>1 DEF Store

(* None is bound as None and stored as NULL on every engine.               *)
LEMMA StoreNone ==
    ASSUME NEW e \in Engines
    PROVE  Stored(None, e) = None
<1>1. BindParam(None, e) = None
  BY DEF BindParam
<1>. QED  BY <1>1, StoreNull DEF Stored

(* A string that is no UUID makes the write fail on every engine: it is   *)
(* bound unchanged and rejected by the UUID column on postgresql and       *)
(* duckdb, and to_uuid raises on the other dialects.                      *)
LEMMA StoreJunk ==
    ASSUME NEW e \in Engines, NEW v \in [k : {"junk"}]
    PROVE  Stored(v, e) = Error
<1>1. v # None /\ v # Error /\ v.k = "junk"
  BY DEF Vals
<1>2. CASE e.dialect \in {"postgresql", "duckdb"}
  <2>1. Str(v) = v
    BY <1>1 DEF Str
  <2>2. BindParam(v, e) = v
    BY <1>1, <1>2, <2>1 DEF BindParam
  <2>3. ColumnType(e) = "UUID"
    BY <1>2 DEF ColumnType
  <2>. QED  BY <2>2, <2>3, <1>1 DEF Stored, Store
<1>3. CASE e.dialect \notin {"postgresql", "duckdb"}
  <2>1. FromHex(v) = Error /\ FromBytes(v) = Error
    BY <1>1 DEF FromHex, FromBytes
  <2>2. ToUUID(v) = Error
    BY <1>1, <2>1 DEF ToUUID
  <2>3. BindParam(v, e) = Error
    BY <1>1, <1>3, <2>2 DEF BindParam
  <2>. QED  BY <2>3, StoreNull DEF Stored
<1>. QED  BY <1>2, <1>3

(* How process_bind_param binds a UUID given in any input form.            *)
LEMMA BindUUID ==
    ASSUME NEW e \in Engines, NEW f \in {"uuid", "hex", "str", "bytes"}, NEW u \in UUIDs
    PROVE  BindParam(Val(f, u), e) =
              IF e.dialect \in {"postgresql", "duckdb"}
              THEN IF f = "uuid" THEN Val("str", u) ELSE IF f = "bytes" THEN Val("repr", u) ELSE Val(f, u)
              ELSE IF e.dialect \in {"oracle", "spanner+spanner"} \/ e.binary
              THEN Val("bytes", u) ELSE Val("hex", u)
<1>. DEFINE v == Val(f, u)
<1>1. v # None /\ v # Error /\ v.k = f /\ v.u = u
  BY ValFacts DEF Forms
<1>2. Str(v) = IF f = "uuid" THEN Val("str", u) ELSE IF f = "bytes" THEN Val("repr", u) ELSE v
  <2>1. CASE f = "uuid"
    BY <1>1, <2>1 DEF Str
  <2>2. CASE f = "bytes"
    BY <1>1, <2>2 DEF Str
  <2>3. CASE f \in {"hex", "str"}
    BY <1>1, <2>3 DEF Str
  <2>. QED  BY <2>1, <2>2, <2>3
<1>3. FromHex(v) = IF f \in {"hex", "str"} THEN Val("uuid", u) ELSE Error
  BY <1>1 DEF FromHex
<1>4. FromBytes(v) = IF f = "bytes" THEN Val("uuid", u) ELSE Error
  BY <1>1 DEF FromBytes
<1>5. ToUUID(v) = Val("uuid", u)
  <2>1. Val("uuid", u) # Error /\ Val("uuid", u) # None /\ Val("uuid", u).u = u
    BY ValFacts DEF Forms
  <2>2. CASE f = "uuid"
    BY <1>1, <2>2 DEF ToUUID
  <2>3. CASE f # "uuid"
    BY <1>1, <1>3, <1>4, <2>1, <2>3 DEF ToUUID
  <2>. QED  BY <2>2, <2>3
<1>6. Val("uuid", u) \notin {None, Error} /\ Val("uuid", u).u = u
  BY ValFacts DEF Forms
<1>7. CASE e.dialect \in {"postgresql", "duckdb"}
  BY <1>1, <1>2, <1>7 DEF BindParam
<1>8. CASE e.dialect \notin {"postgresql", "duckdb"}
  BY <1>1, <1>5, <1>6, <1>8 DEF BindParam
<1>. QED  BY <1>7, <1>8

(* What process_result_value makes of a value the driver fetched.           *)
LEMMA ResultOf ==
    ASSUME NEW e \in Engines, NEW f \in Forms, NEW u \in UUIDs
    PROVE  ResultValue(Val(f, u), e) =
              IF f = "uuid" THEN Val("uuid", u)
              ELSE IF e.dialect = "spanner+spanner"
                   THEN IF f = "b64" THEN Val("uuid", u) ELSE Error
              ELSE IF e.binary THEN (IF f = "bytes" THEN Val("uuid", u) ELSE Error)
              ELSE (IF f \in {"hex", "str"} THEN Val("uuid", u) ELSE Error)
<1>1. Val(f, u) # None /\ Val(f, u).k = f /\ Val(f, u).u = u
  BY ValFacts
<1>2. f = "uuid" => Val(f, u) = Val("uuid", u)
  OBVIOUS
<1>. QED  BY <1>1, <1>2 DEF ResultValue, FromBytes, FromHex

(* A UUID in any input form that the engine accepts is stored as a non-   *)
(* NULL value, and where the engine reads back, process_result_value of   *)
(* what the driver fetches is that UUID.                                   *)
LEMMA StoreUUID ==
    ASSUME NEW e \in Engines, NEW f \in {"uuid", "hex", "str", "bytes"}, NEW u \in UUIDs,
           Stored(Val(f, u), e) # Error
    PROVE  /\ Stored(Val(f, u), e) \in Vals
           /\ Stored(Val(f, u), e).k # "junk" /\ Stored(Val(f, u), e).u = u
           /\ ReadsBack(e) =>
                 ResultValue(Fetch(Stored(Val(f, u), e), e), e) = Val("uuid", u)
<1>1. e.dialect \in Dialects /\ e.binary \in BOOLEAN
  OBVIOUS
<1>2. PICK g \in Forms : Stored(Val(f, u), e) = Val(g, u)
                      /\ (e.dialect \in {"postgresql", "duckdb"} => g = "uuid")
                      /\ (e.dialect \notin {"postgresql", "duckdb"} =>
                            g = IF e.dialect \in {"oracle", "spanner+spanner"} \/ e.binary
                                THEN "bytes" ELSE "hex")
  <2>1. PICK b \in Forms : BindParam(Val(f, u), e) = Val(b, u)
                        /\ (e.dialect \in {"postgresql", "duckdb"} => b \in {"str", "repr", "hex"})
                        /\ (e.dialect \notin {"postgresql", "duckdb"} =>
                              b = IF e.dialect \in {"oracle", "spanner+spanner"} \/ e.binary
                                  THEN "bytes" ELSE "hex")
    BY BindUUID DEF Forms
  <2>2. Store(ColumnType(e), Val(b, u)) # Error
    BY <2>1 DEF Stored
  <2>3. ColumnType(e) = IF e.dialect \in {"postgresql", "duckdb"} THEN "UUID"
                        ELSE IF e.dialect = "oracle" THEN "RAW16"
                        ELSE IF e.binary THEN "BINARY16" ELSE "CHAR32"
    BY DEF ColumnType
  <2>. QED  BY <2>1, <2>2, <2>3, StoreVal DEF Stored, Forms
<1>3. /\ Stored(Val(f, u), e) \in Vals
      /\ Stored(Val(f, u), e).k # "junk" /\ Stored(Val(f, u), e).u = u
  BY <1>2, ValFacts DEF Forms
<1>4. Fetch(Val(g, u), e) =
        IF e.dialect = "spanner+spanner" /\ g = "bytes" THEN Val("b64", u) ELSE Val(g, u)
  BY ValFacts DEF Fetch
<1>5. ReadsBack(e) => ResultValue(Fetch(Val(g, u), e), e) = Val("uuid", u)
  <2>1. "b64" \in Forms
    BY DEF Forms
  <2>2. ASSUME ReadsBack(e) PROVE ResultValue(Fetch(Val(g, u), e), e) = Val("uuid", u)
    <3>1. ~(e.dialect = "oracle" /\ ~e.binary)
      BY <2>2 DEF ReadsBack
    <3>. QED  BY <1>1, <1>2, <1>4, <2>1, <3>1, ResultOf DEF Dialects
  <2>. QED  BY <2>2
<1>. QED  BY <1>2, <1>3, <1>5

-----------------------------------------------------------------------------
(* Every stored row decodes, through the driver and process_result_value, *)
(* to what was last written to it.                                         *)
RowsDecode ==
    \A r \in Rows : table[r] # NoRow => ResultValue(Fetch(table[r], engine), engine) = written[r]

(* The inductive invariants behind JunkNeverStored and RoundTrip.           *)
JunkInv == TypeOK /\ JunkNeverStored
RoundTripInv == TypeOK /\ RowsDecode /\ RoundTrip

(* What one write leaves in the row when the database accepts it: a NULL  *)
(* exactly for None, a value of the column's type otherwise that carries  *)
(* the UUID the input denotes, and one that reads back as that UUID where *)
(* the engine reads back.                                                  *)
LEMMA WriteOutcome ==
    ASSUME NEW e \in Engines, NEW v \in Inputs, Stored(v, e) # Error
    PROVE  /\ Stored(v, e) \in Vals \cup {None}
           /\ Meaning(v) \in Vals \cup {None}
           /\ (Stored(v, e) = None <=> Meaning(v) = None)
           /\ Stored(v, e) # None =>
                 Stored(v, e).k # "junk" /\ Meaning(v) = Val("uuid", Stored(v, e).u)
           /\ ReadsBack(e) => ResultValue(Fetch(Stored(v, e), e), e) = Meaning(v)
<1>1. CASE v = None
  <2>1. Stored(v, e) = None /\ Meaning(v) = None
    BY <1>1, StoreNone DEF Meaning
  <2>2. ResultValue(Fetch(None, e), e) = None
    BY DEF Fetch, ResultValue
  <2>. QED  BY <2>1, <2>2
<1>2. CASE v \in [k : {"junk"}]
  BY <1>2, StoreJunk
<1>3. CASE v \in [k : {"uuid", "hex", "str", "bytes"}, u : UUIDs]
  <2>1. PICK f \in {"uuid", "hex", "str", "bytes"}, u \in UUIDs : v = Val(f, u)
    BY <1>3 DEF Val
  <2>2. Meaning(v) = Val("uuid", u) /\ Val("uuid", u) \in Vals /\ Val("uuid", u) # None
    <3>1. Val(f, u) # None /\ Val(f, u).k = f /\ Val(f, u).u = u
      BY ValFacts DEF Forms
    <3>2. Val("uuid", u) \in Vals /\ Val("uuid", u) # None
      BY ValFacts DEF Forms
    <3>. QED  BY <2>1, <3>1, <3>2 DEF Meaning
  <2>3. /\ Stored(v, e) \in Vals
        /\ Stored(v, e).k # "junk" /\ Stored(v, e).u = u
        /\ (ReadsBack(e) => ResultValue(Fetch(Stored(v, e), e), e) = Val("uuid", u))
    BY <2>1, StoreUUID
  <2>4. Stored(v, e) # None
    BY <2>3
  <2>. QED  BY <2>2, <2>3, <2>4
<1>. QED  BY <1>1, <1>2, <1>3 DEF Inputs, Vals, Forms

(* Every step keeps the table well typed: a write stores NULL or a value  *)
(* of the column's type, or nothing when the database raised.              *)
LEMMA TypeOKStep == TypeOK /\ [Next]_vars => TypeOK'
<1> SUFFICES ASSUME TypeOK, [Next]_vars PROVE TypeOK'
  OBVIOUS
<1>1. CASE UNCHANGED vars
  BY <1>1 DEF vars, TypeOK
<1>2. ASSUME NEW r \in Rows, Read(r) PROVE TypeOK'
  BY <1>2 DEF Read, TypeOK
<1>3. ASSUME NEW r \in Rows, NEW v \in Inputs, Write(r, v) PROVE TypeOK'
  <2>1. CASE Stored(v, engine) = Error
    BY <1>3, <2>1 DEF Write, Stored, TypeOK
  <2>2. CASE Stored(v, engine) # Error
    <3>1. /\ table' = [table EXCEPT ![r] = Stored(v, engine)]
          /\ written' = [written EXCEPT ![r] = Meaning(v)]
          /\ engine' = engine
      BY <1>3, <2>2 DEF Write, Stored
    <3>2. Stored(v, engine) \in Vals \cup {None} /\ Meaning(v) \in Vals \cup {None}
      BY <2>2, WriteOutcome DEF TypeOK
    <3>. QED  BY <3>1, <3>2 DEF TypeOK
  <2>. QED  BY <2>1, <2>2
<1>. QED  BY <1>1, <1>2, <1>3 DEF Next

(* Every step keeps the table well typed and stores NULL exactly for      *)
(* writes of None.                                                          *)
LEMMA JunkInvStep == JunkInv /\ [Next]_vars => JunkInv'
<1> SUFFICES ASSUME TypeOK, JunkNeverStored, [Next]_vars PROVE JunkInv'
  BY DEF JunkInv
<1>1. CASE UNCHANGED vars
  BY <1>1 DEF vars, JunkInv, TypeOK, JunkNeverStored
<1>2. ASSUME NEW r \in Rows, Read(r) PROVE JunkInv'
  BY <1>2 DEF Read, JunkInv, TypeOK, JunkNeverStored
<1>3. ASSUME NEW r \in Rows, NEW v \in Inputs, Write(r, v) PROVE JunkInv'
  <2>1. CASE Stored(v, engine) = Error
    <3>1. UNCHANGED <<engine, table, written>>
      BY <1>3, <2>1 DEF Write, Stored
    <3>. QED  BY <3>1 DEF JunkInv, TypeOK, JunkNeverStored
  <2>2. CASE Stored(v, engine) # Error
    <3>1. /\ table' = [table EXCEPT ![r] = Stored(v, engine)]
          /\ written' = [written EXCEPT ![r] = Meaning(v)]
          /\ engine' = engine
      BY <1>3, <2>2 DEF Write, Stored
    <3>2. /\ Stored(v, engine) \in Vals \cup {None}
          /\ Meaning(v) \in Vals \cup {None}
          /\ (Stored(v, engine) = None <=> Meaning(v) = None)
          /\ Stored(v, engine) # None =>
                Stored(v, engine).k # "junk" /\ Meaning(v) = Val("uuid", Stored(v, engine).u)
      BY <2>2, WriteOutcome DEF TypeOK
    <3>3. TypeOK'
      BY <3>1, <3>2 DEF TypeOK
    <3>4. JunkNeverStored'
      BY <3>1, <3>2 DEF TypeOK, JunkNeverStored
    <3>. QED  BY <3>3, <3>4 DEF JunkInv
  <2>. QED  BY <2>1, <2>2
<1>. QED  BY <1>1, <1>2, <1>3 DEF Next

(* A value that is no UUID never reaches the table, as NULL or as some    *)
(* value, on every engine and either storage mode: a NULL row was written *)
(* None and every other row holds the UUID last written to it; to_uuid    *)
(* raises on junk and each bind path keeps the UUID it is given.          *)
THEOREM JunkNeverStoredHolds == Spec => []JunkNeverStored
<1>1. Init => JunkInv
  BY GuidAssumption DEF Init, JunkInv, TypeOK, JunkNeverStored
<1>2. JunkInv => JunkNeverStored
  BY DEF JunkInv
<1>. QED  BY <1>1, <1>2, JunkInvStep, PTL DEF Spec

(* On an engine that reads back, every step keeps each stored row         *)
(* decoding to what was last written, and a read returns that.             *)
LEMMA RoundTripInvStep ==
    ASSUME \A e \in Engines : ReadsBack(e)
    PROVE  RoundTripInv /\ [Next]_vars => RoundTripInv'
<1> SUFFICES ASSUME TypeOK, RowsDecode, RoundTrip, [Next]_vars PROVE RoundTripInv'
  BY DEF RoundTripInv
<1>1. TypeOK'
  BY TypeOKStep
<1>2. CASE UNCHANGED vars
  BY <1>1, <1>2 DEF vars, RoundTripInv, RowsDecode, RoundTrip
<1>3. ASSUME NEW r \in Rows, Read(r) PROVE RoundTripInv'
  <2>1. /\ table[r] # NoRow
        /\ lastOp' = [op |-> "read", row |-> r,
                      result |-> ResultValue(Fetch(table[r], engine), engine)]
        /\ UNCHANGED <<engine, table, written>>
    BY <1>3 DEF Read
  <2>2. RoundTrip'
    BY <2>1 DEF RowsDecode, RoundTrip
  <2>. QED  BY <1>1, <2>1, <2>2 DEF RoundTripInv, RowsDecode
<1>4. ASSUME NEW r \in Rows, NEW v \in Inputs, Write(r, v) PROVE RoundTripInv'
  <2>1. lastOp'.op = "write" /\ engine' = engine
    BY <1>4 DEF Write
  <2>2. RoundTrip'
    BY <2>1 DEF RoundTrip
  <2>3. CASE Stored(v, engine) = Error
    <3>1. UNCHANGED <<table, written>>
      BY <1>4, <2>3 DEF Write, Stored
    <3>. QED  BY <1>1, <2>1, <2>2, <3>1 DEF RoundTripInv, RowsDecode
  <2>4. CASE Stored(v, engine) # Error
    <3>1. /\ table' = [table EXCEPT ![r] = Stored(v, engine)]
          /\ written' = [written EXCEPT ![r] = Meaning(v)]
      BY <1>4, <2>4 DEF Write, Stored
    <3>2. ResultValue(Fetch(Stored(v, engine), engine), engine) = Meaning(v)
      BY <2>4, WriteOutcome DEF TypeOK
    <3>3. RowsDecode'
      BY <2>1, <3>1, <3>2 DEF RowsDecode, TypeOK
    <3>. QED  BY <1>1, <2>2, <3>3 DEF RoundTripInv
  <2>. QED  BY <2>3, <2>4
<1>. QED  BY <1>2, <1>3, <1>4 DEF Next

(* Reading a row returns exactly the UUID (or None) last written to it, in *)
(* every interleaving of writes and reads, for every set of rows and       *)
(* UUIDs, on every engine except Oracle with binary=False (finding          *)
(* guid_RoundTrip).                                                         *)
THEOREM RoundTripHolds ==
    ASSUME \A e \in Engines : ReadsBack(e)
    PROVE  Spec => []RoundTrip
<1>1. Init => RoundTripInv
  BY GuidAssumption DEF Init, RoundTripInv, TypeOK, RowsDecode, RoundTrip
<1>2. RoundTripInv => RoundTrip
  BY DEF RoundTripInv
<1>3. RoundTripInv /\ [Next]_vars => RoundTripInv'
  BY RoundTripInvStep
<1>. QED  BY <1>1, <1>2, <1>3, PTL DEF Spec

-----------------------------------------------------------------------------
(* Refinement of the UUID column.                                          *)

(* process_result_value of anything a row can hold is a value or an error, *)
(* never "no row": a written row stays readable.                           *)
LEMMA DecodedIsRow ==
    ASSUME NEW e \in Engines, NEW x \in Vals \cup {None}
    PROVE  ResultValue(Fetch(x, e), e) # NoRow
<1>1. CASE x = None
  BY <1>1, GuidAssumption DEF Fetch, ResultValue
<1>2. CASE x \in [k : {"junk"}]
  <2>1. x # None /\ x.k = "junk"
    BY <1>2, GuidAssumption DEF Vals
  <2>. QED  BY <2>1, GuidAssumption DEF Fetch, ResultValue, FromBytes, FromHex
<1>3. CASE x \in [k : Forms, u : UUIDs]
  <2>1. x # None /\ x.k \in Forms
    BY <1>3, GuidAssumption DEF Vals
  <2>2. Fetch(x, e) \in [k : Forms, u : UUIDs]
    BY <1>3, <2>1 DEF Fetch, Val, Forms
  <2>3. \A k \in Forms, u \in UUIDs : Val(k, u) \in Vals /\ Val(k, u) # None
    BY GuidAssumption DEF Val, Vals
  <2>4. \A k \in Forms, u \in UUIDs : Val(k, u) # NoRow
    BY <2>3, GuidAssumption
  <2>5. "uuid" \in Forms /\ Fetch(x, e) \in Vals /\ Fetch(x, e) # None
    BY <2>2, GuidAssumption DEF Forms, Vals
  <2>. QED  BY <2>2, <2>4, <2>5, GuidAssumption DEF ResultValue, FromBytes, FromHex
<1>. QED  BY <1>1, <1>2, <1>3 DEF Vals

(* One step of the table is a step of the UUID column, or leaves it.       *)
LEMMA RefinementStep ==
    ASSUME \A e \in Engines : ReadsBack(e)
    PROVE  TypeOK /\ [Next]_vars => [Abstract!Next]_<<Decoded, lastOp>>
<1> SUFFICES ASSUME TypeOK, [Next]_vars PROVE [Abstract!Next]_<<Decoded, lastOp>>
  OBVIOUS
<1>1. CASE UNCHANGED vars
  BY <1>1 DEF vars, Decoded
<1>2. ASSUME NEW r \in Rows, Read(r) PROVE Abstract!Read(r)
  <2>1. /\ table[r] # NoRow
        /\ lastOp' = [op |-> "read", row |-> r,
                      result |-> ResultValue(Fetch(table[r], engine), engine)]
        /\ UNCHANGED <<engine, table, written>>
    BY <1>2 DEF Read
  <2>2. Decoded[r] = ResultValue(Fetch(table[r], engine), engine)
    BY <2>1 DEF Decoded
  <2>3. Decoded[r] # NoRow
    BY <2>1, <2>2, DecodedIsRow DEF TypeOK
  <2>4. Decoded' = Decoded
    BY <2>1 DEF Decoded
  <2>. QED  BY <2>1, <2>2, <2>3, <2>4 DEF Abstract!Read
<1>3. ASSUME NEW r \in Rows, NEW v \in Inputs, Write(r, v) PROVE Abstract!Write(r, v)
  <2>1. lastOp' = [op |-> "write", row |-> r, input |-> v, ok |-> Stored(v, engine) # Error]
        /\ engine' = engine
    BY <1>3 DEF Write, Stored
  <2>2. CASE Stored(v, engine) = Error
    <3>1. UNCHANGED table
      BY <1>3, <2>2 DEF Write, Stored
    <3>2. Decoded' = Decoded
      BY <2>1, <3>1 DEF Decoded
    <3>. QED  BY <2>1, <2>2, <3>2 DEF Abstract!Write
  <2>3. CASE Stored(v, engine) # Error
    <3>1. table' = [table EXCEPT ![r] = Stored(v, engine)]
      BY <1>3, <2>3 DEF Write, Stored
    <3>2. /\ Stored(v, engine) \in Vals \cup {None}
          /\ Meaning(v) \in Vals \cup {None}
          /\ ResultValue(Fetch(Stored(v, engine), engine), engine) = Meaning(v)
      BY <2>3, WriteOutcome DEF TypeOK
    <3>3. Meaning(v) # Error
      BY <3>2, GuidAssumption
    <3>4. Decoded' = [Decoded EXCEPT ![r] = Meaning(v)]
      BY <2>1, <3>1, <3>2, GuidAssumption DEF Decoded, TypeOK
    <3>. QED  BY <2>1, <2>3, <3>3, <3>4 DEF Abstract!Write
  <2>. QED  BY <2>2, <2>3
<1>. QED  BY <1>1, <1>2, <1>3 DEF Next, Abstract!Next

(* The GUID column implements the platform-independent UUID column on      *)
(* every engine that reads back what it stores, i.e. on every engine but   *)
(* Oracle with binary=False (finding guid_RoundTrip), for every set of rows *)
(* and UUIDs: each write stores exactly the UUID its input denotes or      *)
(* fails leaving the row, and each read returns what the row holds.        *)
THEOREM GuidImplementsUUIDColumn ==
    ASSUME \A e \in Engines : ReadsBack(e)
    PROVE  Spec => ImplementsUUIDColumn
<1>1. Init => TypeOK /\ Abstract!Init
  <2> SUFFICES ASSUME Init PROVE TypeOK /\ Abstract!Init
    OBVIOUS
  <2>1. TypeOK
    BY GuidAssumption DEF Init, TypeOK
  <2>2. Decoded = [r \in Rows |-> NoRow]
    BY DEF Init, Decoded
  <2>. QED  BY <2>1, <2>2 DEF Init, Abstract!Init
<1>2. TypeOK /\ [Next]_vars => TypeOK'
  BY TypeOKStep
<1>3. TypeOK /\ [Next]_vars => [Abstract!Next]_<<Decoded, lastOp>>
  BY RefinementStep
<1>. QED  BY <1>1, <1>2, <1>3, PTL DEF Spec, ImplementsUUIDColumn, Abstract!Spec
=============================================================================
