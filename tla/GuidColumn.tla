----------------------------- MODULE GuidColumn -----------------------------
(***************************************************************************)
(* litestar/contrib/sqlalchemy/types.py: the GUID column type.             *)
(*                                                                         *)
(* A table with a GUID column on one engine (dialect name and the type's   *)
(* `binary` flag, fixed when the table is created).  Writing a Python      *)
(* value runs process_bind_param and stores what the driver accepts in the *)
(* column type load_dialect_impl chose; reading fetches the stored value   *)
(* and runs process_result_value.                                          *)
(*                                                                         *)
(* Values are abstracted to their form and the UUID they denote:           *)
(*   uuid   a uuid.UUID object          hex    its 32-digit hex string      *)
(*   str    str(uuid), with hyphens     bytes  its 16 bytes                 *)
(*   b64    base64 text of the bytes    repr   str() of the bytes object    *)
(*   junk   a string that is no UUID                                        *)
(* and None.  The database side (what a column of each type accepts and    *)
(* what the driver returns) is the environment, stated in Store and Fetch. *)
(***************************************************************************)
EXTENDS Naturals

CONSTANTS
    UUIDs,      \* UUID values
    Rows,       \* primary keys of the table
    Engines,    \* [dialect, binary] pairs the table may be created on
    None,       \* Python's None, and SQL NULL
    Error,      \* an exception raised to the caller
    NoRow       \* a row never written

Forms == {"uuid", "hex", "str", "bytes", "b64", "repr"}
Vals == [k : Forms, u : UUIDs] \cup [k : {"junk"}]
Dialects == {"postgresql", "duckdb", "oracle", "spanner+spanner", "sqlite"}

ASSUME GuidAssumption ==
    /\ Engines \subseteq [dialect : Dialects, binary : BOOLEAN]
    /\ None \notin Vals /\ Error \notin Vals \cup {None} /\ NoRow \notin Vals \cup {None, Error}

(* What a caller may hand to the column: a UUID object, its hex or        *)
(* hyphenated string, its bytes, a string that is no UUID, or None.        *)
Inputs == {v \in Vals : v.k \in {"uuid", "hex", "str", "bytes", "junk"}} \cup {None}

Val(k, u) == [k |-> k, u |-> u]

VARIABLES
    engine,   \* the dialect and binary flag of the table
    table,    \* the stored column value per row
    written,  \* ghost: the UUID (or None) last written to each row
    lastOp    \* the latest write or read and its outcome

vars == <<engine, table, written, lastOp>>

-----------------------------------------------------------------------------
(* uuid.UUID(hex=x): strips braces and hyphens, needs 32 hex digits;      *)
(* bytes raise TypeError, other strings ValueError.                        *)
FromHex(x) == IF x # None /\ x.k \in {"hex", "str"} THEN Val("uuid", x.u) ELSE Error
(* uuid.UUID(bytes=x): needs exactly 16 bytes.                             *)
FromBytes(x) == IF x # None /\ x.k = "bytes" THEN Val("uuid", x.u) ELSE Error

(* Mutant: to_uuid swallows the error of its bytes fallback.               *)
ToUUIDLenient(v) ==
    IF v = None \/ v.k = "uuid" THEN v
    ELSE IF FromHex(v) # Error THEN FromHex(v)
    ELSE IF FromBytes(v) # Error THEN FromBytes(v) ELSE None

(* GUID.to_uuid: a UUID or None as it is, else parse as hex, and on        *)
(* TypeError or ValueError as bytes (whose error propagates).              *)
ToUUID(v) ==
    IF v = None \/ v.k = "uuid" THEN v
    ELSE IF FromHex(v) # Error THEN FromHex(v)
    ELSE FromBytes(v)

(* str(value) on the postgresql and duckdb path.                           *)
Str(v) == CASE v.k = "uuid"  -> Val("str", v.u)
            [] v.k = "bytes" -> Val("repr", v.u)
            [] OTHER         -> v

(* GUID.process_bind_param.                                                *)
BindParam(v, e) ==
    IF v = None THEN None
    ELSE IF e.dialect \in {"postgresql", "duckdb"} THEN Str(v)
    ELSE LET u == ToUUID(v) IN
         IF u \in {None, Error} THEN u
         ELSE IF e.dialect \in {"oracle", "spanner+spanner"} THEN Val("bytes", u.u)
         ELSE IF e.binary THEN Val("bytes", u.u) ELSE Val("hex", u.u)

(* GUID.load_dialect_impl: the column type the table is created with.      *)
ColumnType(e) ==
    IF e.dialect \in {"postgresql", "duckdb"} THEN "UUID"
    ELSE IF e.dialect = "oracle" THEN "RAW16"
    ELSE IF e.binary THEN "BINARY16" ELSE "CHAR32"

(* Mutant: the spanner base64 branch dropped.                              *)
ResultValueNoBase64(x, e) ==
    IF x = None \/ x.k = "uuid" THEN x
    ELSE IF e.binary THEN FromBytes(x) ELSE FromHex(x)

(* GUID.process_result_value.                                              *)
ResultValue(x, e) ==
    IF x = None \/ x.k = "uuid" THEN x
    ELSE IF e.dialect = "spanner+spanner"
         THEN IF x.k = "b64" THEN Val("uuid", x.u) ELSE Error
    ELSE IF e.binary THEN FromBytes(x) ELSE FromHex(x)

(* Environment: a UUID column parses a UUID string (psycopg hands back a   *)
(* uuid.UUID); a binary column takes 16 bytes; a CHAR(32) column a 32-     *)
(* character string; NULL goes anywhere; anything else the database        *)
(* rejects.  The spanner driver returns BYTES columns base64-encoded.      *)
Store(col, b) ==
    IF b \in {None, Error} THEN b
    ELSE IF col = "UUID" /\ b.k \in {"hex", "str"} THEN Val("uuid", b.u)
    ELSE IF (col \in {"RAW16", "BINARY16"} /\ b.k = "bytes") \/ (col = "CHAR32" /\ b.k = "hex") THEN b
    ELSE Error
Fetch(x, e) ==
    IF x # None /\ e.dialect = "spanner+spanner" /\ x.k = "bytes" THEN Val("b64", x.u) ELSE x

(* The UUID an input denotes.                                              *)
Meaning(v) == IF v = None THEN None ELSE IF v.k = "junk" THEN Error ELSE Val("uuid", v.u)

-----------------------------------------------------------------------------
Init ==
    /\ engine \in Engines
    /\ table = [r \in Rows |-> NoRow]
    /\ written = [r \in Rows |-> NoRow]
    /\ lastOp = [op |-> "none"]

(* INSERT or UPDATE of row r with value v: bind, then the database stores  *)
(* it or raises; on an error the row is left as it was.                    *)
Write(r, v) ==
    LET s == Store(ColumnType(engine), BindParam(v, engine)) IN
    /\ IF s = Error
       THEN UNCHANGED <<table, written>>
       ELSE /\ table' = [table EXCEPT ![r] = s]
            /\ written' = [written EXCEPT ![r] = Meaning(v)]
    /\ lastOp' = [op |-> "write", row |-> r, input |-> v, ok |-> s # Error]
    /\ UNCHANGED engine

(* SELECT of a written row: fetch, then process_result_value.             *)
Read(r) ==
    /\ table[r] # NoRow
    /\ lastOp' = [op |-> "read", row |-> r, result |-> ResultValue(Fetch(table[r], engine), engine)]
    /\ UNCHANGED <<engine, table, written>>

Next == \E r \in Rows : Read(r) \/ \E v \in Inputs : Write(r, v)

Spec == Init /\ [][Next]_vars

-----------------------------------------------------------------------------
TypeOK ==
    /\ engine \in Engines
    /\ table \in [Rows -> Vals \cup {None, NoRow}]
    /\ written \in [Rows -> Vals \cup {None, NoRow}]

(* Reading a row gives back exactly the UUID (or None) last written to it, *)
(* on every dialect and either storage mode ("platform-independent GUID"). *)
RoundTrip ==
    lastOp.op = "read" => lastOp.result = written[lastOp.row]

(* A value that is no UUID never reaches the table, neither as NULL nor  *)
(* as some value: a NULL row was written None, and every other stored row *)
(* holds, in the column's own encoding, the UUID of the value written to   *)
(* it (to_uuid raises instead of passing junk on, and each bind path keeps *)
(* the UUID it was given).                                                 *)
JunkNeverStored ==
    \A r \in Rows : table[r] # NoRow =>
        IF table[r] = None THEN written[r] = None
        ELSE table[r].k # "junk" /\ written[r] = Val("uuid", table[r].u)

-----------------------------------------------------------------------------
(* Refinement.  What each row holds, seen through the column: NoRow, or   *)
(* process_result_value of what the driver fetches from it.                *)
Decoded == [r \in Rows |-> IF table[r] = NoRow THEN NoRow
                           ELSE ResultValue(Fetch(table[r], engine), engine)]

Abstract == INSTANCE UUIDColumn WITH cell <- Decoded

(* The GUID column is a platform-independent column of UUIDs: through      *)
(* process_bind_param, the database and process_result_value, every write  *)
(* either fails leaving the row, or makes the row read back as exactly the *)
(* UUID (or NULL) its input denotes, on every dialect and storage mode.    *)
ImplementsUUIDColumn == Abstract!Spec
=============================================================================
