----------------------------- MODULE UUIDColumn -----------------------------
(***************************************************************************)
(* What the GUID column type promises its callers ("Platform-independent  *)
(* GUID type", litestar/contrib/sqlalchemy/types.py): a column of UUIDs.   *)
(* Each row holds a UUID or NULL, or was never written.  A write either    *)
(* fails and leaves the row as it was, or stores exactly the UUID (or      *)
(* NULL) its input denotes; an input that denotes no UUID is never stored. *)
(* A read returns what the row holds.  Nothing here depends on the         *)
(* dialect or on the storage mode.                                         *)
(***************************************************************************)
CONSTANTS
    Rows,        \* primary keys of the table
    Inputs,      \* what a caller may hand to the column
    Meaning(_),  \* the UUID (or None) an input denotes, Error for none
    Error,       \* an input that denotes no UUID
    NoRow        \* a row never written

VARIABLES
    cell,        \* the UUID, or None, each row holds
    lastOp       \* the latest write or read and its outcome

Init ==
    /\ cell = [r \in Rows |-> NoRow]
    /\ lastOp = [op |-> "none"]

(* A write of v to row r: it stores what v denotes, or it fails.           *)
Write(r, v) ==
    \/ /\ Meaning(v) # Error
       /\ cell' = [cell EXCEPT ![r] = Meaning(v)]
       /\ lastOp' = [op |-> "write", row |-> r, input |-> v, ok |-> TRUE]
    \/ /\ UNCHANGED cell
       /\ lastOp' = [op |-> "write", row |-> r, input |-> v, ok |-> FALSE]

(* A read of a written row returns what it holds.                          *)
Read(r) ==
    /\ cell[r] # NoRow
    /\ lastOp' = [op |-> "read", row |-> r, result |-> cell[r]]
    /\ UNCHANGED cell

Next == \E r \in Rows : Read(r) \/ \E v \in Inputs : Write(r, v)

Spec == Init /\ [][Next]_<<cell, lastOp>>
=============================================================================
