----------------------- MODULE LoggingMiddlewareProofs -----------------------
(***************************************************************************)
(* Proofs about LoggingMiddleware for every set of requests, every bound  *)
(* on the body messages of a response and every configuration.             *)
(***************************************************************************)
EXTENDS LoggingMiddleware, SequenceTheorems, FiniteSetTheorems, TLAPS

USE ConfigAssumption

PCs == {"new", "log_request", "app", "body", "done"}

-----------------------------------------------------------------------------
(* The record extract_response_data builds from a stored body message is  *)
(* a log record.                                                           *)
LEMMA ResponseRecordType ==
    ASSUME NEW r \in Requests, NEW st \in StateRecs
    PROVE  ResponseRecord(r, st) \in LogRecs
BY DEF ResponseRecord, LogRecs, StateRecs

(* Storing a body message in a scope state keeps it a scope state.         *)
LEMMA StoreBodyType ==
    ASSUME NEW st \in StateRecs, NEW n \in Chunks, NEW m, m.n = n
    PROVE  StoreBody(st, m) \in StateRecs
BY DEF StoreBody, StateRecs

(* The body message SendBody builds, how it is forwarded, and the three  *)
(* ways send_wrapper ends: forwarding without logging (not installed),    *)
(* logging then forwarding, and raising out of the extractor.             *)
BodyMsg(r, more) == [type |-> "body", n |-> sent[r] + 1, more |-> more /\ sent[r] + 1 < MaxChunks]
Forward(r, m) ==
    /\ wire' = [wire EXCEPT ![r] = Append(@, m)]
    /\ pc' = [pc EXCEPT ![r] = IF m.more THEN "body" ELSE "done"]
Unwrapped(r, m) == ResponseLogFields = {} /\ Forward(r, m) /\ UNCHANGED <<log, scopeState>>
Logged(r, m) ==
    /\ ResponseLogFields # {} /\ scopeState[r].start
    /\ scopeState' = [scopeState EXCEPT ![r] = Popped(StoreBody(scopeState[r], m))]
    /\ log' = Append(log, ResponseRecord(r, StoreBody(scopeState[r], m)))
    /\ Forward(r, m)
Raised(r, m) ==
    /\ ResponseLogFields # {} /\ ~scopeState[r].start
    /\ scopeState' = [scopeState EXCEPT ![r] = Popped(StoreBody(scopeState[r], m))]
    /\ pc' = [pc EXCEPT ![r] = "done"]
    /\ UNCHANGED <<log, wire>>

(* SendBody is one of the three, after storing the message: storing a     *)
(* body leaves the start flag the extractor reads as it was.               *)
LEMMA SendBodyCases ==
    ASSUME TypeOK, NEW r \in Requests, SendBody(r)
    PROVE  /\ pc[r] = "body" /\ sent[r] + 1 \in Chunks
           /\ sent' = [sent EXCEPT ![r] = sent[r] + 1] /\ hasLogger' = hasLogger
           /\ \E more \in BOOLEAN : \/ Unwrapped(r, BodyMsg(r, more))
                                   \/ Logged(r, BodyMsg(r, more))
                                   \/ Raised(r, BodyMsg(r, more))
<1>1. pc[r] = "body" /\ sent[r] + 1 \in Chunks /\ hasLogger' = hasLogger
  BY DEF SendBody, TypeOK, Chunks
<1>2. PICK more \in BOOLEAN :
         /\ sent' = [sent EXCEPT ![r] = sent[r] + 1]
         /\ IF ResponseLogFields = {}
            THEN Forward(r, BodyMsg(r, more)) /\ UNCHANGED <<log, scopeState>>
            ELSE /\ scopeState' = [scopeState EXCEPT ![r] = Popped(StoreBody(scopeState[r], BodyMsg(r, more)))]
                 /\ IF ExtractorRaises(StoreBody(scopeState[r], BodyMsg(r, more)))
                    THEN /\ pc' = [pc EXCEPT ![r] = "done"]
                         /\ UNCHANGED <<log, wire>>
                    ELSE /\ log' = Append(log, ResponseRecord(r, StoreBody(scopeState[r], BodyMsg(r, more))))
                         /\ Forward(r, BodyMsg(r, more))
  BY DEF SendBody, BodyMsg, Forward
<1>3. ExtractorRaises(StoreBody(scopeState[r], BodyMsg(r, more))) <=> ~scopeState[r].start
  BY DEF TypeOK, StateRecs, StoreBody, ExtractorRaises
<1>. QED  BY <1>1, <1>2, <1>3 DEF Unwrapped, Logged, Raised

(* Every step keeps the variables well typed.                              *)
LEMMA TypeOKStep == TypeOK /\ [Next]_vars => TypeOK'
<1> SUFFICES ASSUME TypeOK, [Next]_vars PROVE TypeOK'
  OBVIOUS
<1>1. CASE UNCHANGED vars
  BY <1>1 DEF TypeOK, vars
<1>2. ASSUME NEW r \in Requests, Call(r) PROVE TypeOK'
  BY <1>2 DEF Call, TypeOK
<1>3. ASSUME NEW r \in Requests, LogRequest(r) PROVE TypeOK'
  <2>1. [r |-> r, kind |-> "request"] \in LogRecs
    BY DEF LogRecs
  <2>. QED  BY <1>3, <2>1, AppendProperties DEF LogRequest, TypeOK
<1>4. ASSUME NEW r \in Requests, SendStart(r) PROVE TypeOK'
  <2>1. PICK c \in BOOLEAN :
           scopeState' = [scopeState EXCEPT ![r] =
                            [@ EXCEPT !.start = ResponseLogFields # {}, !.compressed = c]]
    BY <1>4 DEF SendStart
  <2>2. scopeState' \in [Requests -> StateRecs]
    BY <2>1 DEF TypeOK, StateRecs
  <2>3. [type |-> "start"] \in Messages
    BY DEF Messages
  <2>4. wire' \in [Requests -> Seq(Messages)]
    BY <1>4, <2>3, AppendProperties DEF SendStart, TypeOK
  <2>. QED  BY <1>4, <2>2, <2>4 DEF SendStart, TypeOK
<1>5. ASSUME NEW r \in Requests, SendBody(r) PROVE TypeOK'
  <2>1. /\ sent[r] + 1 \in Chunks /\ sent' = [sent EXCEPT ![r] = sent[r] + 1]
        /\ hasLogger' = hasLogger
    BY <1>5, SendBodyCases
  <2>2. PICK more \in BOOLEAN : \/ Unwrapped(r, BodyMsg(r, more))
                               \/ Logged(r, BodyMsg(r, more))
                               \/ Raised(r, BodyMsg(r, more))
    BY <1>5, SendBodyCases
  <2>. DEFINE m == BodyMsg(r, more)
              st == StoreBody(scopeState[r], m)
  <2>3. m \in Messages
    BY <2>1 DEF BodyMsg, Messages
  <2>4. st \in StateRecs /\ Popped(st) \in StateRecs
    <3>1. st \in StateRecs
      BY <2>1, StoreBodyType DEF TypeOK, BodyMsg
    <3>. QED  BY <3>1 DEF Popped, StateRecs
  <2>5. ResponseRecord(r, st) \in LogRecs
    BY <2>4, ResponseRecordType
  <2>6. sent' \in [Requests -> 0 .. MaxChunks]
    BY <2>1 DEF TypeOK, Chunks
  <2>7. CASE Unwrapped(r, m)
    <3>1. log' = log /\ scopeState' = scopeState
      BY <2>7 DEF Unwrapped
    <3>2. wire' \in [Requests -> Seq(Messages)]
      BY <2>3, <2>7, AppendProperties DEF Unwrapped, Forward, TypeOK
    <3>3. pc' \in [Requests -> PCs]
      BY <2>7 DEF Unwrapped, Forward, TypeOK, PCs
    <3>. QED  BY <2>1, <2>6, <3>1, <3>2, <3>3 DEF TypeOK, PCs
  <2>8. CASE Logged(r, m)
    <3>1. log' \in Seq(LogRecs)
      BY <2>5, <2>8, AppendProperties DEF Logged, TypeOK
    <3>2. scopeState' \in [Requests -> StateRecs]
      BY <2>4, <2>8 DEF Logged, TypeOK
    <3>3. wire' \in [Requests -> Seq(Messages)]
      BY <2>3, <2>8, AppendProperties DEF Logged, Forward, TypeOK
    <3>4. pc' \in [Requests -> PCs]
      BY <2>8 DEF Logged, Forward, TypeOK, PCs
    <3>. QED  BY <2>1, <2>6, <3>1, <3>2, <3>3, <3>4 DEF TypeOK, PCs
  <2>9. CASE Raised(r, m)
    <3>1. log' = log /\ wire' = wire
      BY <2>9 DEF Raised
    <3>2. scopeState' \in [Requests -> StateRecs]
      BY <2>4, <2>9 DEF Raised, TypeOK
    <3>3. pc' \in [Requests -> PCs]
      BY <2>9 DEF Raised, TypeOK, PCs
    <3>. QED  BY <2>1, <2>6, <3>1, <3>2, <3>3 DEF TypeOK, PCs
  <2>. QED  BY <2>2, <2>7, <2>8, <2>9
<1>6. ASSUME NEW r \in Requests, AppRaises(r) PROVE TypeOK'
  BY <1>6 DEF AppRaises, TypeOK
<1>. QED  BY <1>1, <1>2, <1>3, <1>4, <1>5, <1>6 DEF Next, Step

(* The initial state is well typed.                                        *)
LEMMA InitTypeOK == Init => TypeOK
<1> SUFFICES ASSUME Init PROVE TypeOK
  OBVIOUS
<1>1. EmptyState \in StateRecs
  BY DEF EmptyState, StateRecs
<1>2. 0 \in 0 .. MaxChunks
  OBVIOUS
<1>3. << >> \in Seq(Messages) /\ << >> \in Seq(LogRecs)
  BY EmptySeq
<1>. QED  BY <1>1, <1>2, <1>3 DEF Init, TypeOK

(* The middleware's state is always well typed.                            *)
THEOREM LoggingTypeCorrect == Spec => []TypeOK
<1>. QED  BY InitTypeOK, TypeOKStep, PTL DEF Spec

-----------------------------------------------------------------------------
(* The request record of r; whether a log L holds it, or any response      *)
(* record of r; and that each response record of L has its request's      *)
(* record earlier in L.                                                    *)
ReqRec(r) == [r |-> r, kind |-> "request"]
HasReqIn(L, r) == \E j \in 1 .. Len(L) : L[j] = ReqRec(r)
NoRespIn(L, r) == \A i \in 1 .. Len(L) : ~(L[i].kind = "response" /\ L[i].r = r)
OrderedLog(L) ==
    \A i \in 1 .. Len(L) :
        L[i].kind = "response" => \E j \in 1 .. i - 1 : L[j] = ReqRec(L[i].r)

(* Where __call__ is tells what the log holds of r: nothing of its        *)
(* response before log_request ran, its request record after.             *)
Ordered ==
    RequestLogFields # {} =>
        \A r \in Requests :
            /\ pc[r] \in {"new", "log_request"} => NoRespIn(log, r)
            /\ pc[r] \in {"app", "body", "done"} => HasReqIn(log, r)

(* The inductive invariant behind RequestLoggedBeforeResponse.             *)
IInv == TypeOK /\ (RequestLogFields # {} => OrderedLog(log)) /\ Ordered

(* Its part about the log, when requests are logged.                        *)
LogInv ==
    /\ OrderedLog(log)
    /\ \A q \in Requests : pc[q] \in {"new", "log_request"} => NoRespIn(log, q)
    /\ \A q \in Requests : pc[q] \in {"app", "body", "done"} => HasReqIn(log, q)

(* Appending a record keeps the log ordered when a response record's      *)
(* request record is already there, keeps every request record, and adds *)
(* a response record of no other request.                                  *)
LEMMA AppendLog ==
    ASSUME NEW L \in Seq(LogRecs), NEW rec \in LogRecs, OrderedLog(L),
           rec.kind = "response" => HasReqIn(L, rec.r)
    PROVE  /\ OrderedLog(Append(L, rec))
           /\ \A q : HasReqIn(L, q) => HasReqIn(Append(L, rec), q)
           /\ \A q : NoRespIn(L, q) /\ ~(rec.kind = "response" /\ rec.r = q)
                        => NoRespIn(Append(L, rec), q)
<1>. DEFINE L2 == Append(L, rec)
<1>1. /\ Len(L2) = Len(L) + 1
      /\ \A i \in 1 .. Len(L) : L2[i] = L[i]
      /\ L2[Len(L) + 1] = rec
  BY AppendProperties
<1>2. OrderedLog(L2)
  <2> SUFFICES ASSUME NEW i \in 1 .. Len(L2), L2[i].kind = "response"
               PROVE  \E j \in 1 .. i - 1 : L2[j] = ReqRec(L2[i].r)
    BY DEF OrderedLog
  <2>1. CASE i \in 1 .. Len(L)
    <3>1. PICK j \in 1 .. i - 1 : L[j] = ReqRec(L[i].r)
      BY <2>1, <1>1 DEF OrderedLog
    <3>. QED  BY <3>1, <2>1, <1>1
  <2>2. CASE i = Len(L) + 1
    <3>1. PICK j \in 1 .. Len(L) : L[j] = ReqRec(rec.r)
      BY <2>2, <1>1 DEF HasReqIn
    <3>. QED  BY <3>1, <2>2, <1>1
  <2>. QED  BY <2>1, <2>2, <1>1
<1>3. ASSUME NEW q, HasReqIn(L, q) PROVE HasReqIn(L2, q)
  BY <1>3, <1>1 DEF HasReqIn
<1>4. ASSUME NEW q, NoRespIn(L, q), ~(rec.kind = "response" /\ rec.r = q)
      PROVE  NoRespIn(L2, q)
  BY <1>4, <1>1 DEF NoRespIn
<1>. QED  BY <1>2, <1>3, <1>4

(* Every step keeps the inductive invariant.                              *)
LEMMA IInvStep == IInv /\ [Next]_vars => IInv'
<1> SUFFICES ASSUME IInv, [Next]_vars PROVE IInv'
  OBVIOUS
<1>1. TypeOK'
  BY TypeOKStep DEF IInv
<1>2. CASE RequestLogFields = {}
  BY <1>1, <1>2 DEF IInv, Ordered
<1>3. CASE RequestLogFields # {}
  <2>0. TypeOK /\ LogInv
    BY <1>3 DEF IInv, Ordered, LogInv
  <2> SUFFICES LogInv'
    BY <1>1, <1>3 DEF IInv, Ordered, LogInv
  <2>1. CASE UNCHANGED vars
    BY <2>0, <2>1 DEF vars, LogInv
  <2>2. ASSUME NEW r \in Requests, Call(r) PROVE LogInv'
    <3>1. log' = log /\ pc[r] = "new" /\ pc' = [pc EXCEPT ![r] = "log_request"]
      BY <2>2, <1>3 DEF Call
    <3>. QED  BY <3>1, <2>0 DEF TypeOK, LogInv
  <2>3. ASSUME NEW r \in Requests, LogRequest(r) PROVE LogInv'
    <3>1. log' = Append(log, ReqRec(r)) /\ pc' = [pc EXCEPT ![r] = "app"]
      BY <2>3 DEF LogRequest, ReqRec
    <3>2. ReqRec(r) \in LogRecs
      BY DEF ReqRec, LogRecs
    <3>3. /\ OrderedLog(log')
          /\ \A q : HasReqIn(log, q) => HasReqIn(log', q)
          /\ \A q : NoRespIn(log, q) => NoRespIn(log', q)
      BY <3>1, <3>2, <2>0, AppendLog DEF TypeOK, ReqRec, LogInv
    <3>4. HasReqIn(log', r)
      <4>1. log'[Len(log) + 1] = ReqRec(r) /\ Len(log') = Len(log) + 1
        BY <3>1, <3>2, <2>0, AppendProperties DEF TypeOK
      <4>2. Len(log) + 1 \in 1 .. Len(log')
        BY <4>1, <2>0 DEF TypeOK
      <4>. QED  BY <4>1, <4>2 DEF HasReqIn
    <3>. QED  BY <3>1, <3>3, <3>4, <2>0 DEF TypeOK, LogInv
  <2>4. ASSUME NEW r \in Requests, SendStart(r) PROVE LogInv'
    <3>1. log' = log /\ pc[r] = "app" /\ pc' = [pc EXCEPT ![r] = "body"]
      BY <2>4 DEF SendStart
    <3>. QED  BY <3>1, <2>0 DEF TypeOK, LogInv
  <2>5. ASSUME NEW r \in Requests, SendBody(r) PROVE LogInv'
    <3>1. PICK st \in StateRecs :
             /\ log' = log \/ log' = Append(log, ResponseRecord(r, st))
             /\ pc' \in {[pc EXCEPT ![r] = "body"], [pc EXCEPT ![r] = "done"]}
      <4>1. sent[r] + 1 \in Chunks
        BY <2>5, <2>0, SendBodyCases
      <4>2. PICK more \in BOOLEAN : \/ Unwrapped(r, BodyMsg(r, more))
                                   \/ Logged(r, BodyMsg(r, more))
                                   \/ Raised(r, BodyMsg(r, more))
        BY <2>5, <2>0, SendBodyCases
      <4>3. StoreBody(scopeState[r], BodyMsg(r, more)) \in StateRecs
        BY <4>1, <2>0, StoreBodyType DEF TypeOK, BodyMsg
      <4>. QED  BY <4>2, <4>3 DEF Unwrapped, Logged, Raised, Forward
    <3>2. pc[r] = "body"
      BY <2>5 DEF SendBody
    <3>3. ResponseRecord(r, st) \in LogRecs /\ ResponseRecord(r, st).kind = "response"
          /\ ResponseRecord(r, st).r = r
      BY ResponseRecordType DEF ResponseRecord
    <3>4. HasReqIn(log, r)
      BY <3>2, <2>0 DEF LogInv
    <3>5. /\ OrderedLog(log')
          /\ \A q : HasReqIn(log, q) => HasReqIn(log', q)
          /\ \A q \in Requests \ {r} : NoRespIn(log, q) => NoRespIn(log', q)
      <4>1. CASE log' = log
        BY <4>1, <2>0 DEF LogInv
      <4>2. CASE log' = Append(log, ResponseRecord(r, st))
        BY <4>2, <3>3, <3>4, <2>0, AppendLog DEF TypeOK, LogInv
      <4>. QED  BY <3>1, <4>1, <4>2
    <3>6. \A q \in Requests : pc'[q] \in {"app", "body", "done"} => HasReqIn(log', q)
      BY <3>1, <3>2, <3>5, <2>0 DEF TypeOK, LogInv
    <3>7. \A q \in Requests : pc'[q] \in {"new", "log_request"} => NoRespIn(log', q)
      BY <3>1, <3>2, <3>5, <2>0 DEF TypeOK, LogInv
    <3>. QED  BY <3>5, <3>6, <3>7 DEF LogInv
  <2>6. ASSUME NEW r \in Requests, AppRaises(r) PROVE LogInv'
    <3>1. log' = log /\ pc[r] \in {"app", "body"} /\ pc' = [pc EXCEPT ![r] = "done"]
      BY <2>6 DEF AppRaises
    <3>. QED  BY <3>1, <2>0 DEF TypeOK, LogInv
  <2>. QED  BY <2>1, <2>2, <2>3, <2>4, <2>5, <2>6 DEF Next, Step
<1>. QED  BY <1>2, <1>3

(* A request's record precedes every record of its response in the log,   *)
(* for every number of concurrent requests and every configuration:       *)
(* __call__ awaits log_request before the app can send.                    *)
THEOREM RequestOrdered == Spec => []RequestLoggedBeforeResponse
<1>1. Init => IInv
  <2> SUFFICES ASSUME Init PROVE IInv
    OBVIOUS
  <2>1. TypeOK
    BY InitTypeOK
  <2>2. Len(log) = 0
    BY DEF Init
  <2>. QED  BY <2>1, <2>2 DEF Init, IInv, Ordered, OrderedLog, NoRespIn
<1>2. IInv => RequestLoggedBeforeResponse
  BY DEF IInv, OrderedLog, ReqRec, RequestLoggedBeforeResponse
<1>. QED  BY <1>1, <1>2, IInvStep, PTL DEF Spec

-----------------------------------------------------------------------------
(* The positions of r's response records in a log L, and that the k-th of *)
(* them shows the k-th body chunk or none.                                   *)
RespIdx(L, r) == {i \in 1 .. Len(L) : L[i].kind = "response" /\ L[i].r = r}
ChunkOK(L) ==
    \A r \in Requests : \A i \in RespIdx(L, r) :
        L[i].body \in {Withheld, Cardinality({j \in RespIdx(L, r) : j <= i})}

(* A request has no response record, and has sent no body message, until *)
(* its start message is stored, nor while the stored start is unpopped:    *)
(* the first body message pops it, and no later one is logged.             *)
Unlogged ==
    \A r \in Requests :
        /\ scopeState[r].start => ResponseLogFields # {}
        /\ (pc[r] \in {"new", "log_request", "app"} \/ scopeState[r].start)
              => sent[r] = 0 /\ RespIdx(log, r) = {}

(* The inductive invariant behind LoggedBodyIsTriggeringChunk.             *)
ChunkInv == TypeOK /\ Unlogged /\ ChunkOK(log)

(* The positions of r's response records, and each prefix of them, form a *)
(* finite set.                                                               *)
LEMMA RespIdxFinite ==
    ASSUME NEW L \in Seq(LogRecs), NEW q, NEW i
    PROVE  IsFiniteSet(RespIdx(L, q)) /\ IsFiniteSet({j \in RespIdx(L, q) : j <= i})
<1>1. IsFiniteSet(1 .. Len(L))
  BY FS_Interval
<1>2. RespIdx(L, q) \subseteq 1 .. Len(L)
  BY DEF RespIdx
<1>3. IsFiniteSet(RespIdx(L, q))
  BY <1>1, <1>2, FS_Subset
<1>. QED  BY <1>3, FS_Subset

(* Appending a record adds its position to the response positions of its  *)
(* request, when it is a response record, and leaves every shorter prefix  *)
(* of positions as it was.                                                  *)
LEMMA RespIdxAppend ==
    ASSUME NEW L \in Seq(LogRecs), NEW rec \in LogRecs, NEW q
    PROVE  /\ RespIdx(Append(L, rec), q) =
                 RespIdx(L, q) \cup (IF rec.kind = "response" /\ rec.r = q THEN {Len(L) + 1} ELSE {})
           /\ \A i \in 1 .. Len(L) :
                 {j \in RespIdx(Append(L, rec), q) : j <= i} = {j \in RespIdx(L, q) : j <= i}
           /\ {j \in RespIdx(Append(L, rec), q) : j <= Len(L) + 1} = RespIdx(Append(L, rec), q)
           /\ Len(L) + 1 \notin RespIdx(L, q)
<1>1. /\ Len(Append(L, rec)) = Len(L) + 1
      /\ \A i \in 1 .. Len(L) : Append(L, rec)[i] = L[i]
      /\ Append(L, rec)[Len(L) + 1] = rec
      /\ Len(L) \in Nat
  BY AppendProperties
<1>. QED  BY <1>1 DEF RespIdx

(* Appending a record keeps the k-th response record of every request     *)
(* showing chunk k when the appended one, if a response record, shows the  *)
(* chunk after the ones already logged for its request or none; the count *)
(* of the request's response records grows by one exactly then.            *)
LEMMA ChunkAppend ==
    ASSUME NEW L \in Seq(LogRecs), NEW rec \in LogRecs, ChunkOK(L),
           rec.kind = "response" =>
               rec.body \in {Withheld, Cardinality(RespIdx(L, rec.r)) + 1}
    PROVE  /\ ChunkOK(Append(L, rec))
           /\ \A q : Cardinality(RespIdx(Append(L, rec), q)) =
                       Cardinality(RespIdx(L, q)) +
                         (IF rec.kind = "response" /\ rec.r = q THEN 1 ELSE 0)
<1>. DEFINE L2 == Append(L, rec)
<1>1. /\ Len(L2) = Len(L) + 1
      /\ \A i \in 1 .. Len(L) : L2[i] = L[i]
      /\ L2[Len(L) + 1] = rec
      /\ Len(L) \in Nat
  BY AppendProperties
<1>2. ASSUME NEW q
      PROVE  Cardinality(RespIdx(L2, q)) =
               Cardinality(RespIdx(L, q)) + (IF rec.kind = "response" /\ rec.r = q THEN 1 ELSE 0)
  <2>1. IsFiniteSet(RespIdx(L, q)) /\ Len(L) + 1 \notin RespIdx(L, q)
    BY RespIdxFinite, RespIdxAppend
  <2>2. CASE rec.kind = "response" /\ rec.r = q
    <3>1. RespIdx(L2, q) = RespIdx(L, q) \cup {Len(L) + 1}
      BY <2>2, RespIdxAppend
    <3>2. Cardinality(RespIdx(L, q) \cup {Len(L) + 1}) = Cardinality(RespIdx(L, q)) + 1
      BY <2>1, FS_AddElement
    <3>. QED  BY <2>2, <3>1, <3>2
  <2>3. CASE ~(rec.kind = "response" /\ rec.r = q)
    <3>1. RespIdx(L2, q) = RespIdx(L, q)
      <4>1. RespIdx(L2, q) =
              RespIdx(L, q) \cup (IF rec.kind = "response" /\ rec.r = q THEN {Len(L) + 1} ELSE {})
        BY RespIdxAppend
      <4>. QED  BY <2>3, <4>1
    <3>2. Cardinality(RespIdx(L, q)) \in Nat
      BY <2>1, FS_CardinalityType
    <3>. QED  BY <2>3, <3>1, <3>2
  <2>. QED  BY <2>2, <2>3
<1>3. ChunkOK(L2)
  <2> SUFFICES ASSUME NEW q \in Requests, NEW i \in RespIdx(L2, q)
               PROVE  L2[i].body \in {Withheld, Cardinality({j \in RespIdx(L2, q) : j <= i})}
    BY DEF ChunkOK
  <2>1. i \in 1 .. Len(L) + 1 /\ L2[i].kind = "response" /\ L2[i].r = q
    BY <1>1 DEF RespIdx
  <2>2. CASE i \in 1 .. Len(L)
    <3>1. i \in RespIdx(L, q) /\ L2[i] = L[i]
      BY <1>1, <2>1, <2>2 DEF RespIdx
    <3>2. {j \in RespIdx(L2, q) : j <= i} = {j \in RespIdx(L, q) : j <= i}
      BY <2>2, RespIdxAppend
    <3>. QED  BY <3>1, <3>2 DEF ChunkOK
  <2>3. CASE i = Len(L) + 1
    <3>1. rec.kind = "response" /\ rec.r = q
      BY <1>1, <2>1, <2>3
    <3>2. {j \in RespIdx(L2, q) : j <= i} = RespIdx(L2, q)
      BY <2>3, RespIdxAppend
    <3>3. Cardinality(RespIdx(L2, q)) = Cardinality(RespIdx(L, q)) + 1
      BY <1>2, <3>1
    <3>. QED  BY <1>1, <2>3, <3>1, <3>2, <3>3
  <2>. QED  BY <2>1, <2>2, <2>3
<1>. QED  BY <1>2, <1>3

(* Every step keeps a request without response records until the first   *)
(* body message after its start, and the one record it gets showing the   *)
(* first chunk.                                                             *)
LEMMA ChunkInvStep == ChunkInv /\ [Next]_vars => ChunkInv'
<1> SUFFICES ASSUME TypeOK, Unlogged, ChunkOK(log), [Next]_vars PROVE ChunkInv'
  BY DEF ChunkInv
<1>1. TypeOK'
  BY TypeOKStep
<1>2. CASE UNCHANGED vars
  BY <1>1, <1>2 DEF vars, ChunkInv, Unlogged
<1>3. ASSUME NEW r \in Requests, Step(r) PROVE ChunkInv'
  <2>1. CASE Call(r) \/ SendStart(r) \/ AppRaises(r)
    <3>1. log' = log /\ sent' = sent
      BY <2>1 DEF Call, SendStart, AppRaises
    <3>2. \A q \in Requests \ {r} : pc'[q] = pc[q] /\ scopeState'[q] = scopeState[q]
      BY <2>1 DEF Call, SendStart, AppRaises, TypeOK
    <3>3. (pc'[r] \in {"new", "log_request", "app"} \/ scopeState'[r].start)
             => sent[r] = 0 /\ RespIdx(log, r) = {}
      <4>1. CASE Call(r)
        BY <4>1 DEF Call, Unlogged
      <4>2. CASE SendStart(r)
        BY <4>2 DEF SendStart, Unlogged
      <4>3. CASE AppRaises(r)
        BY <4>3 DEF AppRaises, Unlogged, TypeOK
      <4>. QED  BY <2>1, <4>1, <4>2, <4>3
    <3>4. scopeState'[r].start => ResponseLogFields # {}
      <4>1. CASE Call(r) \/ AppRaises(r)
        BY <4>1 DEF Call, AppRaises, Unlogged
      <4>2. CASE SendStart(r)
        <5>1. PICK c \in BOOLEAN :
                 scopeState' = [scopeState EXCEPT ![r] =
                                  [@ EXCEPT !.start = ResponseLogFields # {}, !.compressed = c]]
          BY <4>2 DEF SendStart
        <5>. QED  BY <5>1 DEF TypeOK, StateRecs
      <4>. QED  BY <2>1, <4>1, <4>2
    <3>. QED  BY <1>1, <3>1, <3>2, <3>3, <3>4 DEF ChunkInv, Unlogged
  <2>2. CASE LogRequest(r)
    <3>. DEFINE rec == [r |-> r, kind |-> "request"]
    <3>1. /\ log' = Append(log, rec) /\ sent' = sent /\ scopeState' = scopeState
          /\ pc[r] = "log_request" /\ pc' = [pc EXCEPT ![r] = "app"]
      BY <2>2 DEF LogRequest
    <3>2. rec \in LogRecs
      BY DEF LogRecs
    <3>3. ChunkOK(log')
      BY <3>1, <3>2, ChunkAppend DEF TypeOK
    <3>4. ASSUME NEW q PROVE RespIdx(log', q) = RespIdx(log, q)
      <4>1. RespIdx(Append(log, rec), q) =
              RespIdx(log, q) \cup (IF rec.kind = "response" /\ rec.r = q THEN {Len(log) + 1} ELSE {})
        BY <3>2, RespIdxAppend DEF TypeOK
      <4>. QED  BY <3>1, <4>1
    <3>. QED  BY <1>1, <3>1, <3>3, <3>4 DEF ChunkInv, Unlogged, TypeOK
  <2>3. CASE SendBody(r)
    <3>1. /\ pc[r] = "body" /\ sent[r] + 1 \in Chunks
          /\ sent' = [sent EXCEPT ![r] = sent[r] + 1]
      BY <2>3, SendBodyCases
    <3>2. PICK more \in BOOLEAN : \/ Unwrapped(r, BodyMsg(r, more))
                                 \/ Logged(r, BodyMsg(r, more))
                                 \/ Raised(r, BodyMsg(r, more))
      BY <2>3, SendBodyCases
    <3>. DEFINE m == BodyMsg(r, more)
                st == StoreBody(scopeState[r], m)
                rec == ResponseRecord(r, st)
    <3>3. st \in StateRecs /\ st.body = sent[r] + 1 /\ Popped(st).start = FALSE
      <4>1. st \in StateRecs
        BY <3>1, StoreBodyType DEF TypeOK, BodyMsg
      <4>2. st.body = sent[r] + 1
        BY DEF TypeOK, StateRecs, StoreBody, BodyMsg
      <4>3. Popped(st).start = FALSE
        BY <4>1 DEF Popped, StateRecs
      <4>. QED  BY <4>1, <4>2, <4>3
    <3>4. /\ \A q \in Requests \ {r} : pc'[q] = pc[q] /\ scopeState'[q] = scopeState[q]
          /\ \A q \in Requests \ {r} : sent'[q] = sent[q]
          /\ pc'[r] \in {"body", "done"}
      BY <3>1, <3>2 DEF Unwrapped, Logged, Raised, Forward, TypeOK
    <3>5. CASE Unwrapped(r, m)
      <4>1. log' = log /\ scopeState' = scopeState
        BY <3>5 DEF Unwrapped
      <4>2. ~scopeState[r].start
        BY <3>5 DEF Unwrapped, Unlogged
      <4>. QED  BY <1>1, <3>4, <4>1, <4>2 DEF ChunkInv, Unlogged
    <3>6. CASE Raised(r, m)
      <4>1. log' = log /\ scopeState'[r].start = FALSE
        BY <3>3, <3>6 DEF Raised, TypeOK
      <4>. QED  BY <1>1, <3>4, <4>1 DEF ChunkInv, Unlogged
    <3>7. CASE Logged(r, m)
      <4>1. /\ log' = Append(log, rec) /\ scopeState'[r].start = FALSE
            /\ scopeState[r].start
        BY <3>3, <3>7 DEF Logged, TypeOK
      <4>2. sent[r] = 0 /\ RespIdx(log, r) = {}
        BY <4>1 DEF Unlogged
      <4>3. Cardinality(RespIdx(log, r)) = 0
        BY <4>2, FS_EmptySet
      <4>4. rec \in LogRecs /\ rec.kind = "response" /\ rec.r = r
            /\ rec.body \in {Withheld, Cardinality(RespIdx(log, r)) + 1}
        <5>1. rec \in LogRecs
          BY <3>3, ResponseRecordType
        <5>2. rec.kind = "response" /\ rec.r = r /\ rec.body \in {Withheld, st.body}
          BY DEF ResponseRecord
        <5>. QED  BY <3>3, <4>2, <4>3, <5>1, <5>2
      <4>5. ChunkOK(log')
        BY <4>1, <4>4, ChunkAppend DEF TypeOK
      <4>6. ASSUME NEW q \in Requests \ {r} PROVE RespIdx(log', q) = RespIdx(log, q)
        <5>1. RespIdx(Append(log, rec), q) =
                RespIdx(log, q) \cup (IF rec.kind = "response" /\ rec.r = q THEN {Len(log) + 1} ELSE {})
          BY <4>4, RespIdxAppend DEF TypeOK
        <5>. QED  BY <4>1, <4>4, <5>1
      <4>. QED  BY <1>1, <3>4, <4>1, <4>5, <4>6 DEF ChunkInv, Unlogged
    <3>. QED  BY <3>2, <3>5, <3>6, <3>7
  <2>. QED  BY <1>3, <2>1, <2>2, <2>3 DEF Step
<1>. QED  BY <1>2, <1>3 DEF Next

(* A request's response record shows the first body message the app sent *)
(* for it, or no body, for every number of concurrent requests, every      *)
(* chunk bound and every configuration: send_wrapper stores the message    *)
(* before log_response pops it, and every later message raises before it  *)
(* is logged.                                                               *)
THEOREM TriggeringChunkLogged == Spec => []LoggedBodyIsTriggeringChunk
<1>1. Init => ChunkInv
  <2> SUFFICES ASSUME Init PROVE ChunkInv
    OBVIOUS
  <2>1. TypeOK
    BY InitTypeOK
  <2>2. \A q \in Requests : RespIdx(log, q) = {} /\ sent[q] = 0 /\ ~scopeState[q].start
    BY DEF Init, RespIdx, EmptyState
  <2>. QED  BY <2>1, <2>2 DEF ChunkInv, Unlogged, ChunkOK
<1>2. ChunkInv => LoggedBodyIsTriggeringChunk
  BY DEF ChunkInv, ChunkOK, RespIdx, LoggedBodyIsTriggeringChunk, ResponseLogs
<1>. QED  BY <1>1, <1>2, ChunkInvStep, PTL DEF Spec
=============================================================================
