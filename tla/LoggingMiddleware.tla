-------------------------- MODULE LoggingMiddleware --------------------------
(***************************************************************************)
(* litestar/middleware/logging.py: LoggingMiddleware.                      *)
(*                                                                         *)
(* One middleware instance serves every HTTP request of the app.  For each *)
(* request __call__ fetches the logger on first use, wraps `send` when     *)
(* response fields are logged, logs the request (awaiting the body), and   *)
(* awaits the app.  The app sends http.response.start and one or more      *)
(* http.response.body messages (more_body on all but the last); the send   *)
(* wrapper stores each in the request's scope state and, on every body     *)
(* message, logs the response (popping both stored messages) before        *)
(* forwarding the message.  Requests interleave at every await.            *)
(*                                                                         *)
(* A log record keeps what a property can tell apart: the request, the     *)
(* kind, and which body chunk (its number) was logged, NoBody if none was  *)
(* stored, Withheld if the body key was skipped.                           *)
(***************************************************************************)
EXTENDS Naturals, Sequences, FiniteSets

CONSTANTS
    Requests,              \* concurrent HTTP connections (scopes)
    MaxChunks,             \* bound: body messages the app sends per response
    RequestLogFields,      \* config.request_log_fields (abstracted to a set)
    ResponseLogFields,     \* config.response_log_fields, a subset of {"status_code", "body"}
    IncludeCompressedBody, \* config.include_compressed_body
    NoBody, Withheld       \* sentinels

ASSUME ConfigAssumption ==
    /\ MaxChunks \in Nat \ {0}
    /\ ResponseLogFields \subseteq {"status_code", "body"}
    /\ IncludeCompressedBody \in BOOLEAN
    /\ NoBody \notin Nat /\ Withheld \notin Nat /\ NoBody # Withheld

VARIABLES
    pc,          \* per request: where its __call__ is
    hasLogger,   \* hasattr(self, "logger"): shared by all requests
    scopeState,  \* per request: litestar scope state (start, body, compressed)
    sent,        \* per request: body messages the app has sent so far
    wire,        \* per request: messages forwarded to the server's send
    log          \* records handed to logger.info, in order

vars == <<pc, hasLogger, scopeState, sent, wire, log>>

Chunks == 1 .. MaxChunks
Messages == [type : {"start"}] \cup [type : {"body"}, n : Chunks, more : BOOLEAN]
StateRecs == [start : BOOLEAN, body : Chunks \cup {NoBody}, compressed : BOOLEAN]
LogRecs == [r : Requests, kind : {"request"}]
           \cup [r : Requests, kind : {"response"}, body : Chunks \cup {NoBody, Withheld}]

EmptyState == [start |-> FALSE, body |-> NoBody, compressed |-> FALSE]

-----------------------------------------------------------------------------
(* extract_response_data: pops HTTP_RESPONSE_START and HTTP_RESPONSE_BODY  *)
(* from the scope state and logs each configured field; a compressed body *)
(* is logged raw with include_compressed_body and skipped otherwise.      *)
ResponseRecord(r, st) ==
    [r    |-> r,
     kind |-> "response",
     body |-> IF "body" \notin ResponseLogFields \/ (st.compressed /\ ~IncludeCompressedBody)
              THEN Withheld ELSE st.body]

(* ResponseDataExtractor((start, body)) raises TypeError when the start    *)
(* message is None: its cookie extractor, on by default (line 88 does not  *)
(* set extract_cookies), reads messages[0]["headers"].                     *)
ExtractorRaises(st) == ~st.start

(* Both get_litestar_scope_state(..., pop=True) calls run before the       *)
(* extractor is called.                                                    *)
Popped(st) == [st EXCEPT !.start = FALSE, !.body = NoBody]

(* Mutant: log_response reads the scope state before send_wrapper stores  *)
(* the body message in it.                                                 *)
BodyLoggedBeforeStored(st, m) == st

(* set_litestar_scope_state(scope, HTTP_RESPONSE_BODY, message).           *)
StoreBody(st, m) == [st EXCEPT !.body = m.n]

-----------------------------------------------------------------------------
Init ==
    /\ pc = [r \in Requests |-> "new"]
    /\ hasLogger = FALSE
    /\ scopeState = [r \in Requests |-> EmptyState]
    /\ sent = [r \in Requests |-> 0]
    /\ wire = [r \in Requests |-> <<>>]
    /\ log = <<>>

(* Mutant: __call__ calls the app without awaiting log_request first.     *)
CallSkipsRequestLog(r) ==
    /\ pc[r] = "new"
    /\ hasLogger' = TRUE
    /\ pc' = [pc EXCEPT ![r] = "app"]
    /\ UNCHANGED <<scopeState, sent, wire, log>>

(* __call__ up to its first await: the logger is fetched on first use,     *)
(* `send` is wrapped, and the request is logged (log_request awaits the    *)
(* body first) or the app is called.                                       *)
Call(r) ==
    /\ pc[r] = "new"
    /\ hasLogger' = TRUE
    /\ pc' = [pc EXCEPT ![r] = IF RequestLogFields # {} THEN "log_request" ELSE "app"]
    /\ UNCHANGED <<scopeState, sent, wire, log>>

(* log_request after extract_request_data returned: log_message.           *)
LogRequest(r) ==
    /\ pc[r] = "log_request"
    /\ log' = Append(log, [r |-> r, kind |-> "request"])
    /\ pc' = [pc EXCEPT ![r] = "app"]
    /\ UNCHANGED <<hasLogger, scopeState, sent, wire>>

(* The app sends http.response.start; a compression middleware inside the *)
(* logging middleware may have marked the response compressed.  The       *)
(* wrapper stores the message and forwards it.                            *)
SendStart(r) ==
    /\ pc[r] = "app"
    /\ \E compressed \in BOOLEAN :
          scopeState' = [scopeState EXCEPT ![r] =
                            [@ EXCEPT !.start = ResponseLogFields # {}, !.compressed = compressed]]
    /\ wire' = [wire EXCEPT ![r] = Append(@, [type |-> "start"])]
    /\ pc' = [pc EXCEPT ![r] = "body"]
    /\ UNCHANGED <<hasLogger, sent, log>>

(* The app sends one http.response.body message.  send_wrapper stores it,  *)
(* and when it is installed calls log_response, which pops start and body *)
(* and logs them, or raises out of send, the app and __call__ when the     *)
(* start message was already popped; otherwise the message is forwarded.   *)
SendBody(r) ==
    /\ pc[r] = "body"
    /\ sent[r] < MaxChunks
    /\ \E more \in BOOLEAN :
          LET m == [type |-> "body", n |-> sent[r] + 1, more |-> more /\ sent[r] + 1 < MaxChunks]
              st == StoreBody(scopeState[r], m)
              forward == /\ wire' = [wire EXCEPT ![r] = Append(@, m)]
                         /\ pc' = [pc EXCEPT ![r] = IF m.more THEN "body" ELSE "done"]
          IN  /\ sent' = [sent EXCEPT ![r] = m.n]
              /\ IF ResponseLogFields = {}
                 THEN forward /\ UNCHANGED <<log, scopeState>>
                 ELSE /\ scopeState' = [scopeState EXCEPT ![r] = Popped(st)]
                      /\ IF ExtractorRaises(st)
                         THEN /\ pc' = [pc EXCEPT ![r] = "done"]
                              /\ UNCHANGED <<log, wire>>
                         ELSE /\ log' = Append(log, ResponseRecord(r, st))
                              /\ forward
    /\ UNCHANGED hasLogger

(* The app raises, before or while sending the response; the exception    *)
(* propagates out of __call__.                                             *)
AppRaises(r) ==
    /\ pc[r] \in {"app", "body"}
    /\ pc' = [pc EXCEPT ![r] = "done"]
    /\ UNCHANGED <<hasLogger, scopeState, sent, wire, log>>

Step(r) == Call(r) \/ LogRequest(r) \/ SendStart(r) \/ SendBody(r) \/ AppRaises(r)

Next == \E r \in Requests : Step(r)

Spec == Init /\ [][Next]_vars

-----------------------------------------------------------------------------
TypeOK ==
    /\ pc \in [Requests -> {"new", "log_request", "app", "body", "done"}]
    /\ hasLogger \in BOOLEAN
    /\ scopeState \in [Requests -> StateRecs]
    /\ sent \in [Requests -> 0 .. MaxChunks]
    /\ wire \in [Requests -> Seq(Messages)]
    /\ log \in Seq(LogRecs)

ResponseLogs(r) == {i \in 1 .. Len(log) : log[i].kind = "response" /\ log[i].r = r}

(* A request is logged before anything of its response, whatever the      *)
(* other requests log in between: __call__ awaits log_request before it    *)
(* awaits the app.                                                         *)
RequestLoggedBeforeResponse ==
    RequestLogFields # {} =>
        \A i \in 1 .. Len(log) :
            log[i].kind = "response" =>
                \E j \in 1 .. i - 1 : log[j] = [r |-> log[i].r, kind |-> "request"]

(* A response record shows the body message that triggered it, never an  *)
(* empty or stale one (no body only when the body field is withheld): the  *)
(* k-th record of a request shows its k-th body message.  send_wrapper     *)
(* stores the message in the scope state before log_response pops it; a    *)
(* body message after the first raises before it is logged, so a request   *)
(* has at most the record with k = 1.                                      *)
LoggedBodyIsTriggeringChunk ==
    \A r \in Requests : \A i \in ResponseLogs(r) :
        log[i].body \in {Withheld, Cardinality({j \in ResponseLogs(r) : j <= i})}

(* A streamed response reaches the client whole: send_wrapper ends in     *)
(* `await send(message)` for every message the app hands it, so the last  *)
(* body message the app sent has been forwarded to the server.             *)
StreamForwarded ==
    \A r \in Requests :
        sent[r] > 0 => \E i \in 1 .. Len(wire[r]) : wire[r][i] \in [type : {"body"}, n : {sent[r]}, more : BOOLEAN]

=============================================================================
