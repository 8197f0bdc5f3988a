------------------------ MODULE MC_LoggingMiddleware ------------------------
(* Two concurrent requests, responses of up to two body messages, the     *)
(* default field selection reduced to what the model distinguishes.        *)
EXTENDS LoggingMiddleware

MCRequests == {"r1", "r2"}
MCRequestLogFields == {"path"}
MCResponseLogFields == {"status_code", "body"}
=============================================================================
