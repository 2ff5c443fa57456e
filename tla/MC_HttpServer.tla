--------------------------- MODULE MC_HttpServer ---------------------------
(* Two clients use one id, on a simple and an OpenAI stream; a third has   *)
(* an id of its own.  A queue holds two items: of a completion of one      *)
(* token STOP is lost, of one of two tokens the last output, too.          *)
EXTENDS HttpServer

CONSTANTS r1, r2, r3, a, b

MCId == [r \in Reqs |-> IF r = r3 THEN b ELSE a]
MCKind == [r \in Reqs |-> CASE r = r1 -> "simple" [] r = r2 -> "openai" [] r = r3 -> "whole"]
MCLengths == [r \in Reqs |-> IF r = r1 THEN {2} ELSE {1}]
=============================================================================
