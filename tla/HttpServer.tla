----------------------------- MODULE HttpServer -----------------------------
(***************************************************************************)
(* The HTTP server, nanovllm/entrypoints/openai/api_server.py, in front of *)
(* the Transformers-backed engine.  A request is one HTTP request; what a  *)
(* handler does between two suspensions is one step.                       *)
(*                                                                         *)
(* A streaming handler suspends where it waits for the output queue, where *)
(* it asks whether the client is there, and where a chunk is being sent;   *)
(* the client has a chunk before the handler goes on.  Starlette, which is *)
(* external, cancels the task of a streaming response whose client has     *)
(* left: the handler then runs its `finally', if it has run at all.  It    *)
(* leaves a handler alone that collects an answer in one piece.            *)
(*                                                                         *)
(* The parsing of payloads is in RequestOptions; here a payload is valid   *)
(* or not.  Routes that only read the engine's state are left out, and     *)
(* /cache/prewarm is a request for an answer in one piece.                 *)
(***************************************************************************)
EXTENDS HFEngine

CONSTANTS
  Kind,       \* Kind[r]: the route of r: "simple" for /generate_stream and /generate with
              \* stream, "openai" for /v1 with stream, "whole" for answers in one piece
  Cancelling  \* the ids that /cancel is called with

ASSUME ServerAssumption ==
  /\ Kind \in [Reqs -> {"simple", "openai", "whole"}]
  /\ Cancelling \subseteq Ids

VARIABLES
  http,   \* http[r]: where the handler of r is
  item,   \* item[r]: the output that it holds
  seen,   \* seen[r]: the events that the client of r has received
  gone    \* gone[r]: the client of r has left

httpVars == <<http, item, seen, gone>>
vars == <<engineVars, httpVars>>

None == <<"none">>
DONE == <<"done">>                 \* data: [DONE]
Answer(e) == <<"answer", e>>       \* the JSON body made from the last output
Crash == <<"crash">>               \* 500 in place of a body

Init ==
  /\ EngineInit
  /\ http = [r \in Reqs |-> "new"]
  /\ item = [r \in Reqs |-> None]
  /\ seen = [r \in Reqs |-> << >>]
  /\ gone = [r \in Reqs |-> FALSE]

At(r, place) == http' = [http EXCEPT ![r] = place]
Streaming(r) == Kind[r] # "whole"

-----------------------------------------------------------------------------
(* The routes                                                              *)

(* 400 for an invalid payload, 429 for a drain or an id in use, 500 when   *)
(* the model does not load: the handler is over.                           *)
Refuse(r) ==
  /\ http[r] = "new"
  /\ UNCHANGED engineVars \/ AddRequestRejects(r) \/ AddRequestFails
  /\ At(r, "refused")
  /\ UNCHANGED <<item, seen, gone>>

Accept(r) ==
  /\ http[r] = "new"
  /\ AddRequest(r)
  /\ At(r, IF Streaming(r) THEN "opened" ELSE "waiting")
  /\ UNCHANGED <<item, seen, gone>>

Cancel(i) == Abort(i) /\ UNCHANGED httpVars

Admin ==
  /\ \/ \E enabled \in BOOLEAN : SetDraining(enabled)
     \/ Restart
     \/ Shutdown
  /\ UNCHANGED httpVars

-----------------------------------------------------------------------------
(* simple_stream, and the stream of completions and chat_completions       *)

(* The first step of the generator enters its `try'.                       *)
Open(r) ==
  /\ http[r] = "opened" /\ ~gone[r]
  /\ At(r, "waiting")
  /\ UNCHANGED <<engineVars, item, seen, gone>>

(* yield: the chunk is written at once, and the handler waits until it is  *)
(* sent.                                                                   *)
Yield(r, e) ==
  /\ item' = [item EXCEPT ![r] = e]
  /\ seen' = [seen EXCEPT ![r] = IF gone[r] THEN @ ELSE Append(@, e)]
  /\ At(r, "sending")

Close(r) == At(r, "closed") /\ item' = [item EXCEPT ![r] = None]

(* The `finally': it aborts the request by its id.                         *)
CleanUp(r) == Abort(Id[r]) /\ Close(r) /\ UNCHANGED seen

(* The end of the loop: the OpenAI routes still send [DONE].               *)
LeaveLoop(r) == IF Kind[r] = "openai" THEN Yield(r, DONE) /\ UNCHANGED engineVars ELSE CleanUp(r)

TakeOutput(r) ==
  /\ http[r] = "waiting" /\ Streaming(r)
  /\ queue[r] # << >> /\ Head(queue[r]) # STOP
  /\ Take(r)
  /\ item' = [item EXCEPT ![r] = Head(queue[r])]
  /\ At(r, "checking")
  /\ UNCHANGED <<seen, gone>>

(* STOP ends the iteration.  It is the last thing in the queue, so taking  *)
(* it out makes no difference to anybody.                                  *)
TakeStop(r) ==
  /\ http[r] = "waiting" /\ Streaming(r)
  /\ queue[r] # << >> /\ Head(queue[r]) = STOP
  /\ LeaveLoop(r)
  /\ UNCHANGED gone

(* is_disconnected: a client that is there gets the output; otherwise the  *)
(* handler aborts the request and leaves the loop.                         *)
CheckConnected(r) ==
  /\ http[r] = "checking"
  /\ \/ ~gone[r] /\ Yield(r, item[r]) /\ UNCHANGED engineVars
     \/ gone[r] /\ Kind[r] = "openai" /\ Abort(Id[r]) /\ Yield(r, DONE)
     \/ gone[r] /\ Kind[r] = "simple" /\ CleanUp(r)
  /\ UNCHANGED gone

(* Back from the yield: iter_request breaks after a last output (the       *)
(* mutant after every output).                                             *)
LastAlways(e) == TRUE
Last(e) == Ending(e)

Sent(r) ==
  /\ http[r] = "sending"
  /\ \/ item[r] = DONE /\ CleanUp(r)
     \/ item[r] # DONE /\ Last(item[r]) /\ LeaveLoop(r)
     \/ item[r] # DONE /\ ~Last(item[r]) /\ At(r, "waiting") /\ UNCHANGED <<engineVars, item, seen>>
  /\ UNCHANGED gone

(* The response's task is cancelled because the client has left.  A        *)
(* generator that has not started runs no `finally'.                       *)
Drop(r) ==
  /\ gone[r] /\ Streaming(r)
  /\ \/ http[r] = "opened" /\ UNCHANGED engineVars
     \/ http[r] \in {"waiting", "checking", "sending"} /\ Abort(Id[r])
  /\ Close(r)
  /\ UNCHANGED <<seen, gone>>

-----------------------------------------------------------------------------
(* Answers in one piece: generate collects the outputs                     *)

(* The tokens are decoded at the end, if there are any; that raises when   *)
(* the tokenizer has gone since (500).                                     *)
Body(r, e) == IF up \/ item[r] = None THEN Answer(e) ELSE Crash

Collect(r) ==
  /\ http[r] = "waiting" /\ ~Streaming(r)
  /\ queue[r] # << >> /\ Head(queue[r]) # STOP
  /\ Take(r)
  /\ IF Last(Head(queue[r]))
     THEN /\ Close(r)
          /\ seen' = [seen EXCEPT ![r] = <<Body(r, Head(queue[r]))>>]
     ELSE /\ item' = [item EXCEPT ![r] = Head(queue[r])]
          /\ UNCHANGED <<http, seen>>
  /\ UNCHANGED gone

(* A request that was aborted is answered with what there is of it.        *)
CollectStop(r) ==
  /\ http[r] = "waiting" /\ ~Streaming(r)
  /\ queue[r] # << >> /\ Head(queue[r]) = STOP
  /\ Close(r)
  /\ seen' = [seen EXCEPT ![r] = <<Body(r, item[r])>>]
  /\ UNCHANGED <<engineVars, gone>>

-----------------------------------------------------------------------------
Accepted(r) == http[r] \notin {"new", "refused"}

(* That a client leaves which waits for an answer in one piece is noticed  *)
(* by nobody, and left out.                                                *)
Leave(r) ==
  /\ Accepted(r) /\ Streaming(r) /\ http[r] # "closed" /\ ~gone[r]
  /\ gone' = [gone EXCEPT ![r] = TRUE]
  /\ UNCHANGED <<engineVars, http, item, seen>>

Run(r) ==
  /\ \/ \E n \in Lengths[r] : RunRequest(r, n)
     \/ RunFails(r)
  /\ UNCHANGED httpVars

Handler(r) ==
  \/ Open(r) \/ TakeOutput(r) \/ TakeStop(r) \/ CheckConnected(r)
  \/ Sent(r) \/ Drop(r) \/ Collect(r) \/ CollectStop(r)

Client(r) ==
  \/ Refuse(r)
  \/ Accept(r)
  \/ Leave(r)

Next ==
  \/ \E r \in Reqs : Client(r) \/ Run(r) \/ Handler(r)
  \/ \E i \in Cancelling : Cancel(i)
  \/ Admin

Spec == Init /\ [][Next]_vars

(* Tasks that are ready run; a client reads what it is sent, or leaves.    *)
FairSpec == Spec /\ \A r \in Reqs : WF_vars(Run(r)) /\ WF_vars(Handler(r))

-----------------------------------------------------------------------------
(* Properties                                                              *)

(* A client of an OpenAI stream that reads [DONE] has read the last output *)
(* of its request, or the request was cancelled (api_server.py:410, 492);  *)
(* nothing follows a last output but [DONE], and nothing follows [DONE].   *)
DoneMeansOver ==
  \A r \in Reqs : \A k \in DOMAIN seen[r] :
    /\ seen[r][k] = DONE => k = Len(seen[r]) /\ (cancelled[r] \/ (k > 1 /\ Ending(seen[r][k - 1])))
    /\ Ending(seen[r][k]) => \A j \in k + 1..Len(seen[r]) : seen[r][j] = DONE

Fits(r) == \A n \in Lengths[r] : ~Overflows(n)

(* The response to a request that was accepted ends, whatever the client,  *)
(* an operator or an error does to it, if its completion fits its queue.   *)
EveryResponseEnds == \A r \in Reqs : Accepted(r) /\ Fits(r) ~> http[r] = "closed"

(* A client that stays, with an id that no other client uses and nobody    *)
(* cancels, is told how its request ended, unless the engine is shut down: *)
(* no clean-up of another response takes its request away                  *)
(* (api_server.py:164, 412, 494), and no ending is lost on the way.        *)
Alone(r) == Id[r] \notin Cancelling /\ \A q \in Reqs \ {r} : Id[q] # Id[r]
Told(r) == \E k \in DOMAIN seen[r] :
             Ending(seen[r][k]) \/ seen[r][k] \in {Answer(Final), Answer(Error), Crash}
AloneIsAnswered ==
  \A r \in Reqs : Alone(r) /\ Fits(r) => (Accepted(r) /\ ~cancelled[r] ~> Told(r) \/ gone[r] \/ ~up)
=============================================================================
