----------------------------- MODULE AsyncEngine -----------------------------
(***************************************************************************)
(* The asynchronous engine, nanovllm/engine/async_engine.py: the queue of  *)
(* pending requests with its budgets, the loop that drives the synchronous *)
(* engine, one bounded output queue per request, and the clients and       *)
(* operators that share the event loop with it.                            *)
(*                                                                         *)
(* asyncio is cooperative: a coroutine keeps the event loop until it       *)
(* really suspends.  The engine loop suspends in two places only, after    *)
(* the put of a token and when the engine has nothing to do; restart and   *)
(* shutdown suspend while they await the old loop; everything else runs in *)
(* one piece.  `loop' says where each task of _run_loop is, suspended or   *)
(* not, and an action of a client or an operator needs the event loop to   *)
(* be free.                                                                *)
(*                                                                         *)
(* Abstractions.  The synchronous engine is the number of tokens it has    *)
(* produced for each request it works on, -1 before the prompt is          *)
(* computed; LLMEngine.tla says what it does.  A deadline may be found to  *)
(* have passed whenever the program looks at the clock: a request that is  *)
(* late is dealt with at the first look.  A limit that is None is a number *)
(* larger than any sum.  Metrics of time, the request log and arguments    *)
(* that are not valid are left out.                                        *)
(*                                                                         *)
(* Between the end of the old loop and the moment its operator resumes,    *)
(* another coroutine that is ready may call start, or a second operator    *)
(* may wait for the same loop: then two loops run on one engine.  `Racing' *)
(* says whether the model lets this happen.                                *)
(***************************************************************************)
EXTENDS Queues, Functions, FiniteSetsExt, SequencesExt

CONSTANTS
  Reqs,                 \* AsyncRequest objects, one per call of add_request
  Ids, Id,              \* Id[r]: request_id; clients may choose the same
  Namespace,            \* Namespace[r]: request_namespace
  Priority,             \* Priority[r]
  PromptTokens,         \* PromptTokens[r]: prompt_token_count
  MaxTokens,            \* MaxTokens[r]: sampling_params.max_tokens
  QueueTimeout,         \* QueueTimeout[r]: queue_timeout_s is not None
  RequestTimeout,       \* RequestTimeout[r]: request_timeout_s is not None
  MaxPending,           \* max_pending_requests
  MaxPendingPerNs,      \* max_pending_requests_per_namespace
  MaxPendingPrompt,     \* max_pending_prompt_tokens
  MaxActive,            \* max_active_requests
  MaxActivePerNs,       \* max_active_requests_per_namespace
  MaxActiveTokens,      \* max_active_tokens
  MaxActiveTokensPerNs, \* max_active_tokens_per_namespace
  QueueSize,            \* output_queue_size
  Operators,            \* callers of restart and shutdown
  Loops,                \* bound of the model: the tasks of _run_loop at one time
  Racing                \* restart may race with another one, or with start

ASSUME RequestsAssumption ==
  /\ Id \in [Reqs -> Ids]
  /\ Priority \in [Reqs -> Int]
  /\ PromptTokens \in [Reqs -> Nat \ {0}]
  /\ MaxTokens \in [Reqs -> Nat]
  /\ QueueTimeout \in [Reqs -> BOOLEAN]
  /\ RequestTimeout \in [Reqs -> BOOLEAN]
ASSUME LimitsAssumption ==
  /\ {MaxPending, MaxPendingPerNs, MaxPendingPrompt, MaxActive, MaxActivePerNs,
      MaxActiveTokens, MaxActiveTokensPerNs} \subseteq Nat
  /\ QueueSize \in Nat \ {0}
  /\ Loops \subseteq Nat \ {0} /\ 1 \in Loops
  /\ Racing \in BOOLEAN

VARIABLES
  pending,      \* pending, a deque
  pendingById,  \* pending_by_id
  active,       \* active
  queue,        \* queue[r]: r.output_queue
  cancelled,    \* cancelled[r]: r.cancelled
  finished,     \* finished[r]: r.finished
  counted,      \* counted[r]: the counters incremented for r, in order
  engine,       \* the tokens produced for each request the engine works on
  up,           \* engine is not None
  fatal,        \* fatal_error is not None
  draining,     \* draining
  shutdown,     \* _shutdown is set
  task,         \* _task, 0 for None
  loop,         \* loop[t]: where task t is in _run_loop
  outs,         \* outs[t]: the outputs of its step that task t has still to deliver
  oper,         \* oper[o]: what operator o does, and the task it awaits
  stream,       \* stream[r]: how the stream of r stands for its consumer
  got           \* got[r]: the number of the last token its consumer received

requestVars == <<queue, cancelled, finished, counted>>
queueVars == <<pending, pendingById, active>>
lifeVars == <<up, fatal, draining, shutdown, task, oper>>
loopVars == <<loop, outs>>
clientVars == <<stream, got>>
vars == <<queueVars, requestVars, engine, lifeVars, loopVars, clientVars>>

STOP == <<"stop">>
Token(n) == <<"token", n>>
Final(n) == <<"final", n>>
Timeout == <<"timeout">>
Error == <<"error">>
Ending(e) == e[1] \in {"final", "timeout", "error"}   \* item.get("finished")

Without(f, S) == Restrict(f, DOMAIN f \ S)
Estimated == [r \in Reqs |-> PromptTokens[r] + MaxTokens[r]]  \* estimated_token_count
SameSpace(R, r) == {q \in R : Namespace[q] = Namespace[r]}
IdsOf(R) == {Id[r] : r \in R}

-----------------------------------------------------------------------------
(* The event loop                                                          *)

Suspended == {"done", "new", "idle", "out"}
Ended(t) == t # 0 => loop[t] = "done"

(* An operator whose awaited task has ended is next in the ready queue;    *)
(* one that had nothing to await never left the event loop.                *)
Resumes(o) == oper[o][1] # "none" /\ Ended(oper[o][2])
Free ==
  /\ \A t \in Loops : loop[t] \in Suspended
  /\ \A o \in Operators : oper[o][1] # "none" => oper[o][2] # 0

(* Task t goes on at stage s of its loop, or wakes up in one of W.         *)
At(t, s, W) ==
  \/ loop[t] = s
  \/ /\ loop[t] \in W
     /\ Free
     /\ \A o \in Operators : ~Resumes(o)

-----------------------------------------------------------------------------
(* Output queues                                                           *)

(* _put_or_drop(STOP): a full queue is emptied to make room (the mutant    *)
(* drops its oldest item only).                                            *)
StopForOldest(q) == IF Len(q) < QueueSize THEN Append(q, STOP) ELSE Append(Tail(q), STOP)
Stopped(q) == IF Len(q) < QueueSize THEN Append(q, STOP) ELSE <<STOP>>
Full(r) == Len(queue[r]) >= QueueSize

(* _put_or_drop of a last event e, then of STOP.  A full queue means a     *)
(* slow consumer, who is cancelled and gets STOP twice (by the mutant      *)
(* never).                                                                 *)
ClosedQuietly(q, e) == IF Len(q) < QueueSize THEN Stopped(Append(q, e)) ELSE q
Closed(q, e) ==
  IF Len(q) < QueueSize THEN Stopped(Append(q, e)) ELSE Stopped(Stopped(q))

(* What is counted for a request that is late or has failed.               *)
OutcomesOf(r, outcome) == IF Full(r) THEN <<outcome, "cancelled">> ELSE <<outcome>>

(* _fail_request and _timeout_request for all of R.                        *)
EndAll(R, e, outcome) ==
  /\ queue' = [r \in Reqs |-> IF r \in R THEN Closed(queue[r], e) ELSE queue[r]]
  /\ finished' = [r \in Reqs |-> finished[r] \/ r \in R]
  /\ cancelled' = [r \in Reqs |-> cancelled[r] \/ (r \in R /\ Full(r))]
  /\ counted' = [r \in Reqs |->
       IF r \in R THEN counted[r] \o OutcomesOf(r, outcome) ELSE counted[r]]

(* The pending requests without those of R.                                *)
PendingWithout(R) == Filtered(pending, Reqs \ R)

(* _expire_pending: the late requests L leave both queues.                 *)
LatePending(L) == L \subseteq {r \in ToSet(pending) : ~cancelled[r] /\ QueueTimeout[r]}
ExpirePending(L) ==
  /\ LatePending(L)
  /\ pending' = PendingWithout(L)
  /\ pendingById' = Without(pendingById, IdsOf(L))
  /\ EndAll(L, Timeout, "timed_out")

(* _expire_active: the engine drops the late requests L, too (the mutant   *)
(* does not tell it).                                                      *)
LateActive(L) == L \subseteq {r \in Range(active) : ~cancelled[r] /\ RequestTimeout[r]}
ExpireActiveOnly(L) ==
  /\ LateActive(L)
  /\ active' = Without(active, IdsOf(L))
  /\ EndAll(L, Timeout, "timed_out")
  /\ UNCHANGED engine
ExpireActive(L) ==
  /\ LateActive(L)
  /\ engine' = Without(engine, L)
  /\ active' = Without(active, IdsOf(L))
  /\ EndAll(L, Timeout, "timed_out")

-----------------------------------------------------------------------------
(* Clients                                                                 *)

(* create_task: a task that is done and that nobody awaits is garbage.     *)
NewTask ==
  LET fresh == {t \in Loops : loop[t] = "done" /\ \A o \in Operators : oper'[o][2] # t}
  IN  /\ fresh # {}
      /\ shutdown' = FALSE
      /\ task' = Min(fresh)
      /\ loop' = [loop EXCEPT ![Min(fresh)] = "new"]

(* start: unless the engine has failed, there is an engine and a loop.     *)
Start ==
  IF fatal THEN UNCHANGED <<up, shutdown, task, loop>>
  ELSE /\ up' = TRUE
       /\ IF Ended(task) THEN NewTask ELSE UNCHANGED <<shutdown, task, loop>>

(* The window in which a restart is due to resume.                         *)
Calm == ~Racing => \A o \in Operators : ~Resumes(o)

(* The checks of add_request, once the requests P are what is pending.     *)
Accepts(r, P) ==
  /\ ~fatal
  /\ ~draining
  /\ Cardinality(P) < MaxPending
  /\ Id[r] \notin IdsOf(P) \cup DOMAIN active
  /\ Cardinality(SameSpace(P, r)) < MaxPendingPerNs
  /\ Total(PromptTokens, P) + PromptTokens[r] <= MaxPendingPrompt
  /\ Estimated[r] <= MaxActiveTokens
  /\ Estimated[r] <= MaxActiveTokensPerNs

(* _enqueue_pending: before the first request of lower priority (by the    *)
(* mutant always at the end).                                              *)
AtEnd(p, r) == Append(p, r)
Enqueued(p, r) ==
  LET lower == {i \in DOMAIN p : Priority[p[i]] < Priority[r]}
  IN  IF lower = {} THEN Append(p, r) ELSE InsertAt(p, Min(lower), r)

(* add_request: start, expire, then accept or reject.                      *)
AddRequest(r) ==
  /\ Free /\ Calm
  /\ stream[r] = "new"
  /\ \A o \in Operators : oper[o][1] # "shutdown"
  /\ UNCHANGED oper
  /\ Start
  /\ \E L \in SUBSET ToSet(pending) :
       /\ LatePending(L)
       /\ EndAll(L, Timeout, "timed_out")
       /\ IF Accepts(r, ToSet(pending) \ L)
          THEN /\ pending' = Enqueued(PendingWithout(L), r)
               /\ pendingById' = [i \in (DOMAIN pendingById \ IdsOf(L)) \cup {Id[r]} |->
                                    IF i = Id[r] THEN r ELSE pendingById[i]]
               /\ stream' = [stream EXCEPT ![r] = "open"]
          ELSE /\ pending' = PendingWithout(L)
               /\ pendingById' = Without(pendingById, IdsOf(L))
               /\ UNCHANGED stream
  /\ UNCHANGED <<active, engine, fatal, draining, outs, got>>

(* abort, of whatever request carries the id i.                            *)
AbortId(i) ==
  LET r == IF i \in DOMAIN pendingById THEN pendingById[i] ELSE active[i]
  IN IF i \notin DOMAIN pendingById \cup DOMAIN active
     THEN UNCHANGED <<queueVars, cancelled, counted, engine, queue>>
     ELSE /\ cancelled' = [cancelled EXCEPT ![r] = TRUE]
          /\ counted' = [counted EXCEPT ![r] = Append(@, "cancelled")]
          /\ queue' = [queue EXCEPT ![r] = Stopped(@)]
          /\ IF i \in DOMAIN pendingById
             THEN /\ pendingById' = Without(pendingById, {i})
                  /\ pending' = PendingWithout({r})
                  /\ UNCHANGED <<active, engine>>
             ELSE /\ engine' = Without(engine, {r})
                  /\ active' = Without(active, {i})
                  /\ UNCHANGED <<pending, pendingById>>

(* The request that abort(i) marks as finished.                            *)
Aborted(i) == {r \in ToSet(pending) \cup Range(active) : Id[r] = i}

(* POST /cancel.                                                           *)
Cancel(i) ==
  /\ Free
  /\ i \in DOMAIN pendingById \cup DOMAIN active
  /\ AbortId(i)
  /\ finished' = [r \in Reqs |-> finished[r] \/ r \in Aborted(i)]
  /\ UNCHANGED <<lifeVars, loopVars, clientVars>>

(* iter_request: the consumer takes the next item; STOP and a last event   *)
(* end the stream, and the request is finished then (OutcomeDecidedOnce),  *)
(* so that the finally does nothing.                                       *)
Receive(r) ==
  LET e == Head(queue[r])
  IN /\ Free
     /\ stream[r] = "open"
     /\ queue[r] # << >>
     /\ queue' = [queue EXCEPT ![r] = Tail(@)]
     /\ stream' = [stream EXCEPT ![r] = IF e[1] = "token" THEN "open" ELSE e[1]]
     /\ got' = [got EXCEPT ![r] = IF e[1] \in {"token", "final"} THEN e[2] ELSE @]
     /\ finished' = [finished EXCEPT ![r] = @ \/ Ending(e)]
     /\ UNCHANGED <<queueVars, cancelled, counted, engine, lifeVars, loopVars>>

(* The consumer goes away; the finally of iter_request aborts the request, *)
(* by its id, unless it is finished.                                       *)
Leave(r) ==
  /\ Free
  /\ stream[r] = "open"
  /\ stream' = [stream EXCEPT ![r] = "left"]
  /\ IF finished[r] THEN UNCHANGED <<queueVars, requestVars, engine>>
     ELSE /\ AbortId(Id[r])
          /\ finished' = [q \in Reqs |-> finished[q] \/ q \in Aborted(Id[r])]
  /\ UNCHANGED <<got, lifeVars, loopVars>>

(* cache_inspect and purge_prefix_cache start the engine, too.             *)
PurgePrefixCache ==
  /\ Free /\ Calm
  /\ UNCHANGED <<queueVars, requestVars, engine, fatal, draining, oper, outs, clientVars>>
  /\ Start

-----------------------------------------------------------------------------
(* Operators                                                               *)

(* Bound of the model: draining matters to add_request only, so it stays   *)
(* as it is once every request has been submitted.                         *)
SetDraining ==
  /\ Free
  /\ \E r \in Reqs : stream[r] = "new"
  /\ draining' = ~draining
  /\ UNCHANGED <<queueVars, requestVars, engine, up, fatal, shutdown, task, oper,
                 loopVars, clientVars>>

Alone == ~Racing => \A p \in Operators : oper[p][1] = "none"

(* restart and shutdown up to the await of _stop_loop.                     *)
Stop(o, what) ==
  /\ Free /\ Alone
  /\ oper[o][1] = "none"
  /\ shutdown' = TRUE
  /\ oper' = [oper EXCEPT ![o] = <<what, IF Ended(task) THEN 0 ELSE task>>]
  /\ UNCHANGED <<queueVars, requestVars, engine, up, fatal, draining, task, loopVars,
                 clientVars>>

(* The mutant forgets the active requests.                                 *)
NotStarted == DOMAIN pendingById
InFlight == DOMAIN active \cup DOMAIN pendingById
Restart(o) == InFlight = {} /\ Stop(o, "restart")

(* The server shuts the engine down once its connections are closed.       *)
Shutdown(o) == (\A r \in Reqs : stream[r] # "open") /\ Stop(o, "shutdown")

(* After the await: the engine exits; restart makes a new one, which may   *)
(* fail, and a new loop.                                                   *)
StopReturns(o) ==
  /\ Resumes(o)
  /\ oper[o][2] # 0 => Free
  /\ engine' = << >>
  /\ oper' = [oper EXCEPT ![o] = <<"none", 0>>]
  /\ \/ /\ oper[o][1] = "shutdown"
        /\ up' = FALSE /\ task' = 0
        /\ UNCHANGED <<fatal, shutdown, loop>>
     \/ /\ oper[o][1] = "restart"
        /\ up' = FALSE /\ task' = 0 /\ fatal' = TRUE /\ shutdown' = FALSE
        /\ UNCHANGED loop
     \/ /\ oper[o][1] = "restart"
        /\ up' = TRUE /\ fatal' = FALSE
        /\ NewTask
  /\ UNCHANGED <<queueVars, requestVars, draining, outs, clientVars>>

-----------------------------------------------------------------------------
(* _run_loop                                                               *)

Quits(t) == shutdown \/ (loop[t] = "new" /\ ~up)   \* or the assertion fails
LoopEnds(t) ==
  /\ At(t, "top", {"new", "idle"})
  /\ Quits(t)
  /\ loop' = [loop EXCEPT ![t] = "done"]
  /\ UNCHANGED <<queueVars, requestVars, engine, lifeVars, outs, clientVars>>

(* _expire_pending and _expire_active at the top of the loop.              *)
LoopExpires(t) ==
  /\ At(t, "top", {"new", "idle"})
  /\ ~Quits(t)
  /\ \E L \in SUBSET ToSet(pending), M \in SUBSET Range(active) :
       /\ LatePending(L) /\ LateActive(M)
       /\ pending' = PendingWithout(L)
       /\ pendingById' = Without(pendingById, IdsOf(L))
       /\ active' = Without(active, IdsOf(M))
       /\ engine' = Without(engine, M)
       /\ EndAll(L \cup M, Timeout, "timed_out")
  /\ loop' = [loop EXCEPT ![t] = "drain"]
  /\ UNCHANGED <<lifeVars, outs, clientVars>>

(* One turn of _drain_pending: expire, ...                                 *)
DrainExpires(t) ==
  /\ loop[t] = "drain"
  /\ up
  /\ \E L \in SUBSET ToSet(pending) : ExpirePending(L)
  /\ loop' = [loop EXCEPT ![t] = "admit"]
  /\ UNCHANGED <<active, engine, lifeVars, outs, clientVars>>

(* ... then admit the first pending request that fits (the mutant forgets  *)
(* to count its own tokens).                                               *)
CanAdmitMore(r) ==
  LET A == Range(active)
  IN /\ Cardinality(A) < MaxActive
     /\ Cardinality(SameSpace(A, r)) < MaxActivePerNs
     /\ Total(Estimated, A) <= MaxActiveTokens
     /\ Total(Estimated, SameSpace(A, r)) <= MaxActiveTokensPerNs
CanAdmitActive(r) ==
  LET A == Range(active)
  IN /\ Cardinality(A) < MaxActive
     /\ Cardinality(SameSpace(A, r)) < MaxActivePerNs
     /\ Total(Estimated, A) + Estimated[r] <= MaxActiveTokens
     /\ Total(Estimated, SameSpace(A, r)) + Estimated[r] <= MaxActiveTokensPerNs

Admissible == {k \in DOMAIN pending : CanAdmitActive(pending[k])}

DrainAdmits(t) ==
  LET r == pending[Min(Admissible)]
  IN /\ loop[t] = "admit"
     /\ Admissible # {}
     /\ pending' = PendingWithout({r})
     /\ pendingById' = Without(pendingById, {Id[r]})
     /\ \/ /\ engine' = [q \in DOMAIN engine \cup {r} |-> IF q = r THEN -1 ELSE engine[q]]
           /\ active' = [i \in DOMAIN active \cup {Id[r]} |->
                           IF i = Id[r] THEN r ELSE active[i]]
           /\ UNCHANGED requestVars
        \/ /\ EndAll({r}, Error, "failed")   \* engine.add_request raises
           /\ UNCHANGED <<engine, active>>
     /\ loop' = [loop EXCEPT ![t] = "drain"]
     /\ UNCHANGED <<lifeVars, outs, clientVars>>

DrainEnds(t) ==
  /\ loop[t] = "admit"
  /\ Admissible = {}
  /\ \E M \in SUBSET Range(active) : ExpireActive(M)
  /\ loop' = [loop EXCEPT ![t] = "step"]
  /\ UNCHANGED <<pending, pendingById, lifeVars, outs, clientVars>>

(* engine.is_finished: sleep(0.001).                                       *)
LoopIdles(t) ==
  /\ loop[t] = "step"
  /\ DOMAIN engine = {}
  /\ loop' = [loop EXCEPT ![t] = "idle"]
  /\ UNCHANGED <<queueVars, requestVars, engine, lifeVars, outs, clientVars>>

(* engine.step: some requests B get on, those in E with an output each, in *)
(* any order, those in F with their last one; a chunk of a prompt has no   *)
(* output.                                                                 *)
Step(t) ==
  LET next(r) == IF MaxTokens[r] = 0 THEN 0 ELSE IF engine[r] < 0 THEN 1 ELSE engine[r] + 1
  IN /\ loop[t] = "step"
     /\ \E B \in SUBSET DOMAIN engine : \E E \in SUBSET B : \E F \in SUBSET E :
          /\ B # {}
          /\ \A r \in B \ E : engine[r] = -1
          /\ \A r \in E \ F : next(r) < MaxTokens[r]
          /\ engine' = [r \in DOMAIN engine \ F |->
               IF r \in E THEN next(r) ELSE IF r \in B THEN 0 ELSE engine[r]]
          /\ \E order \in SetToSeqs(E) :
               outs' = [outs EXCEPT ![t] = [k \in DOMAIN order |->
                 <<Id[order[k]], IF order[k] \in F THEN Final(next(order[k]))
                                 ELSE Token(next(order[k]))>>]]
     /\ loop' = [loop EXCEPT ![t] = "deliver"]
     /\ UNCHANGED <<queueVars, requestVars, lifeVars, clientVars>>

(* engine.step raises, or there is no engine: every request fails and the  *)
(* loop ends.                                                              *)
LoopFails(t) ==
  /\ loop[t] = IF up THEN "step" ELSE "drain"
  /\ up => DOMAIN engine # {}
  /\ fatal' = TRUE
  /\ EndAll(Range(active) \cup ToSet(pending), Error, "failed")
  /\ engine' = Without(engine, {r \in Range(active) : Full(r)})
  /\ active' = << >>
  /\ pending' = << >>
  /\ pendingById' = << >>
  /\ loop' = [loop EXCEPT ![t] = "done"]
  /\ UNCHANGED <<up, draining, shutdown, task, oper, outs, clientVars>>

(* One output.  A put that finds the queue full cancels the request; one   *)
(* of a token suspends the loop; one of the last event ends the request.   *)
Deliver(t) ==
  LET i == Head(outs[t])[1]
      e == Head(outs[t])[2]
      r == active[i]
  IN /\ At(t, "deliver", {"out"})
     /\ outs[t] # << >>
     /\ outs' = [outs EXCEPT ![t] = Tail(@)]
     /\ IF i \notin DOMAIN active
        THEN /\ loop' = [loop EXCEPT ![t] = "deliver"]
             /\ UNCHANGED <<active, engine, requestVars>>
        ELSE IF e[1] = "token" /\ ~Full(r)
        THEN /\ queue' = [queue EXCEPT ![r] = Append(@, e)]
             /\ loop' = [loop EXCEPT ![t] = "out"]
             /\ UNCHANGED <<active, engine, finished, cancelled, counted>>
        ELSE /\ queue' = [queue EXCEPT ![r] =
                            IF Full(r) THEN <<STOP>> ELSE Closed(@, e)]
             /\ finished' = [finished EXCEPT ![r] = TRUE]
             /\ cancelled' = [cancelled EXCEPT ![r] = @ \/ Full(r)]
             /\ counted' = [counted EXCEPT ![r] =
                              Append(@, IF Full(r) THEN "cancelled" ELSE "finished")]
             /\ active' = Without(active, {i})
             /\ engine' = Without(engine, {r})
             /\ loop' = [loop EXCEPT ![t] = "deliver"]
     /\ UNCHANGED <<pending, pendingById, lifeVars, clientVars>>

LoopTurns(t) ==
  /\ At(t, "deliver", {"out"})
  /\ outs[t] = << >>
  /\ \E M \in SUBSET Range(active) : ExpireActive(M)
  /\ loop' = [loop EXCEPT ![t] = "top"]
  /\ UNCHANGED <<pending, pendingById, lifeVars, outs, clientVars>>

-----------------------------------------------------------------------------
(* The behaviours                                                          *)

(* The server has started the engine.                                      *)
Init ==
  /\ pending = << >> /\ pendingById = << >> /\ active = << >>
  /\ queue = [r \in Reqs |-> << >>]
  /\ cancelled = [r \in Reqs |-> FALSE] /\ finished = [r \in Reqs |-> FALSE]
  /\ counted = [r \in Reqs |-> << >>]
  /\ engine = << >>
  /\ up = TRUE /\ fatal = FALSE /\ draining = FALSE /\ shutdown = FALSE
  /\ task = 1
  /\ loop = [t \in Loops |-> IF t = 1 THEN "new" ELSE "done"]
  /\ outs = [t \in Loops |-> << >>]
  /\ oper = [o \in Operators |-> <<"none", 0>>]
  /\ stream = [r \in Reqs |-> "new"] /\ got = [r \in Reqs |-> 0]

RunLoop(t) ==
  \/ LoopEnds(t) \/ LoopExpires(t)
  \/ DrainExpires(t) \/ DrainAdmits(t) \/ DrainEnds(t)
  \/ LoopIdles(t) \/ Step(t) \/ LoopFails(t)
  \/ Deliver(t) \/ LoopTurns(t)

Next ==
  \/ \E t \in Loops : RunLoop(t)
  \/ \E r \in Reqs : AddRequest(r) \/ Receive(r) \/ Leave(r)
  \/ \E i \in Ids : Cancel(i)
  \/ PurgePrefixCache
  \/ SetDraining
  \/ \E o \in Operators : Restart(o) \/ Shutdown(o) \/ StopReturns(o)

Spec == Init /\ [][Next]_vars

(* asyncio gives every task that is ready its turn: the loop, an operator  *)
(* whose await is over, and a consumer, who is ready again and again but   *)
(* only while the loop is suspended.                                       *)
FairSpec ==
  /\ Spec
  /\ \A t \in Loops : WF_vars(RunLoop(t))
  /\ \A o \in Operators : WF_vars(StopReturns(o))
  /\ \A r \in Reqs : SF_vars(Receive(r))

-----------------------------------------------------------------------------
(* Properties                                                              *)

(* A request that was accepted is in exactly one place under its id, the   *)
(* pending queue or the active set, and the engine works for the active    *)
(* requests and for no other: an active request that the engine has let go *)
(* of has its last output on the way.  A request that was cancelled is in  *)
(* neither place, so that the branches of the code that look for one there *)
(* (async_engine.py:341, 727) are dead.                                    *)
OnePlacePerRequest ==
  /\ Len(pending) = Cardinality(DOMAIN pendingById)
  /\ ToSet(pending) = Range(pendingById)
  /\ DOMAIN pendingById \cap DOMAIN active = {}
  /\ \A r \in ToSet(pending) \cup Range(active) : ~cancelled[r]
  /\ \A i \in DOMAIN pendingById : Id[pendingById[i]] = i
  /\ \A i \in DOMAIN active : Id[active[i]] = i
  /\ ~fatal => DOMAIN engine \subseteq Range(active)
  /\ \A r \in Range(active) \ DOMAIN engine : \E t \in Loops :
       \E k \in DOMAIN outs[t] : outs[t][k][1] = Id[r] /\ outs[t][k][2][1] = "final"

(* Whatever clients, timeouts and the loop add and take away, the budgets  *)
(* hold: overall and for each namespace, pending and active, in requests   *)
(* and in tokens.                                                          *)
BudgetsHold ==
  LET P == ToSet(pending)
      A == Range(active)
  IN  /\ Cardinality(P) <= MaxPending /\ Cardinality(A) <= MaxActive
      /\ Total(PromptTokens, P) <= MaxPendingPrompt
      /\ Total(Estimated, A) <= MaxActiveTokens
      /\ \A r \in P : Cardinality(SameSpace(P, r)) <= MaxPendingPerNs
      /\ \A r \in A : /\ Cardinality(SameSpace(A, r)) <= MaxActivePerNs
                       /\ Total(Estimated, SameSpace(A, r)) <= MaxActiveTokensPerNs

(* A request overtakes one of higher priority on its way into the engine   *)
(* only if that one does not fit the budgets at that moment.               *)
HigherPriorityFirst ==
  [][\A r \in Range(active') \ Range(active), q \in ToSet(pending') :
       Priority[q] > Priority[r] => ~CanAdmitActive(q)]_vars

(* The end of a request is decided once, by whoever comes first of the     *)
(* last token, a timeout, a failure, a client and a full queue, and it is  *)
(* counted so (a slow consumer who is late or fails is also counted as     *)
(* cancelled).  What ends the stream says the same, and as long as the     *)
(* stream is open, something that ends it is in the queue.                 *)
OutcomeDecidedOnce ==
  \A r \in Reqs :
    /\ (stream[r] # "new" /\ counted[r] = << >>)
         <=> r \in ToSet(pending) \cup Range(active)
    /\ finished[r] = (counted[r] # << >>)
    /\ Len(counted[r]) > 1 =>
         counted[r] \in {<<"timed_out", "cancelled">>, <<"failed", "cancelled">>}
    /\ stream[r] = "final" => counted[r] = <<"finished">>
    /\ stream[r] = "timeout" => counted[r] = <<"timed_out">>
    /\ stream[r] = "error" => counted[r] = <<"failed">>
    /\ STOP \in ToSet(queue[r]) => finished[r]
    /\ stream[r] = "open" /\ finished[r] => \E k \in DOMAIN queue[r] : queue[r][k][1] # "token"

(* A consumer receives the tokens of its request in order and without gaps *)
(* until the stream ends.                                                  *)
TokensInOrder ==
  \A r \in Reqs : stream[r] = "open" =>
    \A k \in DOMAIN queue[r] :
      /\ queue[r][k][1] = "token" => queue[r][k][2] = got[r] + k
      /\ queue[r][k][1] = "final" /\ MaxTokens[r] > 0 => queue[r][k][2] = got[r] + k

(* The engine is taken down, by restart or shutdown, only when no request  *)
(* is in it, although requests may come in while they wait for the loop.   *)
RestartLosesNothing ==
  [][(\E o \in Operators : oper[o][1] # "none" /\ oper'[o][1] = "none")
       => DOMAIN active = {}]_vars

(* A consumer that keeps reading comes to the end of its stream, whatever  *)
(* the other clients and the operator do, unless a restart could not make  *)
(* a new engine.                                                           *)
EveryStreamEnds ==
  \A r \in Reqs : stream[r] = "open" ~> stream[r] # "open" \/ (fatal /\ ~up)

(* The usage of a request is on its final output event: a consumer that    *)
(* has read to the end of a request counted as finished has received it.   *)
FinishedIsDelivered ==
  \A r \in Reqs : stream[r] = "stop" => counted[r] # <<"finished">>

=============================================================================
