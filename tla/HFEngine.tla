------------------------------ MODULE HFEngine ------------------------------
(***************************************************************************)
(* The Transformers-backed engine, nanovllm/engine/hf_auto_engine.py: the  *)
(* operations that the HTTP server calls and the task of each request.     *)
(*                                                                         *)
(* Everything here runs on one asyncio event loop, and nothing here ever   *)
(* suspends: model.generate is called on the loop itself, put_nowait does  *)
(* not wait, and abort awaits only what does not wait.  So each operation  *)
(* is one step, and so is the body of a task, from its first line to its   *)
(* last, with everything it puts into the output queue.                    *)
(*                                                                         *)
(* A task that is cancelled before it starts never runs.  The tables of    *)
(* active requests and of tasks are keyed by the id that the client        *)
(* chooses, and an id may come again as soon as it has left the tables.    *)
(***************************************************************************)
EXTENDS Integers, Sequences, FiniteSets, Functions

CONSTANTS
  Reqs,       \* HFAutoRequest objects, one per call of add_request
  Ids, Id,    \* Id[r]: request_id
  Lengths,    \* Lengths[r]: how long the completion of r may be
  QueueSize   \* output_queue_size

ASSUME EngineAssumption ==
  /\ Id \in [Reqs -> Ids]
  /\ Lengths \in [Reqs -> SUBSET Nat]
  /\ QueueSize \in Nat \ {0}

VARIABLES
  active,     \* active: from ids to requests
  tasks,      \* tasks: from ids to the requests whose tasks they hold
  task,       \* task[r]: the state of the asyncio task of r
  queue,      \* queue[r]: r.output_queue
  cancelled,  \* cancelled[r]: r.cancelled
  finished,   \* finished[r]: r.finished
  counted,    \* counted[r]: the counters incremented for r, in order
  draining,   \* draining
  up          \* started, with the model and the tokenizer loaded

tableVars == <<active, tasks>>
requestVars == <<task, queue, cancelled, finished, counted>>
modeVars == <<draining, up>>
engineVars == <<tableVars, requestVars, modeVars>>

STOP == <<"stop">>
Token(n) == <<"token", n>>
Final == <<"final">>
Error == <<"error">>
Ending(e) == e \in {Final, Error}                     \* item["finished"]

Without(f, S) == Restrict(f, DOMAIN f \ S)

(* put_nowait; an item that finds the queue full is dropped.               *)
Put(q, e) == IF Len(q) < QueueSize THEN Append(q, e) ELSE q

EngineInit ==
  /\ active = << >> /\ tasks = << >>
  /\ task = [r \in Reqs |-> "none"]
  /\ queue = [r \in Reqs |-> << >>]
  /\ cancelled = [r \in Reqs |-> FALSE]
  /\ finished = [r \in Reqs |-> FALSE]
  /\ counted = [r \in Reqs |-> << >>]
  /\ draining = FALSE
  /\ up = TRUE

-----------------------------------------------------------------------------
(* add_request and abort                                                   *)

Refused(r) == draining \/ Id[r] \in DOMAIN active        \* RequestRejected

(* It loads the model first, if that is still to do; a load that fails     *)
(* leaves everything as it was.                                            *)
AddRequest(r) ==
  /\ ~Refused(r)
  /\ up' = TRUE
  /\ active' = [i \in DOMAIN active \cup {Id[r]} |-> IF i = Id[r] THEN r ELSE active[i]]
  /\ tasks' = [i \in DOMAIN tasks \cup {Id[r]} |-> IF i = Id[r] THEN r ELSE tasks[i]]
  /\ task' = [task EXCEPT ![r] = "scheduled"]
  /\ UNCHANGED <<queue, cancelled, finished, counted, draining>>

AddRequestRejects(r) ==
  /\ Refused(r)
  /\ up' = TRUE
  /\ UNCHANGED <<tableVars, requestVars, draining>>

AddRequestFails == ~up /\ UNCHANGED engineVars

(* task.cancel(), which the mutant forgets.                                *)
LeftScheduled(T) == task
TaskCancelled(T) ==
  [r \in Reqs |-> IF r \in T /\ task[r] = "scheduled" THEN "cancelled" ELSE task[r]]

(* What abort puts last; the mutant leaves the consumer alone.             *)
Unstopped(q) == q
Stopped(q) == Put(q, STOP)

(* abort of the ids in I: nothing happens for one that is not active.      *)
AbortAll(I) ==
  LET found == I \cap DOMAIN active
      R == {active[i] : i \in found}
  IN  /\ active' = Without(active, found)
      /\ tasks' = Without(tasks, I)
      /\ task' = TaskCancelled({tasks[i] : i \in found \cap DOMAIN tasks})
      /\ cancelled' = [r \in Reqs |-> cancelled[r] \/ r \in R]
      /\ finished' = [r \in Reqs |-> finished[r] \/ r \in R]
      /\ counted' = [r \in Reqs |->
                       IF r \in R THEN Append(counted[r], "cancelled") ELSE counted[r]]
      /\ queue' = [r \in Reqs |-> IF r \in R THEN Stopped(queue[r]) ELSE queue[r]]

Abort(i) == AbortAll({i}) /\ UNCHANGED modeVars

-----------------------------------------------------------------------------
(* The task of a request: _run_request                                     *)

(* The pop by id in the finally; the mutant forgets it.                    *)
Kept(f, r) == f
Popped(f, r) == Without(f, {Id[r]})

Ends(r) ==
  /\ active' = Popped(active, r)
  /\ tasks' = Popped(tasks, r)
  /\ task' = [task EXCEPT ![r] = "done"]
  /\ finished' = [finished EXCEPT ![r] = TRUE]
  /\ UNCHANGED modeVars

(* The model gives n tokens.  They are put one by one, with nobody running *)
(* who could take one: a completion that does not fit makes the task abort *)
(* its own request, which is then counted as cancelled and as finished,    *)
(* and whose last event and STOP are dropped like the tokens.              *)
Overflows(n) == n >= QueueSize

RunRequest(r, n) ==
  /\ task[r] = "scheduled"
  /\ Ends(r)
  /\ LET fitting == IF Overflows(n) THEN QueueSize ELSE n
     IN  queue' = [queue EXCEPT ![r] = Put(Put([k \in 1..fitting |-> Token(k)], Final), STOP)]
  /\ cancelled' = [cancelled EXCEPT ![r] = @ \/ Overflows(n)]
  /\ counted' = [counted EXCEPT ![r] = @ \o
       CASE n > QueueSize -> <<"cancelled", "finished">>
         [] n = QueueSize -> <<"finished", "cancelled">>
         [] OTHER -> <<"finished">>]

(* The tokenizer or the model raises.  The mutant says nothing about it.   *)
OnlyStop == <<STOP>>
ErrorAndStop == Put(<<Error>>, STOP)

RunFails(r) ==
  /\ task[r] = "scheduled"
  /\ Ends(r)
  /\ queue' = [queue EXCEPT ![r] = ErrorAndStop]
  /\ counted' = [counted EXCEPT ![r] = Append(@, "failed")]
  /\ UNCHANGED cancelled

-----------------------------------------------------------------------------
(* The consumer's end of a queue, and the operators' operations            *)

Take(r) ==
  /\ queue[r] # << >>
  /\ queue' = [queue EXCEPT ![r] = Tail(@)]
  /\ UNCHANGED <<tableVars, task, cancelled, finished, counted, modeVars>>

SetDraining(enabled) ==
  /\ draining' = enabled
  /\ UNCHANGED <<tableVars, requestVars, up>>

(* The requests that shutdown aborts; the mutant aborts none.              *)
NobodyActive == {}
EverybodyActive == DOMAIN active

Shutdown ==
  /\ AbortAll(EverybodyActive)
  /\ up' = FALSE
  /\ UNCHANGED draining

(* restart refuses while a request is active, so its shutdown finds none,  *)
(* and its start follows with no step in between; the start may fail.      *)
Restart ==
  /\ DOMAIN active = {}
  /\ up' \in BOOLEAN
  /\ UNCHANGED <<tableVars, requestVars, draining>>

-----------------------------------------------------------------------------
(* Properties of the engine                                                *)

(* The two tables name exactly the requests whose tasks are still to run,  *)
(* each under its own id: no pop or abort by id (hf_auto_engine.py:216,    *)
(* 357) ever hits a newer request of the same id from inside the engine,   *)
(* and none is left behind.                                                *)
TablesAgree ==
  /\ active = tasks
  /\ \A i \in DOMAIN active : Id[active[i]] = i
  /\ \A r \in Reqs : task[r] = "scheduled" <=>
       Id[r] \in DOMAIN active /\ active[Id[r]] = r

(* A task that starts finds the model and the tokenizer, as it asserts     *)
(* (hf_auto_engine.py:284): no restart or shutdown takes them away between *)
(* the creation of the task and its first step.                            *)
RunsWithModel == \A r \in Reqs : task[r] = "scheduled" => up

(* A request that ends is counted once, as finished, failed or cancelled;  *)
(* the one exception is a completion that overflows its queue.             *)
OutcomeCountedOnce ==
  \A r \in Reqs :
    Len(counted[r]) = IF task[r] \in {"none", "scheduled"} THEN 0
                      ELSE IF task[r] = "done" /\ cancelled[r] THEN 2 ELSE 1
=============================================================================
