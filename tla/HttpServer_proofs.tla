--------------------------- MODULE HttpServer_proofs ---------------------------
(***************************************************************************)
(* Theorems about HttpServer and the engine behind it, for every set of    *)
(* requests and ids, all lengths of completions and every queue size.      *)
(*                                                                         *)
(* The engine's tables need to know only that a request whose task has not *)
(* run is untouched (Fresh) and that a handler creates one task at most    *)
(* (OneTaskEach).  The streams need to know, while a handler still reads,  *)
(* that a STOP in its queue follows an ending or an abortion, and that     *)
(* nothing it has sent was an ending (StreamSoFar).                        *)
(***************************************************************************)
EXTENDS HttpServer, TLAPS

(* What a queue holds, what a handler may have in hand, and what a client  *)
(* may see.                                                                *)
Outputs == {STOP, Final, Error} \cup {Token(n) : n \in Nat}
Items == Outputs \cup {None, DONE}
Shown == Outputs \cup {DONE, Crash} \cup {Answer(e) : e \in Items}

(* The types of the engine's variables.                                    *)
EngineTypeOK ==
  /\ DOMAIN active \subseteq Ids
  /\ active \in [DOMAIN active -> Reqs]
  /\ task \in [Reqs -> {"none", "scheduled", "cancelled", "done"}]
  /\ queue \in [Reqs -> Seq(Outputs)]
  /\ cancelled \in [Reqs -> BOOLEAN]
  /\ finished \in [Reqs -> BOOLEAN]
  /\ counted \in [Reqs -> Seq({"finished", "failed", "cancelled"})]
  /\ draining \in BOOLEAN
  /\ up \in BOOLEAN

(* The types of the variables of the handlers and clients.                 *)
ServerTypeOK ==
  /\ http \in [Reqs -> {"new", "refused", "opened", "waiting", "checking", "sending", "closed"}]
  /\ item \in [Reqs -> Items]
  /\ seen \in [Reqs -> Seq(Shown)]
  /\ gone \in [Reqs -> BOOLEAN]

(* The two together.                                                       *)
TypeOK == EngineTypeOK /\ ServerTypeOK

(* A request whose task has not run has had no end and no output.          *)
Fresh ==
  \A r \in Reqs : task[r] \in {"none", "scheduled"} =>
    ~cancelled[r] /\ counted[r] = << >> /\ queue[r] = << >>

(* A handler that has not begun has created no task.                       *)
OneTaskEach == \A r \in Reqs : http[r] = "new" => task[r] = "none"

(* The part of the invariant that is about the engine.                     *)
EngineInv == EngineTypeOK /\ TablesAgree /\ RunsWithModel /\ OutcomeCountedOnce /\ Fresh

(* An event after which more is to come.                                   *)
Plain(e) == ~Ending(e) /\ e # DONE

(* The handler of r will go on reading from its queue.                     *)
Reading(r) ==
  \/ http[r] \in {"new", "opened", "waiting"}
  \/ http[r] \in {"checking", "sending"} /\ Plain(item[r])

(* A STOP in the queue follows an ending, unless the request was aborted.  *)
StopDeserved(r) ==
  \A k \in DOMAIN queue[r] : queue[r][k] = STOP =>
    cancelled[r] \/ (k > 1 /\ Ending(queue[r][k - 1]))

(* The client has not yet been told of an end.                             *)
AllPlain(r) == \A k \in DOMAIN seen[r] : Plain(seen[r][k])

(* The client that is still there has the ending as the last event so far. *)
EndingSent(r) ==
  \A k \in DOMAIN seen[r] :
    /\ seen[r][k] # DONE
    /\ k < Len(seen[r]) => ~Ending(seen[r][k])

(* Nothing but [DONE] follows an ending, and nothing follows [DONE], which *)
(* an ending or an abortion went before.                                   *)
StreamOver(r) ==
  \A k \in DOMAIN seen[r] :
    /\ seen[r][k] = DONE => k = Len(seen[r]) /\ (cancelled[r] \/ (k > 1 /\ Ending(seen[r][k - 1])))
    /\ Ending(seen[r][k]) => \A j \in k + 1..Len(seen[r]) : seen[r][j] = DONE

(* What holds of the stream where its handler is suspended.                *)
StreamSoFar(r) ==
  /\ Reading(r) => StopDeserved(r) /\ AllPlain(r)
  /\ http[r] = "refused" => AllPlain(r)
  /\ http[r] = "checking" => AllPlain(r) /\ item[r] \in Outputs \ {STOP}
  /\ http[r] = "sending" /\ Ending(item[r]) =>
       /\ EndingSent(r)
       /\ ~gone[r] => seen[r] # << >> /\ Ending(seen[r][Len(seen[r])])
  /\ StreamOver(r)

(* The inductive invariant.                                                *)
IInv == EngineInv /\ ServerTypeOK /\ OneTaskEach /\ \A r \in Reqs : StreamSoFar(r)


-----------------------------------------------------------------------------
(* The engine's operations                                                 *)

(* Outputs and events are told apart by what they are.                     *)
LEMMA Distinct ==
  /\ STOP \notin {Final, Error, DONE, Crash, None}
  /\ DONE \notin Outputs /\ Crash \notin {Final, Error, DONE} /\ None \notin {Final, Error, DONE}
  /\ ~Ending(STOP) /\ ~Ending(DONE) /\ Ending(Final) /\ Ending(Error)
  /\ \A n \in Nat : Token(n) # STOP /\ Plain(Token(n))
  /\ \A e : Answer(e) # DONE /\ ~Ending(Answer(e))
BY DEF STOP, Final, Error, DONE, Crash, None, Outputs, Token, Ending, Plain, Answer

(* Tables from which ids are taken keep the other entries.                 *)
LEMMA WithoutFacts ==
  ASSUME NEW f, NEW S
  PROVE  /\ DOMAIN Without(f, S) = DOMAIN f \ S
         /\ \A x \in DOMAIN f \ S : Without(f, S)[x] = f[x]
         /\ Without(f, S) = [x \in DOMAIN f \ S |-> f[x]]
BY DEF Without, Restrict

(* The first element of a queue.                                           *)
LEMMA FirstElement == \A e : Append(<< >>, e) = <<e>> /\ Len(<<e>>) = 1 /\ <<e>>[1] = e
OBVIOUS

(* What put_nowait does to a queue.                                        *)
LEMMA AppendFacts ==
  ASSUME NEW S, NEW q \in Seq(S), NEW e \in S
  PROVE  /\ Append(q, e) \in Seq(S) /\ Len(Append(q, e)) = Len(q) + 1
         /\ DOMAIN Append(q, e) = 1..Len(q) + 1
         /\ Append(q, e)[Len(q) + 1] = e
         /\ \A k \in 1..Len(q) : Append(q, e)[k] = q[k]
OBVIOUS

(* AbortAll touches the requests in the table under these ids, and only    *)
(* these; it leaves each of them with nothing but STOP in its queue.       *)
LEMMA AbortAllKeeps ==
  ASSUME EngineInv, NEW I, AbortAll(I)
  PROVE  /\ EngineTypeOK' <=> draining' \in BOOLEAN /\ up' \in BOOLEAN
         /\ TablesAgree' /\ OutcomeCountedOnce' /\ Fresh'
         /\ \A r \in Reqs : task'[r] = "none" <=> task[r] = "none"
         /\ \A r \in Reqs : task'[r] = "scheduled" =>
              task[r] = "scheduled" /\ Id[r] \notin I
         /\ \A r \in Reqs : cancelled[r] => cancelled'[r]
         /\ \A r \in Reqs :
              \/ queue'[r] = queue[r]
              \/ cancelled'[r] /\ queue'[r] = <<STOP>>
<1> USE EngineAssumption
<1> DEFINE found == I \cap DOMAIN active
           R == {active[i] : i \in found}
<1>1. /\ active' = Without(active, found)
      /\ tasks' = Without(tasks, I)
      /\ task' = TaskCancelled({tasks[i] : i \in found \cap DOMAIN tasks})
      /\ cancelled' = [r \in Reqs |-> cancelled[r] \/ r \in R]
      /\ finished' = [r \in Reqs |-> finished[r] \/ r \in R]
      /\ counted' = [r \in Reqs |->
                       IF r \in R THEN Append(counted[r], "cancelled") ELSE counted[r]]
      /\ queue' = [r \in Reqs |-> IF r \in R THEN Stopped(queue[r]) ELSE queue[r]]
  BY DEF AbortAll
<1>2. active = tasks /\ EngineTypeOK /\ TablesAgree /\ Fresh /\ OutcomeCountedOnce
  BY DEF EngineInv, TablesAgree
<1>3. {tasks[i] : i \in found \cap DOMAIN tasks} = R
  BY <1>2
<1>4. active' = tasks' /\ DOMAIN active' = DOMAIN active \ I
      /\ \A i \in DOMAIN active \ I : active'[i] = active[i]
  <2>1. DOMAIN active \ found = DOMAIN active \ I
    OBVIOUS
  <2>2. Without(active, found) = Without(tasks, I)
    BY <1>2, <2>1 DEF Without
  <2>3. active' = [x \in DOMAIN active \ I |-> active[x]]
    <3>1. Without(active, found) = [x \in DOMAIN active \ found |-> active[x]]
      BY Zenon DEF Without, Restrict
    <3>2. QED BY <1>1, <2>1, <3>1, Zenon
  <2>4. QED BY <1>1, <2>2, <2>3
<1>5. \A r \in R : r \in Reqs /\ task[r] = "scheduled" /\ Id[r] \in I
                   /\ queue[r] = << >> /\ counted[r] = << >>
  BY <1>2 DEF EngineTypeOK, TablesAgree, Fresh
<1>6. \A r \in Reqs : task[r] = "scheduled" /\ Id[r] \in I => r \in R
  BY <1>2 DEF TablesAgree
<1>7. task' = [r \in Reqs |-> IF r \in R THEN "cancelled" ELSE task[r]]
  BY <1>1, <1>3, <1>5 DEF TaskCancelled
<1>8. \A r \in R : Stopped(queue[r]) = <<STOP>> /\ Append(counted[r], "cancelled") = <<"cancelled">>
  <2>1. \A q : q = << >> => Stopped(q) = <<STOP>>
    BY FirstElement DEF Stopped, Put
  <2>2. QED BY <1>5, <2>1, FirstElement
<1>9. EngineTypeOK' <=> draining' \in BOOLEAN /\ up' \in BOOLEAN
  <2>1. DOMAIN active' \subseteq Ids /\ active' \in [DOMAIN active' -> Reqs]
    <3>1. active' = [i \in DOMAIN active \ found |-> active[i]]
      BY <1>1, WithoutFacts
    <3>2. QED BY <3>1, <1>2 DEF EngineTypeOK
  <2>2. task' \in [Reqs -> {"none", "scheduled", "cancelled", "done"}]
    BY <1>2, <1>7 DEF EngineTypeOK
  <2>3. queue' \in [Reqs -> Seq(Outputs)]
    <3>1. <<STOP>> \in Seq(Outputs)
      BY DEF Outputs
    <3>2. QED BY <3>1, <1>1, <1>2, <1>8 DEF EngineTypeOK
  <2>4. cancelled' \in [Reqs -> BOOLEAN] /\ finished' \in [Reqs -> BOOLEAN]
    BY <1>1, <1>2 DEF EngineTypeOK
  <2>5. counted' \in [Reqs -> Seq({"finished", "failed", "cancelled"})]
    <3>1. <<"cancelled">> \in Seq({"finished", "failed", "cancelled"})
      OBVIOUS
    <3>2. QED BY <3>1, <1>1, <1>2, <1>8 DEF EngineTypeOK
  <2>6. QED BY <2>1, <2>2, <2>3, <2>4, <2>5 DEF EngineTypeOK
<1>10. TablesAgree'
  <2>1. \A i \in DOMAIN active' : Id[active'[i]] = i
    BY <1>2, <1>4 DEF TablesAgree
  <2>2. ASSUME NEW r \in Reqs
        PROVE  task'[r] = "scheduled" <=> Id[r] \in DOMAIN active' /\ active'[Id[r]] = r
    <3>1. CASE r \in R
      BY <3>1, <1>4, <1>5, <1>7
    <3>2. CASE r \notin R
      <4>1. task'[r] = task[r]
        BY <3>2, <1>7
      <4>2. QED BY <3>2, <4>1, <1>2, <1>4, <1>6 DEF TablesAgree
    <3>3. QED BY <3>1, <3>2
  <2>3. QED BY <1>4, <2>1, <2>2 DEF TablesAgree
<1>11. OutcomeCountedOnce'
  <2> SUFFICES ASSUME NEW r \in Reqs
               PROVE  Len(counted'[r]) = IF task'[r] \in {"none", "scheduled"} THEN 0
                        ELSE IF task'[r] = "done" /\ cancelled'[r] THEN 2 ELSE 1
    BY DEF OutcomeCountedOnce
  <2>1. CASE r \in R
    <3>1. task'[r] = "cancelled" /\ counted'[r] = <<"cancelled">>
      BY <2>1, <1>1, <1>7, <1>8
    <3>2. QED BY <3>1, FirstElement
  <2>2. CASE r \notin R
    <3>1. counted'[r] = counted[r] /\ task'[r] = task[r] /\ cancelled'[r] = cancelled[r]
      BY <2>2, <1>1, <1>2, <1>7 DEF EngineTypeOK
    <3>2. QED BY <3>1, <1>2 DEF OutcomeCountedOnce
  <2>3. QED BY <2>1, <2>2
<1>12. Fresh'
  <2> SUFFICES ASSUME NEW r \in Reqs, task'[r] \in {"none", "scheduled"}
               PROVE  ~cancelled'[r] /\ counted'[r] = << >> /\ queue'[r] = << >>
    BY DEF Fresh
  <2>1. r \notin R /\ task'[r] = task[r]
    BY <1>7
  <2>2. QED BY <2>1, <1>1, <1>2 DEF Fresh, EngineTypeOK
<1>13. \A r \in Reqs : task'[r] = "none" <=> task[r] = "none"
  BY <1>5, <1>7
<1>14. \A r \in Reqs : task'[r] = "scheduled" => task[r] = "scheduled" /\ Id[r] \notin I
  BY <1>6, <1>7
<1>15. \A r \in Reqs : cancelled[r] => cancelled'[r]
  BY <1>1
<1>16. \A r \in Reqs : queue'[r] = queue[r] \/ (cancelled'[r] /\ queue'[r] = <<STOP>>)
  BY <1>1, <1>8
<1>17. QED BY <1>9, <1>10, <1>11, <1>12, <1>13, <1>14, <1>15, <1>16

(* What an operation on other requests may do to the queue of q.           *)
QueueKept(q) ==
  /\ cancelled[q] => cancelled'[q]
  /\ queue'[q] = queue[q] \/ (cancelled'[q] /\ queue'[q] = <<STOP>>)

(* Everything that creates no task, runs none and reads no queue.          *)
Bystander ==
  \/ UNCHANGED engineVars
  \/ \E i : Abort(i)
  \/ \E r \in Reqs : AddRequestRejects(r)
  \/ AddRequestFails
  \/ \E enabled \in BOOLEAN : SetDraining(enabled)
  \/ Restart
  \/ Shutdown

(* None of these disturbs the engine's invariant or the queue of anybody.  *)
LEMMA BystanderKeeps ==
  ASSUME EngineInv, Bystander
  PROVE  /\ EngineInv'
         /\ \A r \in Reqs : task'[r] = "none" <=> task[r] = "none"
         /\ \A q \in Reqs : QueueKept(q)
<1> USE DEF QueueKept
<1>1. ASSUME UNCHANGED <<tableVars, requestVars>>, draining' \in BOOLEAN, up' \in BOOLEAN,
             \A r \in Reqs : task[r] = "scheduled" => up'
      PROVE  /\ EngineInv'
             /\ \A r \in Reqs : task'[r] = "none" <=> task[r] = "none"
             /\ \A q \in Reqs : QueueKept(q)
  BY <1>1 DEF EngineInv, EngineTypeOK, TablesAgree, RunsWithModel, OutcomeCountedOnce, Fresh,
     tableVars, requestVars
<1>2. /\ draining \in BOOLEAN /\ up \in BOOLEAN
      /\ \A r \in Reqs : task[r] = "scheduled" => up
      /\ DOMAIN active = {} => \A r \in Reqs : task[r] # "scheduled"
  BY DEF EngineInv, EngineTypeOK, RunsWithModel, TablesAgree
<1>3. CASE UNCHANGED engineVars
  BY <1>1, <1>2, <1>3 DEF engineVars, modeVars
<1>4. ASSUME NEW i, Abort(i) PROVE /\ EngineInv'
                                   /\ \A r \in Reqs : task'[r] = "none" <=> task[r] = "none"
                                   /\ \A q \in Reqs : QueueKept(q)
  <2>1. AbortAll({i}) /\ draining' = draining /\ up' = up
    BY <1>4 DEF Abort, modeVars
  <2>2. RunsWithModel'
    BY <2>1, <1>2, AbortAllKeeps DEF RunsWithModel
  <2>3. QED BY <2>1, <2>2, <1>2, AbortAllKeeps DEF EngineInv
<1>5. CASE \E r \in Reqs : AddRequestRejects(r)
  BY <1>1, <1>2, <1>5 DEF AddRequestRejects
<1>6. CASE AddRequestFails
  BY <1>3, <1>6 DEF AddRequestFails
<1>7. CASE \E enabled \in BOOLEAN : SetDraining(enabled)
  BY <1>1, <1>2, <1>7 DEF SetDraining
<1>8. CASE Restart
  BY <1>1, <1>2, <1>8 DEF Restart
<1>9. CASE Shutdown
  <2>1. AbortAll(DOMAIN active) /\ draining' = draining /\ up' = FALSE
    BY <1>9 DEF Shutdown, EverybodyActive
  <2>2. \A r \in Reqs : task'[r] # "scheduled"
    BY <2>1, AbortAllKeeps DEF EngineInv, TablesAgree
  <2>3. RunsWithModel'
    BY <2>2 DEF RunsWithModel
  <2>4. QED BY <2>1, <2>3, <1>2, AbortAllKeeps DEF EngineInv
<1>10. QED BY <1>3, <1>4, <1>5, <1>6, <1>7, <1>8, <1>9 DEF Bystander

(* A new task takes the place in the tables that its id did not have.      *)
LEMMA AddRequestKeeps ==
  ASSUME EngineInv, NEW r \in Reqs, AddRequest(r), task[r] = "none"
  PROVE  /\ EngineInv'
         /\ \A q \in Reqs \ {r} : task'[q] = task[q]
         /\ UNCHANGED <<queue, cancelled>>
<1> USE EngineAssumption
<1>1. /\ Id[r] \notin DOMAIN active
      /\ active' = [i \in DOMAIN active \cup {Id[r]} |-> IF i = Id[r] THEN r ELSE active[i]]
      /\ tasks' = [i \in DOMAIN tasks \cup {Id[r]} |-> IF i = Id[r] THEN r ELSE tasks[i]]
      /\ task' = [task EXCEPT ![r] = "scheduled"]
      /\ up' = TRUE
      /\ UNCHANGED <<queue, cancelled, finished, counted, draining>>
  BY DEF AddRequest, Refused
<1>2. EngineTypeOK /\ TablesAgree /\ OutcomeCountedOnce /\ Fresh
  BY DEF EngineInv
<1>3. EngineTypeOK'
  BY <1>1, <1>2 DEF EngineTypeOK
<1>4. TablesAgree'
  <2>1. active' = tasks'
    BY <1>1, <1>2 DEF TablesAgree
  <2>2. \A i \in DOMAIN active' : Id[active'[i]] = i
    BY <1>1, <1>2 DEF TablesAgree, EngineTypeOK
  <2>3. ASSUME NEW q \in Reqs
        PROVE  task'[q] = "scheduled" <=> Id[q] \in DOMAIN active' /\ active'[Id[q]] = q
    BY <1>1, <1>2 DEF TablesAgree, EngineTypeOK
  <2>4. QED BY <2>1, <2>2, <2>3 DEF TablesAgree
<1>5. RunsWithModel'
  BY <1>1 DEF RunsWithModel
<1>6. OutcomeCountedOnce' /\ Fresh'
  BY <1>1, <1>2 DEF OutcomeCountedOnce, Fresh, EngineTypeOK
<1>7. QED BY <1>1, <1>2, <1>3, <1>4, <1>5, <1>6 DEF EngineInv, EngineTypeOK

(* A task that runs leaves the tables by its own entry.                    *)
LEMMA EndsKeeps ==
  ASSUME EngineInv, NEW r \in Reqs, task[r] = "scheduled", Ends(r)
  PROVE  /\ TablesAgree' /\ RunsWithModel'
         /\ DOMAIN active' \subseteq Ids /\ active' \in [DOMAIN active' -> Reqs]
         /\ task' = [task EXCEPT ![r] = "done"]
         /\ finished' \in [Reqs -> BOOLEAN]
         /\ UNCHANGED <<draining, up>>
<1> USE EngineAssumption
<1>1. EngineTypeOK /\ TablesAgree /\ RunsWithModel
  BY DEF EngineInv
<1>2. /\ active' = [i \in DOMAIN active \ {Id[r]} |-> active[i]]
      /\ tasks' = active'
      /\ task' = [task EXCEPT ![r] = "done"]
      /\ finished' = [finished EXCEPT ![r] = TRUE]
      /\ UNCHANGED <<draining, up>>
  <2>1. Without(active, {Id[r]}) = [i \in DOMAIN active \ {Id[r]} |-> active[i]]
    BY Zenon DEF Without, Restrict
  <2>2. QED BY <1>1, <2>1 DEF Ends, Popped, modeVars, TablesAgree
<1>3. ASSUME NEW q \in Reqs
      PROVE  task'[q] = "scheduled" <=> Id[q] \in DOMAIN active' /\ active'[Id[q]] = q
  BY <1>1, <1>2 DEF TablesAgree, EngineTypeOK
<1>4. TablesAgree'
  BY <1>1, <1>2, <1>3 DEF TablesAgree
<1>5. RunsWithModel'
  BY <1>1, <1>2 DEF RunsWithModel, EngineTypeOK
<1>6. QED BY <1>1, <1>2, <1>4, <1>5 DEF EngineTypeOK

(* What the model gives is put from its first token to STOP, as far as the *)
(* queue goes: a STOP in it follows an ending.                             *)
LEMMA RunRequestKeeps ==
  ASSUME EngineInv, NEW r \in Reqs, NEW n \in Nat, RunRequest(r, n)
  PROVE  /\ EngineInv' /\ StopDeserved(r)'
         /\ task'[r] # "none"
         /\ \A q \in Reqs \ {r} : task'[q] = task[q] /\ QueueKept(q)
         /\ \A q \in Reqs : cancelled[q] => cancelled'[q]
<1> USE EngineAssumption
<1> DEFINE fitting == IF Overflows(n) THEN QueueSize ELSE n
           given == [k \in 1..fitting |-> Token(k)]
           outputs == Put(Put(given, Final), STOP)
<1>1. /\ task[r] = "scheduled" /\ Ends(r)
      /\ queue' = [queue EXCEPT ![r] = outputs]
      /\ cancelled' = [cancelled EXCEPT ![r] = @ \/ Overflows(n)]
      /\ counted' = [counted EXCEPT ![r] = @ \o
           CASE n > QueueSize -> <<"cancelled", "finished">>
             [] n = QueueSize -> <<"finished", "cancelled">>
             [] OTHER -> <<"finished">>]
  BY DEF RunRequest
<1>2. EngineTypeOK /\ TablesAgree /\ OutcomeCountedOnce /\ Fresh
  BY DEF EngineInv
<1>3. ~cancelled[r] /\ counted[r] = << >>
  BY <1>1, <1>2 DEF Fresh
<1>4. given \in Seq(Outputs) /\ Len(given) = fitting /\ fitting \in Nat
      /\ \A k \in 1..fitting : given[k] = Token(k) /\ given[k] # STOP
  <2>1. fitting \in Nat
    OBVIOUS
  <2>2. \A k \in 1..fitting : Token(k) \in Outputs
    BY <2>1 DEF Outputs
  <2>3. given \in Seq(Outputs) /\ Len(given) = fitting
    BY <2>1, <2>2
  <2>4. QED BY <2>1, <2>3, Distinct
<1>5. /\ outputs \in Seq(Outputs)
      /\ \A k \in DOMAIN outputs : outputs[k] = STOP => Overflows(n) \/ (k > 1 /\ outputs[k - 1] = Final)
  <2>1. Final \in Outputs /\ STOP \in Outputs /\ Final # STOP
    BY Distinct DEF Outputs
  <2>2. CASE n + 1 < QueueSize
    <3>1. fitting = n /\ outputs = Append(Append(given, Final), STOP)
      BY <2>2, <2>1, <1>4 DEF Overflows, Put
    <3> HIDE DEF given, outputs, fitting
    <3>2. PICK q \in Seq(Outputs) : q = Append(given, Final)
      BY <2>1, <1>4, AppendFacts
    <3>3. Len(q) = n + 1 /\ q[n + 1] = Final /\ \A k \in 1..n : q[k] # STOP
      BY <3>1, <3>2, <2>1, <1>4
    <3>4. outputs \in Seq(Outputs) /\ Len(outputs) = n + 2 /\ \A k \in 1..n + 1 : outputs[k] = q[k]
      BY <3>1, <3>2, <3>3, <2>1
    <3>5. QED BY <3>3, <3>4, <2>1
  <2>3. CASE n + 1 = QueueSize
    <3>1. fitting = n /\ outputs = Append(given, Final)
      BY <2>3, <2>1, <1>4 DEF Overflows, Put
    <3> HIDE DEF given, outputs, fitting
    <3>2. outputs \in Seq(Outputs) /\ Len(outputs) = n + 1 /\ outputs[n + 1] = Final
          /\ \A k \in 1..n : outputs[k] # STOP
      BY <3>1, <2>1, <1>4
    <3>3. QED BY <3>2, <2>1
  <2>4. CASE n >= QueueSize
    <3>1. Overflows(n) /\ outputs = given
      BY <2>4, <2>1, <1>4 DEF Overflows, Put
    <3>2. QED BY <3>1, <1>4
  <2>5. QED BY <2>2, <2>3, <2>4
<1>6. queue'[r] = outputs /\ cancelled'[r] = Overflows(n) /\ task'[r] = "done"
  <2> HIDE DEF outputs
  <2>1. QED BY <1>1, <1>2, <1>3, EndsKeeps DEF EngineTypeOK, Overflows
<1>7. StopDeserved(r)'
  BY <1>5, <1>6, Distinct DEF StopDeserved
<1>8. /\ counted'[r] \in Seq({"finished", "failed", "cancelled"})
      /\ Len(counted'[r]) = IF Overflows(n) THEN 2 ELSE 1
  <2>1. CASE n > QueueSize
    <3>1. counted'[r] = << >> \o <<"cancelled", "finished">>
      BY <2>1, <1>1, <1>2, <1>3 DEF EngineTypeOK
    <3>2. QED BY <3>1, <2>1 DEF Overflows
  <2>2. CASE n = QueueSize
    <3>1. counted'[r] = << >> \o <<"finished", "cancelled">>
      BY <2>2, <1>1, <1>2, <1>3 DEF EngineTypeOK
    <3>2. QED BY <3>1, <2>2 DEF Overflows
  <2>3. CASE n < QueueSize
    <3>1. counted'[r] = << >> \o <<"finished">>
      BY <2>3, <1>1, <1>2, <1>3 DEF EngineTypeOK
    <3>2. QED BY <3>1, <2>3 DEF Overflows
  <2>4. QED BY <2>1, <2>2, <2>3
<1>9. EngineTypeOK'
  <2>1. task' \in [Reqs -> {"none", "scheduled", "cancelled", "done"}]
    BY <1>1, <1>2, EndsKeeps DEF EngineTypeOK
  <2>2. queue' \in [Reqs -> Seq(Outputs)]
    BY <1>1, <1>2, <1>5 DEF EngineTypeOK
  <2>3. cancelled' \in [Reqs -> BOOLEAN]
    BY <1>1, <1>2 DEF EngineTypeOK, Overflows
  <2>4. counted' \in [Reqs -> Seq({"finished", "failed", "cancelled"})]
    <3> DEFINE c == CASE n > QueueSize -> <<"cancelled", "finished">>
             [] n = QueueSize -> <<"finished", "cancelled">>
             [] OTHER -> <<"finished">>
    <3>1. counted' = [counted EXCEPT ![r] = counted[r] \o c]
      BY <1>1, Zenon
    <3>2. counted'[r] = counted[r] \o c
      BY <3>1, <1>2 DEF EngineTypeOK
    <3> HIDE DEF c
    <3>3. QED BY <3>1, <3>2, <1>2, <1>8 DEF EngineTypeOK
  <2>5. QED BY <1>1, <1>2, <2>1, <2>2, <2>3, <2>4, EndsKeeps DEF EngineTypeOK
<1>10. \A q \in Reqs \ {r} : /\ task'[q] = task[q] /\ queue'[q] = queue[q]
                             /\ cancelled'[q] = cancelled[q] /\ counted'[q] = counted[q]
  BY <1>1, <1>2, EndsKeeps DEF EngineTypeOK
<1>11. OutcomeCountedOnce'
  BY <1>2, <1>6, <1>8, <1>10 DEF OutcomeCountedOnce
<1>12. Fresh'
  BY <1>2, <1>6, <1>10 DEF Fresh
<1>13. QED BY <1>1, <1>3, <1>6, <1>7, <1>9, <1>10, <1>11, <1>12, EndsKeeps DEF EngineInv, QueueKept

(* A generation that raises ends with one error and STOP.                  *)
LEMMA RunFailsKeeps ==
  ASSUME EngineInv, NEW r \in Reqs, RunFails(r)
  PROVE  /\ EngineInv' /\ StopDeserved(r)'
         /\ task'[r] # "none"
         /\ \A q \in Reqs \ {r} : task'[q] = task[q] /\ QueueKept(q)
         /\ \A q \in Reqs : cancelled[q] => cancelled'[q]
<1> USE EngineAssumption
<1>1. /\ task[r] = "scheduled" /\ Ends(r)
      /\ queue' = [queue EXCEPT ![r] = ErrorAndStop]
      /\ counted' = [counted EXCEPT ![r] = Append(@, "failed")]
      /\ cancelled' = cancelled
  BY DEF RunFails
<1>2. EngineTypeOK /\ TablesAgree /\ OutcomeCountedOnce /\ Fresh
  BY DEF EngineInv
<1>3. ErrorAndStop = <<Error>> \/ ErrorAndStop = Append(<<Error>>, STOP)
  BY DEF ErrorAndStop, Put
<1>4. /\ ErrorAndStop \in Seq(Outputs)
      /\ \A k \in DOMAIN ErrorAndStop : ErrorAndStop[k] = STOP =>
           k > 1 /\ Ending(ErrorAndStop[k - 1])
  <2>1. <<Error>> \in Seq(Outputs) /\ Len(<<Error>>) = 1 /\ <<Error>>[1] = Error
        /\ DOMAIN <<Error>> = 1..1
        /\ Error \in Outputs /\ STOP \in Outputs
    BY DEF Outputs
  <2>2. /\ Append(<<Error>>, STOP) \in Seq(Outputs)
        /\ DOMAIN Append(<<Error>>, STOP) = 1..2 /\ Append(<<Error>>, STOP)[1] = Error
    BY <2>1, AppendFacts
  <2>3. /\ ErrorAndStop \in Seq(Outputs)
        /\ DOMAIN ErrorAndStop \subseteq 1..2 /\ ErrorAndStop[1] = Error
    <3>1. CASE ErrorAndStop = <<Error>>
      BY <3>1, <2>1
    <3>2. CASE ErrorAndStop = Append(<<Error>>, STOP)
      BY <3>2, <2>2
    <3>3. QED BY <1>3, <3>1, <3>2
  <2>4. QED BY <2>3, Distinct
<1>5. ~cancelled'[r] /\ counted'[r] = <<"failed">> /\ task'[r] = "done" /\ queue'[r] = ErrorAndStop
  BY <1>1, <1>2, EndsKeeps, FirstElement DEF Fresh, EngineTypeOK
<1>6. StopDeserved(r)'
  BY <1>4, <1>5 DEF StopDeserved
<1>7. EngineTypeOK'
  <2>1. counted' \in [Reqs -> Seq({"finished", "failed", "cancelled"})]
    BY <1>1, <1>2 DEF EngineTypeOK
  <2>2. queue' \in [Reqs -> Seq(Outputs)]
    BY <1>1, <1>2, <1>4 DEF EngineTypeOK
  <2>3. QED BY <1>1, <1>2, <2>1, <2>2, EndsKeeps DEF EngineTypeOK
<1>8. \A q \in Reqs \ {r} : /\ task'[q] = task[q] /\ queue'[q] = queue[q]
                            /\ cancelled'[q] = cancelled[q] /\ counted'[q] = counted[q]
  BY <1>1, <1>2, EndsKeeps DEF EngineTypeOK
<1>9. OutcomeCountedOnce'
  <2>1. Len(counted'[r]) = 1
    BY <1>5, FirstElement
  <2>2. QED BY <1>2, <1>5, <1>8, <2>1 DEF OutcomeCountedOnce
<1>10. Fresh'
  BY <1>2, <1>5, <1>8 DEF Fresh
<1>11. QED BY <1>1, <1>5, <1>6, <1>7, <1>8, <1>9, <1>10, EndsKeeps DEF EngineInv, QueueKept

(* A get takes the first output and touches nothing else of the engine.    *)
LEMMA TakeKeeps ==
  ASSUME EngineInv, NEW r \in Reqs, Take(r)
  PROVE  /\ EngineInv'
         /\ UNCHANGED <<task, cancelled>>
         /\ queue[r] # << >> /\ queue'[r] = Tail(queue[r])
         /\ \A q \in Reqs \ {r} : QueueKept(q)
<1>1. /\ queue[r] # << >>
      /\ queue' = [queue EXCEPT ![r] = Tail(@)]
      /\ UNCHANGED <<tableVars, task, cancelled, finished, counted, modeVars>>
  BY DEF Take
<1>2. queue \in [Reqs -> Seq(Outputs)] /\ Fresh
  BY DEF EngineInv, EngineTypeOK
<1>3. Tail(queue[r]) \in Seq(Outputs)
  BY <1>1, <1>2
<1>4. Fresh'
  BY <1>1, <1>2 DEF Fresh
<1>5. EngineTypeOK'
  BY <1>1, <1>2, <1>3 DEF EngineInv, EngineTypeOK, tableVars, modeVars
<1>6. TablesAgree' /\ RunsWithModel' /\ OutcomeCountedOnce'
  BY <1>1 DEF EngineInv, TablesAgree, RunsWithModel, OutcomeCountedOnce, tableVars, modeVars
<1>7. QED BY <1>1, <1>2, <1>4, <1>5, <1>6 DEF EngineInv, QueueKept

-----------------------------------------------------------------------------
(* The server                                                              *)

(* What other actors do leaves the stream of q as sound as it was.         *)
LEMMA StreamUndisturbed ==
  ASSUME ServerTypeOK, NEW q \in Reqs, StreamSoFar(q), QueueKept(q),
         http'[q] = http[q], item'[q] = item[q], seen'[q] = seen[q], gone[q] => gone'[q]
  PROVE  StreamSoFar(q)'
<1>1. Reading(q)' <=> Reading(q)
  BY DEF Reading
<1>2. StopDeserved(q) => StopDeserved(q)'
  BY FirstElement DEF StopDeserved, QueueKept
<1>3. AllPlain(q) => AllPlain(q)'
  BY DEF AllPlain
<1>4. EndingSent(q) => EndingSent(q)'
  BY DEF EndingSent
<1>5. StreamOver(q) => StreamOver(q)'
  BY DEF StreamOver, QueueKept
<1>6. QED BY <1>1, <1>2, <1>3, <1>4, <1>5 DEF StreamSoFar

(* A stream of plain events is not over.                                   *)
LEMMA PlainIsNotOver ==
  ASSUME NEW r \in Reqs, AllPlain(r)
  PROVE  StreamOver(r) /\ EndingSent(r)
BY DEF AllPlain, StreamOver, EndingSent, Plain

(* The handlers of other requests stand still in a step of r.              *)
OthersStand(r) ==
  /\ http' \in [Reqs -> {"new", "refused", "opened", "waiting", "checking", "sending", "closed"}]
  /\ \A q \in Reqs \ {r} : http'[q] = http[q] /\ item'[q] = item[q] /\ seen'[q] = seen[q]
                           /\ (gone[q] => gone'[q]) /\ QueueKept(q)

(* A step of the handler of r has to be examined for the stream of r only. *)
LEMMA OthersUndisturbed ==
  ASSUME IInv, NEW r \in Reqs, OthersStand(r), StreamSoFar(r)'
  PROVE  \A q \in Reqs : StreamSoFar(q)'
BY StreamUndisturbed DEF IInv, OthersStand

(* Closing a stream with a clean-up of the engine.                         *)
LEMMA CloseKeeps ==
  ASSUME IInv, NEW r \in Reqs, Bystander, Close(r), UNCHANGED <<seen, gone>>,
         http[r] # "new"
  PROVE  IInv'
<1>1. /\ http' = [http EXCEPT ![r] = "closed"] /\ item' = [item EXCEPT ![r] = None]
      /\ seen' = seen /\ gone' = gone
  BY DEF Close, At
<1>2. /\ EngineInv'
      /\ \A q \in Reqs : task'[q] = "none" <=> task[q] = "none"
      /\ \A q \in Reqs : QueueKept(q)
  BY BystanderKeeps DEF IInv
<1>3. ServerTypeOK' /\ OneTaskEach'
  BY <1>1, <1>2 DEF IInv, ServerTypeOK, OneTaskEach, Items
<1>4. StreamOver(r)'
  BY <1>1, <1>2 DEF IInv, StreamSoFar, StreamOver, QueueKept
<1>5. http'[r] = "closed"
  BY <1>1 DEF IInv, ServerTypeOK
<1>6. StreamSoFar(r)'
  BY <1>4, <1>5 DEF StreamSoFar, Reading
<1>7. OthersStand(r)
  BY <1>1, <1>2 DEF OthersStand, IInv, ServerTypeOK
<1>8. QED BY <1>2, <1>3, <1>6, <1>7, OthersUndisturbed DEF IInv

(* Sending the last output, or one that is not the last.                   *)
LEMMA YieldOutputKeeps ==
  ASSUME IInv, NEW r \in Reqs, http[r] = "checking", ~gone[r], Yield(r, item[r]),
         UNCHANGED <<engineVars, gone>>
  PROVE  IInv'
<1> DEFINE e == item[r]
<1>1. /\ item' = [item EXCEPT ![r] = e] /\ seen' = [seen EXCEPT ![r] = Append(@, e)]
      /\ http' = [http EXCEPT ![r] = "sending"] /\ gone' = gone
  BY DEF Yield, At
<1>2. /\ EngineInv'
      /\ \A q \in Reqs : task'[q] = "none" <=> task[q] = "none"
      /\ \A q \in Reqs : QueueKept(q)
  BY BystanderKeeps DEF IInv, Bystander
<1>3. ServerTypeOK /\ AllPlain(r) /\ e \in Outputs \ {STOP} /\ seen[r] \in Seq(Shown)
      /\ (Plain(e) => StopDeserved(r)) /\ e # DONE
  BY Distinct DEF IInv, StreamSoFar, ServerTypeOK, Reading
<1>4. /\ seen'[r] = Append(seen[r], e) /\ item'[r] = e /\ http'[r] = "sending" /\ ~gone'[r]
      /\ e \in Shown
  BY <1>1, <1>3 DEF ServerTypeOK, Shown
<1>5. /\ seen'[r] \in Seq(Shown) /\ Len(seen'[r]) = Len(seen[r]) + 1
      /\ DOMAIN seen'[r] = 1..Len(seen[r]) + 1
      /\ seen'[r][Len(seen[r]) + 1] = e
      /\ \A k \in 1..Len(seen[r]) : Plain(seen'[r][k])
  <2>1. DOMAIN seen[r] = 1..Len(seen[r]) /\ Len(seen[r]) \in Nat
    BY <1>3
  <2>2. \A k \in 1..Len(seen[r]) : Plain(seen[r][k])
    BY <1>3, <2>1 DEF AllPlain
  <2>3. QED BY <1>3, <1>4, <2>2, AppendFacts
<1>6. ServerTypeOK' /\ OneTaskEach'
  BY <1>1, <1>2, <1>3, <1>4, <1>5 DEF IInv, ServerTypeOK, OneTaskEach, Shown
<1>7. Len(seen[r]) \in Nat
  BY <1>3
<1>8. EndingSent(r)' /\ StreamOver(r)'
  BY <1>3, <1>5, <1>7 DEF EndingSent, StreamOver, Plain
<1>9. Ending(e) => seen'[r] # << >> /\ Ending(seen'[r][Len(seen'[r])])
  BY <1>5, <1>7
<1>10. Plain(e) => StopDeserved(r)' /\ AllPlain(r)'
  <2>1. StopDeserved(r) => StopDeserved(r)'
    BY DEF engineVars, requestVars, StopDeserved
  <2>2. QED BY <1>3, <1>5, <1>7, <2>1 DEF AllPlain
<1>11. StreamSoFar(r)'
  BY <1>4, <1>8, <1>9, <1>10 DEF StreamSoFar, Reading
<1>12. OthersStand(r)
  BY <1>1, <1>2 DEF OthersStand, IInv, ServerTypeOK
<1>13. QED BY <1>2, <1>6, <1>11, <1>12, OthersUndisturbed DEF IInv

(* [DONE] is sent when the stream may be over: after an ending, or for a   *)
(* request that was cancelled, or to nobody.                               *)
LEMMA YieldDoneKeeps ==
  ASSUME IInv, NEW r \in Reqs, http[r] \in {"waiting", "checking", "sending"},
         Bystander, Yield(r, DONE), UNCHANGED gone,
         gone[r] \/ \/ AllPlain(r) /\ cancelled[r]
                    \/ http[r] = "sending" /\ Ending(item[r])
  PROVE  IInv'
<1>1. /\ item' = [item EXCEPT ![r] = DONE]
      /\ seen' = [seen EXCEPT ![r] = IF gone[r] THEN @ ELSE Append(@, DONE)]
      /\ http' = [http EXCEPT ![r] = "sending"] /\ gone' = gone
  BY DEF Yield, At
<1>2. /\ EngineInv'
      /\ \A q \in Reqs : task'[q] = "none" <=> task[q] = "none"
      /\ \A q \in Reqs : QueueKept(q)
  BY BystanderKeeps DEF IInv
<1>3. ServerTypeOK /\ StreamSoFar(r) /\ seen[r] \in Seq(Shown) /\ Len(seen[r]) \in Nat
      /\ DOMAIN seen[r] = 1..Len(seen[r])
  BY DEF IInv, ServerTypeOK
<1>4. /\ seen'[r] = IF gone[r] THEN seen[r] ELSE Append(seen[r], DONE)
      /\ item'[r] = DONE /\ http'[r] = "sending" /\ DONE \in Shown
      /\ (cancelled[r] => cancelled'[r])
  BY <1>1, <1>2, <1>3 DEF ServerTypeOK, Shown, QueueKept
<1>5. seen'[r] \in Seq(Shown) /\ StreamOver(r)'
  <2>1. CASE gone[r]
    BY <2>1, <1>3, <1>4 DEF StreamSoFar, StreamOver
  <2>2. CASE ~gone[r]
    <3>1. /\ seen'[r] \in Seq(Shown) /\ Len(seen'[r]) = Len(seen[r]) + 1
          /\ DOMAIN seen'[r] = 1..Len(seen[r]) + 1
          /\ seen'[r][Len(seen[r]) + 1] = DONE
          /\ \A k \in 1..Len(seen[r]) : seen'[r][k] = seen[r][k]
      BY <2>2, <1>3, <1>4, AppendFacts
    <3>2. EndingSent(r)
          /\ (cancelled[r] \/ (seen[r] # << >> /\ Ending(seen[r][Len(seen[r])])))
      BY <2>2, <1>3, PlainIsNotOver DEF StreamSoFar
    <3>3. seen[r] # << >> => Len(seen[r]) > 0
      BY <1>3
    <3>4. QED BY <1>3, <1>4, <3>1, <3>2, <3>3, Distinct DEF EndingSent, StreamOver
  <2>3. QED BY <2>1, <2>2
<1>6. ServerTypeOK' /\ OneTaskEach'
  BY <1>1, <1>2, <1>3, <1>4, <1>5 DEF IInv, ServerTypeOK, OneTaskEach, Items
<1>7. StreamSoFar(r)'
  BY <1>4, <1>5, Distinct DEF StreamSoFar, Reading, Plain
<1>8. OthersStand(r)
  BY <1>1, <1>2 DEF OthersStand, IInv, ServerTypeOK
<1>9. QED BY <1>2, <1>6, <1>7, <1>8, OthersUndisturbed DEF IInv

(* The finally of a stream aborts by its id.                               *)
LEMMA CleanUpKeeps ==
  ASSUME IInv, NEW r \in Reqs, CleanUp(r), UNCHANGED gone, http[r] # "new"
  PROVE  IInv'
BY CloseKeeps DEF CleanUp, Bystander

(* The loop of a stream is left, and its finally runs.                     *)
LEMMA LeaveLoopKeeps ==
  ASSUME IInv, NEW r \in Reqs, http[r] \in {"waiting", "checking", "sending"},
         LeaveLoop(r), UNCHANGED gone,
         \/ AllPlain(r) /\ cancelled[r]
         \/ http[r] = "sending" /\ Ending(item[r])
  PROVE  IInv'
<1>1. CASE Kind[r] = "openai"
  BY <1>1, YieldDoneKeeps DEF LeaveLoop, Bystander
<1>2. CASE Kind[r] # "openai"
  BY <1>2, CleanUpKeeps DEF LeaveLoop
<1>3. QED BY <1>1, <1>2

(* A handler that moves on with what it has, and reads on later.           *)
LEMMA MoveKeeps ==
  ASSUME IInv, NEW r \in Reqs, UNCHANGED <<engineVars, item, seen, gone>>,
         \/ http[r] = "opened"
         \/ http[r] = "sending" /\ Plain(item[r]),
         At(r, "waiting")
  PROVE  IInv'
<1>1. http' = [http EXCEPT ![r] = "waiting"] /\ item' = item /\ seen' = seen /\ gone' = gone
  BY DEF At
<1>2. /\ EngineInv'
      /\ \A q \in Reqs : task'[q] = "none" <=> task[q] = "none"
      /\ \A q \in Reqs : QueueKept(q)
  BY BystanderKeeps DEF IInv, Bystander
<1>3. ServerTypeOK' /\ OneTaskEach'
  BY <1>1, <1>2 DEF IInv, ServerTypeOK, OneTaskEach
<1>4. StopDeserved(r) /\ AllPlain(r) /\ http'[r] = "waiting"
  BY <1>1 DEF IInv, ServerTypeOK, StreamSoFar, Reading
<1>5. StopDeserved(r)' /\ AllPlain(r)'
  BY <1>1, <1>4 DEF StopDeserved, AllPlain, engineVars, requestVars
<1>6. StreamSoFar(r)'
  BY <1>4, <1>5, PlainIsNotOver DEF StreamSoFar, AllPlain, StreamOver, Plain
<1>7. OthersStand(r)
  BY <1>1, <1>2 DEF OthersStand, IInv, ServerTypeOK
<1>8. QED BY <1>2, <1>3, <1>6, <1>7, OthersUndisturbed DEF IInv

(* An output that is taken off the queue is what the handler holds next.   *)
LEMMA TakenKeeps ==
  ASSUME IInv, NEW r \in Reqs, NEW place \in {"waiting", "checking"},
         http[r] = "waiting", Head(queue[r]) # STOP, Take(r),
         place = "waiting" => ~Ending(Head(queue[r])),
         http' = [http EXCEPT ![r] = place],
         item' = [item EXCEPT ![r] = Head(queue[r])],
         UNCHANGED <<seen, gone>>
  PROVE  IInv'
<1> DEFINE e == Head(queue[r])
<1>1. /\ EngineInv'
      /\ UNCHANGED <<task, cancelled>>
      /\ queue[r] # << >> /\ queue'[r] = Tail(queue[r])
      /\ \A q \in Reqs \ {r} : QueueKept(q)
  BY TakeKeeps DEF IInv
<1>2. queue[r] \in Seq(Outputs) /\ ServerTypeOK /\ StreamSoFar(r)
  BY DEF IInv, EngineInv, EngineTypeOK
<1>3. e = queue[r][1] /\ e \in Outputs \ {STOP} /\ 1 \in DOMAIN queue[r] /\ e # DONE
  BY <1>1, <1>2, Distinct
<1>4. http'[r] = place /\ item'[r] = e
  BY <1>2 DEF ServerTypeOK
<1>5. StopDeserved(r) /\ AllPlain(r) /\ AllPlain(r)'
  BY <1>2 DEF StreamSoFar, Reading, AllPlain
<1>6. ~Ending(e) => StopDeserved(r)'
  <2> SUFFICES ASSUME ~Ending(e), NEW k \in DOMAIN Tail(queue[r]), Tail(queue[r])[k] = STOP
               PROVE  cancelled[r] \/ (k > 1 /\ Ending(Tail(queue[r])[k - 1]))
    BY <1>1 DEF StopDeserved
  <2>1. k \in 1..Len(queue[r]) - 1 /\ queue[r][k + 1] = STOP /\ k + 1 \in DOMAIN queue[r]
    BY <1>1, <1>2
  <2>2. cancelled[r] \/ Ending(queue[r][k])
    BY <2>1, <1>5 DEF StopDeserved
  <2>3. k > 1 => Tail(queue[r])[k - 1] = queue[r][k]
    BY <2>1, <1>1, <1>2
  <2>4. k = 1 => queue[r][k] = e
    BY <1>3
  <2>5. QED BY <2>1, <2>2, <2>3, <2>4
<1>7. ServerTypeOK' /\ OneTaskEach'
  BY <1>1, <1>2, <1>3 DEF IInv, ServerTypeOK, OneTaskEach, Items
<1>8. StreamSoFar(r)'
  <2>1. StreamOver(r)'
    BY <1>5 DEF StreamOver, AllPlain, Plain
  <2>2. QED BY <1>3, <1>4, <1>5, <1>6, <2>1 DEF StreamSoFar, Reading, Plain
<1>9. OthersStand(r)
  BY <1>1, <1>2 DEF OthersStand, ServerTypeOK
<1>10. QED BY <1>1, <1>7, <1>8, <1>9, OthersUndisturbed DEF IInv

(* An answer in one piece is the only thing its client gets.               *)
LEMMA AnswerKeeps ==
  ASSUME IInv, NEW r \in Reqs, NEW e \in Items, http[r] = "waiting",
         Take(r) \/ UNCHANGED engineVars, Close(r),
         seen' = [seen EXCEPT ![r] = <<Body(r, e)>>], UNCHANGED gone
  PROVE  IInv'
<1>1. http' = [http EXCEPT ![r] = "closed"] /\ item' = [item EXCEPT ![r] = None]
  BY DEF Close, At
<1>2. /\ EngineInv'
      /\ \A q \in Reqs : task'[q] = "none" <=> task[q] = "none"
      /\ \A q \in Reqs \ {r} : QueueKept(q)
  <2>1. CASE Take(r)
    BY <2>1, TakeKeeps DEF IInv
  <2>2. CASE UNCHANGED engineVars
    BY <2>2, BystanderKeeps DEF IInv, Bystander
  <2>3. QED BY <2>1, <2>2
<1>3. ServerTypeOK
  BY DEF IInv
<1>4. http'[r] = "closed" /\ seen'[r] = <<Body(r, e)>>
  BY <1>1, <1>3 DEF ServerTypeOK
<1>5. Body(r, e) \in Shown /\ Body(r, e) # DONE /\ ~Ending(Body(r, e))
  BY Distinct DEF Body, Shown, Ending
<1>6. ServerTypeOK' /\ OneTaskEach'
  <2>1. <<Body(r, e)>> \in Seq(Shown)
    BY <1>5
  <2>2. QED BY <1>1, <1>2, <1>3, <2>1 DEF IInv, ServerTypeOK, OneTaskEach, Items
<1>7. StreamOver(r)'
  <2>1. DOMAIN <<Body(r, e)>> = 1..1
    OBVIOUS
  <2>2. \A k \in DOMAIN seen'[r] : seen'[r][k] = Body(r, e)
    BY <1>4, <2>1, FirstElement
  <2>3. QED BY <1>5, <2>2 DEF StreamOver
<1>8. StreamSoFar(r)'
  BY <1>4, <1>7 DEF StreamSoFar, Reading
<1>9. OthersStand(r)
  BY <1>1, <1>2, <1>3 DEF OthersStand, ServerTypeOK
<1>10. QED BY <1>2, <1>6, <1>8, <1>9, OthersUndisturbed DEF IInv

-----------------------------------------------------------------------------
(* One lemma for each part of Next                                         *)

(* What a client does before its handler runs, and when it leaves. *)
LEMMA ClientKeeps ==
  ASSUME IInv, NEW r \in Reqs, Client(r)
  PROVE  IInv'
<1>1. ServerTypeOK /\ StreamSoFar(r) /\ EngineInv /\ OneTaskEach
  BY DEF IInv
<1>2. ASSUME http[r] = "new", NEW place \in {"refused", "opened", "waiting"}, At(r, place),
             EngineInv', UNCHANGED <<item, seen, gone>>, \A q \in Reqs : QueueKept(q),
             \A q \in Reqs \ {r} : task'[q] = "none" <=> task[q] = "none"
      PROVE  IInv'
  <2>1. http' = [http EXCEPT ![r] = place] /\ item' = item /\ seen' = seen /\ gone' = gone
    BY <1>2 DEF At
  <2>2. ServerTypeOK' /\ OneTaskEach'
    BY <1>1, <1>2, <2>1 DEF ServerTypeOK, OneTaskEach
  <2>3. StopDeserved(r) /\ AllPlain(r) /\ http'[r] = place
    BY <1>1, <1>2, <2>1 DEF ServerTypeOK, StreamSoFar, Reading
  <2>4. StopDeserved(r)'
    BY <1>2, <2>3, FirstElement DEF StopDeserved, QueueKept
  <2>5. AllPlain(r)' /\ StreamOver(r)'
    BY <2>1, <2>3 DEF AllPlain, StreamOver, Plain
  <2>6. StreamSoFar(r)'
    BY <2>3, <2>4, <2>5 DEF StreamSoFar, Reading
  <2>7. OthersStand(r)
    BY <1>1, <1>2, <2>1 DEF OthersStand, ServerTypeOK
  <2>8. QED BY <1>2, <2>2, <2>6, <2>7, OthersUndisturbed DEF IInv
<1>3. CASE Refuse(r)
  <2>1. Bystander /\ http[r] = "new" /\ At(r, "refused") /\ UNCHANGED <<item, seen, gone>>
    BY <1>3 DEF Refuse, Bystander
  <2>2. QED BY <1>1, <1>2, <2>1, BystanderKeeps
<1>4. CASE Accept(r)
  <2> DEFINE place == IF Streaming(r) THEN "opened" ELSE "waiting"
  <2>1. http[r] = "new" /\ AddRequest(r) /\ At(r, place) /\ UNCHANGED <<item, seen, gone>>
        /\ task[r] = "none"
    BY <1>1, <1>4 DEF Accept, OneTaskEach
  <2>2. /\ EngineInv'
        /\ \A q \in Reqs \ {r} : task'[q] = task[q]
        /\ \A q \in Reqs : QueueKept(q)
    BY <1>1, <2>1, AddRequestKeeps DEF QueueKept
  <2>3. QED BY <1>2, <2>1, <2>2
<1>5. CASE Leave(r)
  <2>1. /\ gone' = [gone EXCEPT ![r] = TRUE]
        /\ UNCHANGED <<engineVars, http, item, seen>>
    BY <1>5 DEF Leave
  <2>2. EngineInv' /\ \A q \in Reqs : QueueKept(q) /\ task'[q] = task[q]
    BY <1>1, <2>1, BystanderKeeps DEF Bystander, engineVars, requestVars
  <2>3. ServerTypeOK' /\ OneTaskEach'
    BY <1>1, <2>1, <2>2 DEF ServerTypeOK, OneTaskEach
  <2>4. \A q \in Reqs : gone[q] => gone'[q]
    BY <1>1, <2>1 DEF ServerTypeOK
  <2>5. \A q \in Reqs : StreamSoFar(q)'
    BY <2>1, <2>2, <2>4, StreamUndisturbed DEF IInv
  <2>6. QED BY <2>2, <2>3, <2>5 DEF IInv
<1>6. QED BY <1>3, <1>4, <1>5 DEF Client

(* The task of a request.                                                  *)
LEMMA RunKeeps ==
  ASSUME IInv, NEW r \in Reqs, Run(r)
  PROVE  IInv'
<1> USE EngineAssumption
<1>1. ServerTypeOK /\ StreamSoFar(r) /\ EngineInv /\ OneTaskEach
  BY DEF IInv
<1>2. /\ EngineInv' /\ StopDeserved(r)' /\ task'[r] # "none"
      /\ \A q \in Reqs \ {r} : task'[q] = task[q] /\ QueueKept(q)
      /\ \A q \in Reqs : cancelled[q] => cancelled'[q]
  <2>1. ASSUME NEW n \in Lengths[r], RunRequest(r, n) PROVE n \in Nat
    OBVIOUS
  <2>2. QED BY <1>1, <2>1, RunRequestKeeps, RunFailsKeeps DEF Run
<1>3. UNCHANGED <<http, item, seen, gone>>
  BY DEF Run, httpVars
<1>4. task[r] = "scheduled" /\ http[r] # "new"
  BY <1>1 DEF Run, RunRequest, RunFails, OneTaskEach
<1>5. ServerTypeOK' /\ OneTaskEach'
  BY <1>1, <1>2, <1>3, <1>4 DEF ServerTypeOK, OneTaskEach
<1>6. StreamSoFar(r)'
  BY <1>1, <1>2, <1>3 DEF StreamSoFar, StreamOver, AllPlain, EndingSent, Reading
<1>7. OthersStand(r)
  BY <1>1, <1>2, <1>3 DEF OthersStand, ServerTypeOK
<1>8. QED BY <1>2, <1>5, <1>6, <1>7, OthersUndisturbed DEF IInv

(* A handler takes, checks, sends or ends.                                 *)
LEMMA HandlerKeeps ==
  ASSUME IInv, NEW r \in Reqs, Handler(r)
  PROVE  IInv'
<1>1. ServerTypeOK /\ StreamSoFar(r) /\ queue[r] \in Seq(Outputs) /\ item[r] \in Items
  BY DEF IInv, EngineInv, EngineTypeOK, ServerTypeOK
<1>2. queue[r] # << >> => Head(queue[r]) = queue[r][1] /\ 1 \in DOMAIN queue[r]
                          /\ Head(queue[r]) \in Outputs
  BY <1>1
<1>3. CASE Open(r)
  BY <1>3, MoveKeeps DEF Open
<1>4. CASE TakeOutput(r)
  BY <1>4, TakenKeeps DEF TakeOutput, At
<1>5. CASE TakeStop(r)
  <2>1. AllPlain(r) /\ cancelled[r]
    BY <1>1, <1>2, <1>5 DEF TakeStop, StreamSoFar, Reading, StopDeserved
  <2>2. QED BY <1>5, <2>1, LeaveLoopKeeps DEF TakeStop
<1>6. CASE CheckConnected(r)
  <2>1. CASE ~gone[r] /\ Yield(r, item[r]) /\ UNCHANGED engineVars
    BY <1>6, <2>1, YieldOutputKeeps DEF CheckConnected
  <2>2. CASE gone[r] /\ Kind[r] = "openai" /\ Abort(Id[r]) /\ Yield(r, DONE)
    BY <1>6, <2>2, YieldDoneKeeps DEF CheckConnected, Bystander
  <2>3. CASE gone[r] /\ Kind[r] = "simple" /\ CleanUp(r)
    BY <1>6, <2>3, CleanUpKeeps DEF CheckConnected
  <2>4. QED BY <1>6, <2>1, <2>2, <2>3 DEF CheckConnected
<1>7. CASE Sent(r)
  <2>1. CASE item[r] = DONE /\ CleanUp(r)
    BY <1>7, <2>1, CleanUpKeeps DEF Sent
  <2>2. CASE item[r] # DONE /\ Last(item[r]) /\ LeaveLoop(r)
    BY <1>7, <2>2, LeaveLoopKeeps DEF Sent, Last
  <2>3. CASE /\ item[r] # DONE /\ ~Last(item[r]) /\ At(r, "waiting")
             /\ UNCHANGED <<engineVars, item, seen>>
    BY <1>7, <2>3, MoveKeeps DEF Sent, Last, Plain
  <2>4. QED BY <1>7, <2>1, <2>2, <2>3 DEF Sent
<1>8. CASE Drop(r)
  BY <1>8, CloseKeeps DEF Drop, Bystander
<1>9. CASE Collect(r)
  <2>1. CASE Last(Head(queue[r]))
    <3>1. Head(queue[r]) \in Items
      BY <1>2, <1>9 DEF Collect, Items
    <3>2. QED BY <1>9, <2>1, <3>1, AnswerKeeps DEF Collect
  <2>2. CASE ~Last(Head(queue[r]))
    <3>1. http' = [http EXCEPT ![r] = "waiting"]
      BY <1>1, <1>9, <2>2 DEF Collect, ServerTypeOK
    <3>2. QED BY <1>9, <2>2, <3>1, TakenKeeps DEF Collect, Last
  <2>3. QED BY <2>1, <2>2
<1>10. CASE CollectStop(r)
  BY <1>1, <1>10, AnswerKeeps DEF CollectStop
<1>11. QED BY <1>3, <1>4, <1>5, <1>6, <1>7, <1>8, <1>9, <1>10 DEF Handler

(* Cancellations, operators and stuttering leave every handler in place.   *)
LEMMA EnvironmentKeeps ==
  ASSUME IInv, (\E i \in Cancelling : Cancel(i)) \/ Admin \/ UNCHANGED vars
  PROVE  IInv'
<1>1. Bystander /\ UNCHANGED <<http, item, seen, gone>>
  BY DEF Cancel, Admin, vars, httpVars, Bystander
<1>2. /\ EngineInv'
      /\ \A q \in Reqs : task'[q] = "none" <=> task[q] = "none"
      /\ \A q \in Reqs : QueueKept(q)
  BY <1>1, BystanderKeeps DEF IInv
<1>3. ServerTypeOK' /\ OneTaskEach'
  BY <1>1, <1>2 DEF IInv, ServerTypeOK, OneTaskEach
<1>4. \A q \in Reqs : StreamSoFar(q)'
  BY <1>1, <1>2, StreamUndisturbed DEF IInv
<1>5. QED BY <1>2, <1>3, <1>4 DEF IInv

(* The invariant holds at first.                                           *)
LEMMA InitEstablishes == Init => IInv
<1> SUFFICES ASSUME Init PROVE IInv
  OBVIOUS
<1> USE EngineAssumption DEF Init, EngineInit
<1>1. << >> \in Seq(Outputs) /\ << >> \in Seq(Shown) /\ Len(<< >>) = 0 /\ DOMAIN << >> = {}
      /\ << >> \in Seq({"finished", "failed", "cancelled"})
  OBVIOUS
<1>2. EngineTypeOK
  <2>1. << >> \in Seq(Reqs)
    OBVIOUS
  <2>2. << >> \in [1..0 -> Reqs]
    BY <2>1
  <2>3. active \in [DOMAIN active -> Reqs]
    BY <1>1, <2>2
  <2>4. QED BY <1>1, <2>3 DEF EngineTypeOK
<1>3. TablesAgree /\ RunsWithModel /\ OutcomeCountedOnce /\ Fresh
  BY <1>1 DEF TablesAgree, RunsWithModel, OutcomeCountedOnce, Fresh
<1>4. ServerTypeOK /\ OneTaskEach
  BY <1>1 DEF ServerTypeOK, OneTaskEach, Items
<1>5. \A r \in Reqs : StreamSoFar(r)
  BY <1>1 DEF StreamSoFar, Reading, StopDeserved, AllPlain, StreamOver
<1>6. QED BY <1>2, <1>3, <1>4, <1>5 DEF IInv, EngineInv

(* The invariant is inductive.                                             *)
THEOREM Invariance == Spec => []IInv
<1>1. Init => IInv
  BY InitEstablishes
<1>2. IInv /\ [Next]_vars => IInv'
  BY ClientKeeps, RunKeeps, HandlerKeeps, EnvironmentKeeps DEF Next
<1>3. QED BY <1>1, <1>2, PTL DEF Spec

-----------------------------------------------------------------------------
(* What follows                                                            *)

(* The engine's tables and queues, and the handlers' states, keep their    *)
(* types (hf_auto_engine.py, HFAutoRequest; api_server.py).                *)
THEOREM TypeCorrect == Spec => []TypeOK
<1>1. IInv => TypeOK
  BY DEF IInv, EngineInv, TypeOK
<1>2. QED BY <1>1, Invariance, PTL

(* The two tables of the engine name exactly the requests whose tasks are  *)
(* still to run, each under its own id, so that no pop or abort by id      *)
(* (hf_auto_engine.py:216, 357) hits a newer request from inside.          *)
THEOREM TablesAlwaysAgree == Spec => []TablesAgree
<1>1. IInv => TablesAgree
  BY DEF IInv, EngineInv
<1>2. QED BY <1>1, Invariance, PTL

(* A task that is to run will find the model (hf_auto_engine.py:284).      *)
THEOREM TasksRunWithModel == Spec => []RunsWithModel
<1>1. IInv => RunsWithModel
  BY DEF IInv, EngineInv
<1>2. QED BY <1>1, Invariance, PTL

(* Every request that ends is counted once, and one that overflows its     *)
(* queue twice (hf_auto_engine.py:303-345).                                *)
THEOREM OutcomesAreCounted == Spec => []OutcomeCountedOnce
<1>1. IInv => OutcomeCountedOnce
  BY DEF IInv, EngineInv
<1>2. QED BY <1>1, Invariance, PTL

(* A stream that says [DONE] is over: its last output went before, or its  *)
(* request was cancelled (api_server.py:410, 492).                         *)
THEOREM DoneIsTheEnd == Spec => []DoneMeansOver
<1>1. IInv => DoneMeansOver
  BY DEF IInv, StreamSoFar, StreamOver, DoneMeansOver
<1>2. QED BY <1>1, Invariance, PTL
=============================================================================
