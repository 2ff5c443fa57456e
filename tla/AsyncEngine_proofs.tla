-------------------------- MODULE AsyncEngine_proofs --------------------------
(***************************************************************************)
(* Theorems about AsyncEngine, for any clients, ids, priorities, budgets   *)
(* and queue size.                                                         *)
(*                                                                         *)
(* What concerns the requests alone (their places, ends, budgets and       *)
(* order) does not depend on how the loops and operators take turns, and   *)
(* is proved without restriction, in RequestsInv.  What concerns the       *)
(* engine and its tokens needs that one loop works at a time, in LoopInv,  *)
(* which a racing restart breaks: those theorems assume ~Racing.           *)
(***************************************************************************)
EXTENDS AsyncEngine, Queues_proofs, FunctionTheorems, TLAPS

-----------------------------------------------------------------------------
(***************************************************************************)
(* The inductive invariant                                                 *)
(***************************************************************************)
(* What the engine puts out, and what a queue may hold.                    *)
Outputs == {"token", "final"} \X Nat
Events == Outputs \cup {STOP, Timeout, Error}

(* How a stream may stand, and what may be counted.                        *)
Streams == {"new", "open", "left", "stop", "final", "timeout", "error"}
Outcomes == {"finished", "timed_out", "failed", "cancelled"}

(* Where a loop may be: the stages that keep the event loop are the rest.  *)
Stages == Suspended \cup {"top", "drain", "admit", "step", "deliver"}

(* Types: of the two tables, of what is kept for each request, of the rest.*)
TableTypeOK ==
  /\ pending \in Seq(Reqs) /\ IsInjective(pending)
  /\ DOMAIN pendingById \subseteq Ids /\ DOMAIN active \subseteq Ids
  /\ pendingById \in [DOMAIN pendingById -> Reqs]
  /\ active \in [DOMAIN active -> Reqs]
  /\ IsFiniteSet(Range(active))

RecordTypeOK ==
  /\ queue \in [Reqs -> Seq(Events)]
  /\ cancelled \in [Reqs -> BOOLEAN] /\ finished \in [Reqs -> BOOLEAN]
  /\ counted \in [Reqs -> Seq(Outcomes)]
  /\ stream \in [Reqs -> Streams] /\ got \in [Reqs -> Nat]
  /\ outs \in [Loops -> Seq(Ids \X Outputs)]

RequestTypeOK == TableTypeOK /\ RecordTypeOK

LoopTypeOK ==
  /\ DOMAIN engine \subseteq Reqs /\ IsFiniteSet(DOMAIN engine)
  /\ engine \in [DOMAIN engine -> Nat \cup {-1}]
  /\ up \in BOOLEAN /\ fatal \in BOOLEAN /\ draining \in BOOLEAN /\ shutdown \in BOOLEAN
  /\ task \in Loops \cup {0}
  /\ loop \in [Loops -> Stages]
  /\ oper \in [Operators -> {"none", "restart", "shutdown"} \X (Loops \cup {0})]

TypeOK == RequestTypeOK /\ LoopTypeOK

(* The requests that are still to end.                                     *)
Waiting == ToSet(pending)
Running == Range(active)
Alive == Waiting \cup Running

(* The two tables hold what their ids say.                                 *)
TablesInv ==
  /\ Waiting = Range(pendingById)
  /\ DOMAIN pendingById \cap DOMAIN active = {}
  /\ \A i \in DOMAIN pendingById : Id[pendingById[i]] = i
  /\ \A i \in DOMAIN active : Id[active[i]] = i

(* What is counted for a request whose stream ends, or has in its queue,   *)
(* an event of some kind.                                                  *)
EndedAs(r, kind) ==
  /\ kind = "final" => counted[r] = <<"finished">>
  /\ kind = "timeout" => counted[r] = <<"timed_out">>
  /\ kind = "error" => counted[r] = <<"failed">>
  /\ kind # "token" => counted[r] # << >>

(* A request has ended exactly when it is in neither table; its queue      *)
(* holds tokens until then, and later something that ends the stream.      *)
OutcomeInv(r) ==
  /\ stream[r] = "new" \/ r \in Waiting => queue[r] = << >> /\ got[r] = 0
  /\ stream[r] = "new" => counted[r] = << >>
  /\ stream[r] # "new" /\ counted[r] = << >> <=> r \in Alive
  /\ finished[r] = (counted[r] # << >>)
  /\ cancelled[r] => counted[r] # << >>
  /\ Len(counted[r]) > 1 =>
       counted[r] \in {<<"timed_out", "cancelled">>, <<"failed", "cancelled">>}
  /\ \A k \in DOMAIN queue[r] : EndedAs(r, queue[r][k][1])
  /\ stream[r] \notin {"new", "open"} => EndedAs(r, stream[r])
  /\ stream[r] = "open" /\ finished[r] => \E k \in DOMAIN queue[r] : queue[r][k][1] # "token"

(* The pending requests come by descending priority.                       *)
ByPriority(p) == \A k, l \in DOMAIN p : k < l => Priority[p[k]] >= Priority[p[l]]

(* What holds of the requests however loops and operators take turns.      *)
RequestsInv ==
  /\ TypeOK
  /\ TablesInv
  /\ \A r \in Reqs : OutcomeInv(r)
  /\ BudgetsHold
  /\ ByPriority(pending)

(* Nobody but the loop of `task' works, and it does so on an engine that   *)
(* has not failed.                                                         *)
AllDone == \A t \in Loops : loop[t] = "done"
OneLoop ==
  /\ \A t \in Loops : loop[t] # "done" => t = task /\ up /\ ~fatal
  /\ \A t \in Loops : outs[t] # << >> => loop[t] \in {"deliver", "out"}
  /\ fatal => DOMAIN active = {}

(* While an operator waits for the loop, that loop admits nobody and ends  *)
(* at its next turn.                                                       *)
Parting == {"done", "new", "idle", "out", "deliver", "top"}
OperatorInv ==
  \A o \in Operators : oper[o][1] # "none" =>
    /\ \A p \in Operators : oper[p][1] # "none" => p = o
    /\ oper[o][2] \in {0, task} /\ (oper[o][2] = 0 => AllDone)
    /\ shutdown /\ DOMAIN active = {}
    /\ \A t \in Loops : loop[t] \in Parting
    /\ oper[o][1] = "shutdown" => \A r \in Reqs : stream[r] # "open"

LoopInv == OneLoop /\ OperatorInv

(* The engine has put out for r what its consumer has received or has in   *)
(* the queue;                                                              *)
Delivered(r) == got[r] + Len(queue[r])
Settled(r) ==
  /\ r \in DOMAIN engine
  /\ engine[r] = Delivered(r) \/ (engine[r] = -1 /\ Delivered(r) = 0)

(* or one output more, e, which a loop has still to deliver.               *)
InHand(r, e) ==
  /\ MaxTokens[r] > 0 => e[2] = Delivered(r) + 1
  /\ e[1] = "token" => r \in DOMAIN engine /\ engine[r] = e[2] /\ MaxTokens[r] > 0
  /\ e[1] = "final" => r \notin DOMAIN engine
OnTheWay(t, k, r) == k \in DOMAIN outs[t] /\ outs[t][k][1] = Id[r]
ProgressInv(r) ==
  /\ Settled(r) \/ \E t \in Loops : \E k \in DOMAIN outs[t] : OnTheWay(t, k, r)
  /\ \A t \in Loops : \A k \in DOMAIN outs[t] : OnTheWay(t, k, r) =>
       /\ InHand(r, outs[t][k][2])
       /\ \A s \in Loops : \A l \in DOMAIN outs[s] : OnTheWay(s, l, r) => s = t /\ l = k

(* The engine works for the active requests only, and their outputs keep   *)
(* their order on the way to the consumers.                                *)
TokensInv ==
  /\ ~fatal => DOMAIN engine \subseteq Running
  /\ \A r \in Running : ProgressInv(r)
  /\ TokensInOrder

IInv == RequestsInv /\ LoopInv /\ TokensInv

-----------------------------------------------------------------------------
(* Events and queues                                                       *)

(* The constants that the proofs need, in the form they need them.         *)
LEMMA Constants ==
  /\ Id \in [Reqs -> Ids] /\ Priority \in [Reqs -> Int]
  /\ PromptTokens \in [Reqs -> Nat] /\ MaxTokens \in [Reqs -> Nat]
  /\ Estimated \in [Reqs -> Nat]
  /\ QueueSize \in Nat /\ QueueSize >= 1
  /\ Loops \in SUBSET Nat /\ 1 \in Loops /\ 0 \notin Loops
  /\ {MaxPending, MaxPendingPerNs, MaxPendingPrompt, MaxActive, MaxActivePerNs,
      MaxActiveTokens, MaxActiveTokensPerNs} \subseteq Nat
<1>1. \A r \in Reqs : PromptTokens[r] \in Nat /\ MaxTokens[r] \in Nat
  BY RequestsAssumption
<1>2. Estimated \in [Reqs -> Nat] /\ PromptTokens \in [Reqs -> Nat]
  BY <1>1, RequestsAssumption DEF Estimated
<1>3. QED
  BY <1>2, RequestsAssumption, LimitsAssumption

(* Events are told apart by their kinds.                                   *)
LEMMA Kinds ==
  /\ \A e \in Events : e[1] \in {"token", "final", "stop", "timeout", "error"}
  /\ \A e \in Outputs : e[1] \in {"token", "final"} /\ e[2] \in Nat
  /\ \A n \in Nat : Token(n) \in Outputs /\ Token(n)[1] = "token" /\ Token(n)[2] = n
  /\ \A n \in Nat : Final(n) \in Outputs /\ Final(n)[1] = "final" /\ Final(n)[2] = n
  /\ STOP \in Events /\ STOP[1] = "stop"
  /\ Timeout \in Events /\ Timeout[1] = "timeout"
  /\ Error \in Events /\ Error[1] = "error"
  /\ Outputs \subseteq Events
<1>1. \A e \in Outputs : e[1] \in {"token", "final"} /\ e[2] \in Nat
  BY DEF Outputs
<1>2. STOP[1] = "stop" /\ Timeout[1] = "timeout" /\ Error[1] = "error"
  BY DEF STOP, Timeout, Error
<1>3. \A n \in Nat : /\ Token(n) \in Outputs /\ Token(n)[1] = "token" /\ Token(n)[2] = n
                     /\ Final(n) \in Outputs /\ Final(n)[1] = "final" /\ Final(n)[2] = n
  BY DEF Outputs, Token, Final
<1>4. /\ STOP \in Events /\ Timeout \in Events /\ Error \in Events /\ Outputs \subseteq Events
      /\ \A e \in Events : e \in Outputs \/ e = STOP \/ e = Timeout \/ e = Error
  BY DEF Events
<1>5. QED
  BY <1>1, <1>2, <1>3, <1>4

(* q becomes a queue that the consumer finds closed: of what it held at    *)
(* most a beginning is left, then comes the last event, if at all.         *)
Closes(q, p, e) ==
  /\ p \in Seq(Events)
  /\ \A k \in DOMAIN p :
       \/ p[k] = STOP
       \/ k \in DOMAIN q /\ p[k] = q[k]
       \/ k = Len(q) + 1 /\ p[k] = e
  /\ \E k \in DOMAIN p : p[k] = STOP

(* An event at the end of a queue.                                         *)
LEMMA AppendFacts ==
  ASSUME NEW q \in Seq(Events), NEW e \in Events
  PROVE  /\ Append(q, e) \in Seq(Events)
         /\ DOMAIN q = 1..Len(q) /\ Len(q) \in Nat
         /\ DOMAIN Append(q, e) = 1..Len(q) + 1 /\ Len(Append(q, e)) = Len(q) + 1
         /\ \A k \in 1..Len(q) : Append(q, e)[k] = q[k]
         /\ Append(q, e)[Len(q) + 1] = e
BY LenProperties, AppendProperties

(* STOP alone.                                                             *)
LEMMA StopAlone ==
  <<STOP>> \in Seq(Events) /\ DOMAIN <<STOP>> = 1..1 /\ <<STOP>>[1] = STOP /\ Len(<<STOP>>) = 1
BY Kinds

(* _put_or_drop(STOP).                                                     *)
LEMMA StoppedCloses ==
  ASSUME NEW q \in Seq(Events), NEW e
  PROVE  Closes(q, Stopped(q), e)
<1>1. CASE Len(q) < QueueSize
  <2>1. Stopped(q) = Append(q, STOP)
    BY <1>1 DEF Stopped
  <2> QED
    BY <2>1, Kinds, AppendFacts DEF Closes
<1>2. CASE ~(Len(q) < QueueSize)
  <2>1. Stopped(q) = <<STOP>>
    BY <1>2 DEF Stopped
  <2> QED
    BY <2>1, StopAlone DEF Closes
<1>3. QED
  BY <1>1, <1>2

(* _put_or_drop of a last event, then of STOP.                             *)
LEMMA ClosedCloses ==
  ASSUME NEW q \in Seq(Events), NEW e \in Events
  PROVE  /\ Closes(q, Closed(q, e), e)
         /\ ~(Len(q) < QueueSize) => Closes(q, Closed(q, e), STOP)
<1>1. CASE Len(q) < QueueSize
  <2> DEFINE a == Append(q, e)
             p == Stopped(a)
  <2>1. Closed(q, e) = p
    BY <1>1 DEF Closed
  <2>2. /\ a \in Seq(Events) /\ DOMAIN a = 1..Len(q) + 1 /\ Len(q) \in Nat
        /\ DOMAIN q = 1..Len(q)
        /\ \A k \in 1..Len(q) : a[k] = q[k]
        /\ a[Len(q) + 1] = e
    BY AppendFacts
  <2> HIDE DEF a
  <2>3. Closes(a, p, STOP)
    BY <2>2, StoppedCloses
  <2> HIDE DEF p
  <2>4. \A k \in DOMAIN p : p[k] = STOP \/ (k \in 1..Len(q) + 1 /\ p[k] = a[k])
    BY <2>2, <2>3 DEF Closes
  <2>5. Closes(q, p, e)
    BY <2>2, <2>3, <2>4 DEF Closes
  <2> QED
    BY <1>1, <2>1, <2>5
<1>2. CASE ~(Len(q) < QueueSize)
  <2>1. Closed(q, e) = Stopped(Stopped(q)) /\ Stopped(q) = <<STOP>>
    BY <1>2 DEF Closed, Stopped
  <2> DEFINE a == <<STOP>>
             p == Stopped(a)
  <2>2. a \in Seq(Events) /\ DOMAIN a = 1..1 /\ a[1] = STOP
    BY StopAlone
  <2> HIDE DEF a
  <2>3. Closes(a, p, STOP)
    BY <2>2, StoppedCloses
  <2> HIDE DEF p
  <2>4. p \in Seq(Events) /\ (\A k \in DOMAIN p : p[k] = STOP) /\ \E k \in DOMAIN p : p[k] = STOP
    BY <2>2, <2>3, LenProperties DEF Closes
  <2>5. Closed(q, e) = p
    BY <2>1 DEF p, a
  <2> QED
    BY <2>4, <2>5 DEF Closes
<1>3. QED
  BY <1>1, <1>2

-----------------------------------------------------------------------------
(* What may happen to one request                                          *)

(* Nothing;                                                                *)
RequestStays(r) ==
  /\ queue'[r] = queue[r] /\ cancelled'[r] = cancelled[r] /\ finished'[r] = finished[r]
  /\ counted'[r] = counted[r] /\ stream'[r] = stream[r] /\ got'[r] = got[r]

(* its end, perhaps because its consumer leaves;                           *)
RequestEnds(r) ==
  /\ \E e \in Events :
       e[1] # "token" /\ EndedAs(r, e[1])' /\ Closes(queue[r], queue'[r], e)
  /\ finished'[r] = TRUE
  /\ counted'[r] # << >>
  /\ Len(counted'[r]) > 1 =>
       counted'[r] \in {<<"timed_out", "cancelled">>, <<"failed", "cancelled">>}
  /\ got'[r] = got[r]
  /\ stream'[r] \in {stream[r], "left"}

(* a token more in its queue.                                              *)
RequestGrows(r) ==
  /\ \E e \in Events : e[1] = "token" /\ queue'[r] = Append(queue[r], e)
  /\ cancelled'[r] = cancelled[r] /\ finished'[r] = finished[r]
  /\ counted'[r] = counted[r] /\ stream'[r] = stream[r] /\ got'[r] = got[r]

(* The types at one request.                                               *)
LEMMA RequestTypes ==
  ASSUME RequestTypeOK, NEW r \in Reqs
  PROVE  /\ queue[r] \in Seq(Events) /\ DOMAIN queue[r] = 1..Len(queue[r]) /\ Len(queue[r]) \in Nat
         /\ \A k \in DOMAIN queue[r] : queue[r][k] \in Events
         /\ cancelled[r] \in BOOLEAN /\ finished[r] \in BOOLEAN
         /\ counted[r] \in Seq(Outcomes) /\ stream[r] \in Streams /\ got[r] \in Nat
<1>1. /\ queue[r] \in Seq(Events) /\ cancelled[r] \in BOOLEAN /\ finished[r] \in BOOLEAN
      /\ counted[r] \in Seq(Outcomes) /\ stream[r] \in Streams /\ got[r] \in Nat
  BY DEF RequestTypeOK, TableTypeOK, RecordTypeOK
<1>2. QED
  BY <1>1, LenProperties, ElementOfSeq

(* The stream of a request that has not ended is open.                     *)
LEMMA AliveIsOpen ==
  ASSUME RequestTypeOK, NEW r \in Alive, r \in Reqs, OutcomeInv(r)
  PROVE  /\ stream[r] = "open" /\ counted[r] = << >> /\ ~finished[r] /\ ~cancelled[r]
         /\ \A k \in DOMAIN queue[r] : queue[r][k][1] = "token"
<1>1. counted[r] = << >> /\ stream[r] # "new" /\ stream[r] \in Streams
  BY RequestTypes DEF OutcomeInv
<1>2. \A kind : EndedAs(r, kind) => kind = "token"
  BY <1>1 DEF EndedAs
<1>3. QED
  BY <1>1, <1>2, RequestTypes DEF OutcomeInv, Streams

(* A request that nothing happens to.                                      *)
LEMMA StayingKeeps ==
  ASSUME NEW r \in Reqs, OutcomeInv(r), RequestStays(r),
         r \in Alive' <=> r \in Alive, r \in Waiting' => r \in Waiting
  PROVE  OutcomeInv(r)'
BY DEF OutcomeInv, RequestStays, EndedAs

(* A request that ends.                                                    *)
LEMMA EndingKeeps ==
  ASSUME RequestTypeOK, NEW r \in Reqs, OutcomeInv(r), RequestEnds(r),
         r \in Alive, r \notin Alive', r \notin Waiting'
  PROVE  OutcomeInv(r)'
<1>1. stream[r] = "open" /\ \A k \in DOMAIN queue[r] : queue[r][k][1] = "token"
  BY AliveIsOpen
<1>2. PICK e \in Events :
        e[1] # "token" /\ EndedAs(r, e[1])' /\ Closes(queue[r], queue'[r], e)
  BY DEF RequestEnds
<1>3. /\ finished'[r] = TRUE /\ counted'[r] # << >> /\ stream'[r] \in {"open", "left"}
      /\ Len(counted'[r]) > 1 =>
           counted'[r] \in {<<"timed_out", "cancelled">>, <<"failed", "cancelled">>}
  BY <1>1 DEF RequestEnds
<1>4. EndedAs(r, "stop")' /\ EndedAs(r, "left")'
  BY <1>3 DEF EndedAs
<1>5. EndedAs(r, "token")'
  BY <1>3 DEF EndedAs
<1>6. \A k \in DOMAIN queue'[r] : EndedAs(r, queue[r][k][1])'
  <2> SUFFICES ASSUME NEW k \in DOMAIN queue'[r] PROVE EndedAs(r, queue[r][k][1])'
    OBVIOUS
  <2>1. CASE queue'[r][k] = STOP
    BY <1>3, <1>4, <2>1, Kinds
  <2>2. CASE k \in DOMAIN queue[r] /\ queue'[r][k] = queue[r][k]
    BY <1>1, <1>5, <2>2
  <2>3. CASE queue'[r][k] = e
    BY <1>2, <2>3
  <2> QED
    BY <1>2, <2>1, <2>2, <2>3 DEF Closes
<1>7. \E k \in DOMAIN queue'[r] : queue'[r][k][1] # "token"
  BY <1>2, Kinds DEF Closes
<1>8. EndedAs(r, stream[r])' \/ stream'[r] = "open"
  BY <1>3, <1>4
<1>9. QED
  BY <1>3, <1>6, <1>7, <1>8 DEF OutcomeInv

(* A request that add_request accepts.                                     *)
LEMMA JoiningKeeps ==
  ASSUME NEW r \in Reqs, OutcomeInv(r), stream[r] = "new", stream'[r] = "open", r \in Waiting',
         queue'[r] = queue[r], cancelled'[r] = cancelled[r], finished'[r] = finished[r],
         counted'[r] = counted[r], got'[r] = got[r]
  PROVE  OutcomeInv(r)'
BY DEF OutcomeInv, EndedAs, Alive

(* A request that gets a token.                                            *)
LEMMA GrowingKeeps ==
  ASSUME RequestTypeOK, NEW r \in Reqs, OutcomeInv(r), RequestGrows(r), r \in Alive, r \in Alive',
         r \notin Waiting'
  PROVE  OutcomeInv(r)'
<1>1. PICK e \in Events : e[1] = "token" /\ queue'[r] = Append(queue[r], e)
  BY DEF RequestGrows
<1>2. /\ stream[r] = "open" /\ counted[r] = << >> /\ ~finished[r] /\ ~cancelled[r]
      /\ \A k \in DOMAIN queue[r] : queue[r][k][1] = "token"
  BY AliveIsOpen
<1>3. \A k \in DOMAIN queue'[r] : queue'[r][k][1] = "token"
  BY <1>1, <1>2, RequestTypes, AppendFacts
<1>4. EndedAs(r, "token")'
  BY DEF EndedAs
<1>5. /\ cancelled'[r] = cancelled[r] /\ finished'[r] = finished[r]
      /\ counted'[r] = counted[r] /\ stream'[r] = stream[r]
  BY DEF RequestGrows
<1>6. Len(<< >>) = 0
  OBVIOUS
<1>7. QED
  BY <1>2, <1>3, <1>4, <1>5, <1>6 DEF OutcomeInv

(* The first event of a queue, and the rest.                               *)
LEMMA TailFacts ==
  ASSUME NEW q \in Seq(Events), q # << >>
  PROVE  /\ Head(q) \in Events /\ Head(q) = q[1] /\ 1 \in DOMAIN q
         /\ Tail(q) \in Seq(Events) /\ Len(Tail(q)) = Len(q) - 1 /\ Len(q) \in Nat
         /\ \A k \in DOMAIN Tail(q) : k + 1 \in DOMAIN q /\ Tail(q)[k] = q[k + 1]
         /\ \A k \in DOMAIN q : k = 1 \/ (k - 1 \in DOMAIN Tail(q) /\ Tail(q)[k - 1] = q[k])
<1>1. /\ Head(q) \in Events /\ Tail(q) \in Seq(Events) /\ Len(Tail(q)) = Len(q) - 1
      /\ \A i \in 1..Len(q) - 1 : Tail(q)[i] = q[i + 1]
  BY HeadTailProperties
<1>2. /\ Len(q) \in Nat /\ Len(q) > 0 /\ DOMAIN q = 1..Len(q) /\ Head(q) = q[1]
      /\ DOMAIN Tail(q) = 1..Len(q) - 1
  BY <1>1, MembersOf
<1>3. QED
  BY <1>1, <1>2

(* A request whose consumer takes an event.                                *)
LEMMA ReceivingKeeps ==
  ASSUME RequestTypeOK, NEW r \in Reqs, OutcomeInv(r), Receive(r)
  PROVE  OutcomeInv(r)' /\ finished' = finished
<1> DEFINE e == Head(queue[r])
<1>1. /\ stream[r] = "open" /\ queue[r] # << >>
      /\ queue' = [queue EXCEPT ![r] = Tail(@)]
      /\ stream' = [stream EXCEPT ![r] = IF e[1] = "token" THEN "open" ELSE e[1]]
      /\ got' = [got EXCEPT ![r] = IF e[1] \in {"token", "final"} THEN e[2] ELSE @]
      /\ finished' = [finished EXCEPT ![r] = @ \/ Ending(e)]
      /\ UNCHANGED <<pending, pendingById, active, cancelled, counted>>
  BY DEF Receive, queueVars
<1>2. /\ queue'[r] = Tail(queue[r]) /\ finished'[r] = (finished[r] \/ Ending(e))
      /\ stream'[r] = IF e[1] = "token" THEN "open" ELSE e[1]
  BY <1>1 DEF RequestTypeOK, TableTypeOK, RecordTypeOK
<1>3. /\ e \in Events /\ e = queue[r][1] /\ 1 \in DOMAIN queue[r]
      /\ \A k \in DOMAIN Tail(queue[r]) :
           k + 1 \in DOMAIN queue[r] /\ Tail(queue[r])[k] = queue[r][k + 1]
      /\ \A k \in DOMAIN queue[r] :
           k = 1 \/ (k - 1 \in DOMAIN Tail(queue[r]) /\ Tail(queue[r])[k - 1] = queue[r][k])
  BY <1>1, RequestTypes, TailFacts
<1> HIDE DEF e
<1>4. EndedAs(r, e[1]) /\ e[1] \in {"token", "final", "stop", "timeout", "error"}
  BY <1>3, Kinds DEF OutcomeInv
<1>5. Ending(e) => finished[r]
  BY <1>4 DEF Ending, EndedAs, OutcomeInv
<1>6. finished'[r] = finished[r] /\ finished' = finished
  <2>1. finished'[r] = finished[r]
    BY <1>2, <1>5, RequestTypes
  <2> QED
    BY <1>1, <2>1 DEF RequestTypeOK, TableTypeOK, RecordTypeOK
<1>7. \A kind : EndedAs(r, kind)' <=> EndedAs(r, kind)
  BY <1>1 DEF EndedAs
<1>8. \A k \in DOMAIN queue'[r] : EndedAs(r, queue[r][k][1])'
  <2> SUFFICES ASSUME NEW k \in DOMAIN queue'[r] PROVE EndedAs(r, queue[r][k][1])'
    OBVIOUS
  <2>1. EndedAs(r, queue[r][k + 1][1]) /\ queue'[r][k] = queue[r][k + 1]
    BY <1>2, <1>3 DEF OutcomeInv
  <2> QED
    BY <1>1, <2>1 DEF EndedAs
<1>9. stream'[r] \notin {"new", "open"} => EndedAs(r, stream[r])'
  BY <1>1, <1>2, <1>4 DEF EndedAs
<1>10. stream'[r] = "open" /\ finished'[r] =>
         \E k \in DOMAIN queue'[r] : queue'[r][k][1] # "token"
  <2> SUFFICES ASSUME stream'[r] = "open", finished'[r]
               PROVE  \E k \in DOMAIN queue'[r] : queue'[r][k][1] # "token"
    OBVIOUS
  <2>1. e[1] = "token"
    BY <1>2, <1>4
  <2>2. PICK k \in DOMAIN queue[r] : queue[r][k][1] # "token"
    BY <1>1, <1>6 DEF OutcomeInv
  <2>3. k # 1
    BY <1>3, <2>1, <2>2
  <2> QED
    BY <1>2, <1>3, <2>2, <2>3
<1>11. r \notin Waiting' /\ stream'[r] # "new" /\ (r \in Alive' <=> r \in Alive)
  BY <1>1, <1>2, <1>4 DEF OutcomeInv, Waiting, Alive, Running
<1>12. QED
  BY <1>1, <1>6, <1>8, <1>9, <1>10, <1>11 DEF OutcomeInv

-----------------------------------------------------------------------------
(* The tables                                                              *)

(* A table of requests by their ids, without some of them.                 *)
LEMMA WithoutFacts ==
  ASSUME NEW f, DOMAIN f \subseteq Ids, f \in [DOMAIN f -> Reqs],
         \A i \in DOMAIN f : Id[f[i]] = i, NEW R \in SUBSET Range(f)
  PROVE  /\ DOMAIN Without(f, IdsOf(R)) \subseteq DOMAIN f
         /\ Without(f, IdsOf(R)) \in [DOMAIN Without(f, IdsOf(R)) -> Reqs]
         /\ \A i \in DOMAIN Without(f, IdsOf(R)) : Without(f, IdsOf(R))[i] = f[i]
         /\ Range(Without(f, IdsOf(R))) = Range(f) \ R
<1> DEFINE g == Without(f, IdsOf(R))
<1>1. g = [i \in DOMAIN f \ IdsOf(R) |-> f[i]]
  BY DEF Without, Restrict
<1>2. \A i \in DOMAIN f : i \in IdsOf(R) <=> f[i] \in R
  BY DEF IdsOf, Range
<1> HIDE DEF g
<1>3. Range(g) = Range(f) \ R
  BY <1>1, <1>2 DEF Range
<1>4. QED
  BY <1>1, <1>3 DEF g

(* With one more.                                                          *)
LEMMA WithOneFacts ==
  ASSUME NEW f, DOMAIN f \subseteq Ids, f \in [DOMAIN f -> Reqs], NEW r \in Reqs,
         Id[r] \notin DOMAIN f, NEW g,
         g = [i \in DOMAIN f \cup {Id[r]} |-> IF i = Id[r] THEN r ELSE f[i]]
  PROVE  /\ DOMAIN g = DOMAIN f \cup {Id[r]} /\ DOMAIN g \subseteq Ids
         /\ g \in [DOMAIN g -> Reqs]
         /\ g[Id[r]] = r /\ \A i \in DOMAIN f : g[i] = f[i]
         /\ Range(g) = Range(f) \cup {r}
<1>1. Id[r] \in Ids
  BY Constants
<1>2. Range(g) = Range(f) \cup {r}
  BY DEF Range
<1>3. QED
  BY <1>1, <1>2

(* An empty table.                                                         *)
LEMMA NoTable ==
  /\ DOMAIN << >> = {} /\ Range(<< >>) = {} /\ ToSet(<< >>) = {} /\ IsFiniteSet({})
  /\ << >> \in Seq(Reqs) /\ IsInjective(<< >>)
<1>1. DOMAIN << >> = {}
  OBVIOUS
<1>2. QED
  BY <1>1, FS_EmptySet DEF Range, ToSet, IsInjective

(* The requests in the tables.                                             *)
LEMMA TablesGive ==
  ASSUME RequestTypeOK, TablesInv
  PROVE  /\ Waiting \subseteq Reqs /\ Running \subseteq Reqs /\ Alive \subseteq Reqs
         /\ IsFiniteSet(Waiting) /\ Cardinality(Waiting) = Len(pending)
         /\ Waiting \cap Running = {}
         /\ \A r \in Running : Id[r] \in DOMAIN active /\ active[Id[r]] = r
         /\ \A r \in Waiting : Id[r] \in DOMAIN pendingById /\ pendingById[Id[r]] = r
<1>1. Waiting \subseteq Reqs /\ IsFiniteSet(Waiting) /\ Cardinality(Waiting) = Len(pending)
  BY MembersOf, LengthOfDistinct DEF RequestTypeOK, TableTypeOK, RecordTypeOK, Waiting
<1>2. Running \subseteq Reqs
  BY DEF RequestTypeOK, TableTypeOK, RecordTypeOK, Running, Range
<1>3. \A r \in Running : Id[r] \in DOMAIN active /\ active[Id[r]] = r
  BY DEF TablesInv, Running, Range
<1>4. \A r \in Waiting : Id[r] \in DOMAIN pendingById /\ pendingById[Id[r]] = r
  BY DEF TablesInv, Range
<1>5. Waiting \cap Running = {}
  BY <1>3, <1>4 DEF TablesInv
<1>6. QED
  BY <1>1, <1>2, <1>3, <1>4, <1>5 DEF Alive

(* The requests of L leave pending, those of M leave active.               *)
PendingLoses(L) ==
  \/ pending' = PendingWithout(L) /\ pendingById' = Without(pendingById, IdsOf(L))
  \/ L = {} /\ UNCHANGED <<pending, pendingById>>
  \/ L = Waiting /\ pending' = << >> /\ pendingById' = << >>
ActiveLoses(M) ==
  \/ active' = Without(active, IdsOf(M))
  \/ M = {} /\ UNCHANGED active
  \/ M = Running /\ active' = << >>

(* What the active table loses.                                            *)
LEMMA ActiveShrinks ==
  ASSUME RequestTypeOK, TablesInv, NEW M \in SUBSET Running, ActiveLoses(M)
  PROVE  /\ Running' = Running \ M /\ IsFiniteSet(Running')
         /\ DOMAIN active' \subseteq DOMAIN active
         /\ active' \in [DOMAIN active' -> Reqs]
         /\ \A i \in DOMAIN active' : active'[i] = active[i]
<1>1. /\ Running' = Running \ M
      /\ DOMAIN active' \subseteq DOMAIN active
      /\ active' \in [DOMAIN active' -> Reqs]
      /\ \A i \in DOMAIN active' : active'[i] = active[i]
  <2>1. CASE active' = Without(active, IdsOf(M))
    BY <2>1, WithoutFacts DEF RequestTypeOK, TableTypeOK, RecordTypeOK, TablesInv, Running
  <2>2. CASE M = {} /\ UNCHANGED active
    BY <2>2 DEF RequestTypeOK, TableTypeOK, RecordTypeOK, Running
  <2>3. CASE M = Running /\ active' = << >>
    <3>1. DOMAIN active' = {} /\ Running' = {}
      BY <2>3, NoTable DEF Running
    <3> QED
      BY <2>3, <3>1
  <2> QED
    BY <2>1, <2>2, <2>3 DEF ActiveLoses
<1>2. IsFiniteSet(Running')
  <2>1. IsFiniteSet(Running) /\ Running' \in SUBSET Running
    BY <1>1 DEF RequestTypeOK, TableTypeOK, RecordTypeOK, Running
  <2> QED
    BY <2>1, FS_Subset
<1>3. QED
  BY <1>1, <1>2

-----------------------------------------------------------------------------
(* The budgets                                                             *)

(* The budgets of the pending requests and those of the active ones.       *)
PendingBudget(P) ==
  /\ Cardinality(P) <= MaxPending
  /\ Total(PromptTokens, P) <= MaxPendingPrompt
  /\ \A r \in P : Cardinality(SameSpace(P, r)) <= MaxPendingPerNs
ActiveBudget(A) ==
  /\ Cardinality(A) <= MaxActive
  /\ Total(Estimated, A) <= MaxActiveTokens
  /\ \A r \in A : /\ Cardinality(SameSpace(A, r)) <= MaxActivePerNs
                   /\ Total(Estimated, SameSpace(A, r)) <= MaxActiveTokensPerNs

(* BudgetsHold is the two of them.                                         *)
LEMMA TwoBudgets == BudgetsHold <=> PendingBudget(Waiting) /\ ActiveBudget(Running)
BY DEF BudgetsHold, PendingBudget, ActiveBudget, Waiting, Running

(* The requests of one namespace.                                          *)
LEMMA SpaceFacts ==
  ASSUME NEW R \in SUBSET Reqs, IsFiniteSet(R), NEW Q \in SUBSET R
  PROVE  /\ IsFiniteSet(Q) /\ Cardinality(Q) \in Nat /\ Cardinality(R) \in Nat
         /\ Cardinality(Q) <= Cardinality(R)
         /\ Total(PromptTokens, Q) \in Nat /\ Total(PromptTokens, R) \in Nat
         /\ Total(PromptTokens, Q) <= Total(PromptTokens, R)
         /\ Total(Estimated, Q) \in Nat /\ Total(Estimated, R) \in Nat
         /\ Total(Estimated, Q) <= Total(Estimated, R)
<1>1. IsFiniteSet(Q) /\ Cardinality(Q) <= Cardinality(R)
  BY FS_Subset
<1>2. Cardinality(Q) \in Nat /\ Cardinality(R) \in Nat
  BY <1>1, FS_CardinalityType
<1>3. \A f \in [Reqs -> Nat] : /\ Total(f, Q) \in Nat /\ Total(f, R) \in Nat
                               /\ Total(f, Q) <= Total(f, R)
  BY <1>1, TotalFacts
<1>4. QED
  BY <1>1, <1>2, <1>3, Constants

(* What is taken away leaves the budgets intact.                           *)
LEMMA BudgetsShrink ==
  ASSUME NEW R \in SUBSET Reqs, IsFiniteSet(R), NEW Q \in SUBSET R
  PROVE  /\ PendingBudget(R) => PendingBudget(Q)
         /\ ActiveBudget(R) => ActiveBudget(Q)
<1>0. {MaxPending, MaxPendingPerNs, MaxPendingPrompt, MaxActive, MaxActivePerNs,
       MaxActiveTokens, MaxActiveTokensPerNs} \subseteq Nat
  BY Constants
<1>1. /\ Cardinality(Q) \in Nat /\ Cardinality(R) \in Nat
      /\ Cardinality(Q) <= Cardinality(R)
      /\ Total(PromptTokens, Q) \in Nat /\ Total(PromptTokens, R) \in Nat
      /\ Total(PromptTokens, Q) <= Total(PromptTokens, R)
      /\ Total(Estimated, Q) \in Nat /\ Total(Estimated, R) \in Nat
      /\ Total(Estimated, Q) <= Total(Estimated, R)
  BY SpaceFacts
<1>2. \A r \in Q :
        LET S == SameSpace(Q, r)
            T == SameSpace(R, r)
        IN  /\ Cardinality(S) \in Nat /\ Cardinality(T) \in Nat
            /\ Cardinality(S) <= Cardinality(T)
            /\ Total(Estimated, S) \in Nat /\ Total(Estimated, T) \in Nat
            /\ Total(Estimated, S) <= Total(Estimated, T)
  <2> SUFFICES ASSUME NEW r \in Q
               PROVE  LET S == SameSpace(Q, r)
                          T == SameSpace(R, r)
                      IN  /\ Cardinality(S) \in Nat /\ Cardinality(T) \in Nat
                          /\ Cardinality(S) <= Cardinality(T)
                          /\ Total(Estimated, S) \in Nat /\ Total(Estimated, T) \in Nat
                          /\ Total(Estimated, S) <= Total(Estimated, T)
    OBVIOUS
  <2>1. /\ SameSpace(Q, r) \in SUBSET SameSpace(R, r)
        /\ SameSpace(R, r) \in SUBSET Reqs /\ SameSpace(R, r) \in SUBSET R
    BY DEF SameSpace
  <2>2. IsFiniteSet(SameSpace(R, r))
    BY <2>1, SpaceFacts
  <2> QED
    BY <2>1, <2>2, SpaceFacts
<1>3. PendingBudget(R) => PendingBudget(Q)
  BY <1>0, <1>1, <1>2 DEF PendingBudget
<1>4. ActiveBudget(R) => ActiveBudget(Q)
  BY <1>0, <1>1, <1>2 DEF ActiveBudget
<1>5. QED
  BY <1>3, <1>4

(* One request more.                                                       *)
LEMMA OneRequestMore ==
  ASSUME NEW R \in SUBSET Reqs, IsFiniteSet(R), NEW r \in Reqs \ R
  PROVE  /\ IsFiniteSet(R \cup {r}) /\ Cardinality(R) \in Nat
         /\ Cardinality(R \cup {r}) = Cardinality(R) + 1
         /\ Total(PromptTokens, R) \in Nat
         /\ Total(PromptTokens, R \cup {r}) = Total(PromptTokens, R) + PromptTokens[r]
         /\ Total(Estimated, R) \in Nat
         /\ Total(Estimated, R \cup {r}) = Total(Estimated, R) + Estimated[r]
<1>1. IsFiniteSet(R \cup {r}) /\ Cardinality(R \cup {r}) = Cardinality(R) + 1
  BY FS_AddElement
<1>2. Cardinality(R) \in Nat
  BY FS_CardinalityType
<1>3. \A f \in [Reqs -> Nat] : Total(f, R) \in Nat /\ Total(f, R \cup {r}) = Total(f, R) + f[r]
  BY TotalFacts
<1>4. QED
  BY <1>1, <1>2, <1>3, Constants

(* The namespaces of the requests that were there, with one more.          *)
LEMMA SpaceOfOneMore ==
  ASSUME NEW R \in SUBSET Reqs, IsFiniteSet(R), NEW r \in Reqs \ R, NEW q \in R \cup {r}
  PROVE  \/ SameSpace(R \cup {r}, q) = SameSpace(R, q) /\ q \in R
         \/ /\ SameSpace(R \cup {r}, q) = SameSpace(R, r) \cup {r}
            /\ SameSpace(R, r) \in SUBSET Reqs /\ IsFiniteSet(SameSpace(R, r))
            /\ r \in Reqs \ SameSpace(R, r)
<1>1. SameSpace(R, r) \in SUBSET R /\ r \in Reqs \ SameSpace(R, r)
  BY DEF SameSpace
<1>2. IsFiniteSet(SameSpace(R, r))
  BY <1>1, SpaceFacts
<1>3. CASE Namespace[q] = Namespace[r]
  BY <1>1, <1>2, <1>3 DEF SameSpace
<1>4. CASE Namespace[q] # Namespace[r]
  BY <1>4 DEF SameSpace
<1>5. QED
  BY <1>3, <1>4

(* add_request keeps the budgets of the pending requests;                  *)
LEMMA AcceptedFits ==
  ASSUME NEW P \in SUBSET Reqs, IsFiniteSet(P), NEW r \in Reqs \ P, PendingBudget(P),
         Accepts(r, P)
  PROVE  PendingBudget(P \cup {r})
<1>0. {MaxPending, MaxPendingPerNs, MaxPendingPrompt} \subseteq Nat
  BY Constants
<1>1. /\ Cardinality(P) < MaxPending /\ Cardinality(SameSpace(P, r)) < MaxPendingPerNs
      /\ Total(PromptTokens, P) + PromptTokens[r] <= MaxPendingPrompt
  BY DEF Accepts
<1>2. /\ Cardinality(P \cup {r}) <= MaxPending
      /\ Total(PromptTokens, P \cup {r}) <= MaxPendingPrompt
  <2>1. /\ Cardinality(P) \in Nat /\ Cardinality(P \cup {r}) = Cardinality(P) + 1
        /\ Total(PromptTokens, P \cup {r}) = Total(PromptTokens, P) + PromptTokens[r]
    BY OneRequestMore
  <2> QED
    BY <1>0, <1>1, <2>1
<1>3. \A q \in P \cup {r} : Cardinality(SameSpace(P \cup {r}, q)) <= MaxPendingPerNs
  <2> SUFFICES ASSUME NEW q \in P \cup {r}
               PROVE  Cardinality(SameSpace(P \cup {r}, q)) <= MaxPendingPerNs
    OBVIOUS
  <2>1. CASE SameSpace(P \cup {r}, q) = SameSpace(P, q) /\ q \in P
    BY <2>1 DEF PendingBudget
  <2>2. CASE /\ SameSpace(P \cup {r}, q) = SameSpace(P, r) \cup {r}
             /\ SameSpace(P, r) \in SUBSET Reqs /\ IsFiniteSet(SameSpace(P, r))
             /\ r \in Reqs \ SameSpace(P, r)
    <3>1. /\ Cardinality(SameSpace(P, r)) \in Nat
          /\ Cardinality(SameSpace(P, r) \cup {r}) = Cardinality(SameSpace(P, r)) + 1
      BY <2>2, OneRequestMore
    <3> QED
      BY <1>0, <1>1, <2>2, <3>1
  <2> QED
    BY <2>1, <2>2, SpaceOfOneMore
<1>4. QED
  BY <1>2, <1>3 DEF PendingBudget

(* _drain_pending keeps those of the active ones.                          *)
LEMMA AdmittedFits ==
  ASSUME NEW r \in Reqs \ Running, Running \in SUBSET Reqs, IsFiniteSet(Running),
         ActiveBudget(Running), CanAdmitActive(r)
  PROVE  ActiveBudget(Running \cup {r})
<1> DEFINE A == Running
<1>0. {MaxActive, MaxActivePerNs, MaxActiveTokens, MaxActiveTokensPerNs} \subseteq Nat
  BY Constants
<1>1. /\ Cardinality(A) < MaxActive /\ Cardinality(SameSpace(A, r)) < MaxActivePerNs
      /\ Total(Estimated, A) + Estimated[r] <= MaxActiveTokens
      /\ Total(Estimated, SameSpace(A, r)) + Estimated[r] <= MaxActiveTokensPerNs
  BY DEF CanAdmitActive, Running
<1>a. A \in SUBSET Reqs /\ IsFiniteSet(A) /\ r \in Reqs \ A /\ ActiveBudget(A)
  OBVIOUS
<1> HIDE DEF A
<1>2. /\ Cardinality(A \cup {r}) <= MaxActive
      /\ Total(Estimated, A \cup {r}) <= MaxActiveTokens
  <2>1. /\ Cardinality(A) \in Nat /\ Cardinality(A \cup {r}) = Cardinality(A) + 1
        /\ Total(Estimated, A \cup {r}) = Total(Estimated, A) + Estimated[r]
    BY <1>a, OneRequestMore
  <2> QED
    BY <1>0, <1>1, <2>1
<1>3. \A q \in A \cup {r} : /\ Cardinality(SameSpace(A \cup {r}, q)) <= MaxActivePerNs
                             /\ Total(Estimated, SameSpace(A \cup {r}, q)) <= MaxActiveTokensPerNs
  <2> SUFFICES ASSUME NEW q \in A \cup {r}
               PROVE  /\ Cardinality(SameSpace(A \cup {r}, q)) <= MaxActivePerNs
                      /\ Total(Estimated, SameSpace(A \cup {r}, q)) <= MaxActiveTokensPerNs
    OBVIOUS
  <2>1. CASE SameSpace(A \cup {r}, q) = SameSpace(A, q) /\ q \in A
    BY <1>a, <2>1 DEF ActiveBudget
  <2>2. CASE /\ SameSpace(A \cup {r}, q) = SameSpace(A, r) \cup {r}
             /\ SameSpace(A, r) \in SUBSET Reqs /\ IsFiniteSet(SameSpace(A, r))
             /\ r \in Reqs \ SameSpace(A, r)
    <3>1. /\ Cardinality(SameSpace(A, r)) \in Nat
          /\ Cardinality(SameSpace(A, r) \cup {r}) = Cardinality(SameSpace(A, r)) + 1
          /\ Total(Estimated, SameSpace(A, r) \cup {r}) =
               Total(Estimated, SameSpace(A, r)) + Estimated[r]
      BY <2>2, OneRequestMore
    <3> QED
      BY <1>0, <1>1, <2>2, <3>1
  <2> QED
    BY <1>a, <2>1, <2>2, SpaceOfOneMore
<1>4. QED
  BY <1>2, <1>3 DEF ActiveBudget, A

-----------------------------------------------------------------------------
(* The queue of the pending requests                                       *)

(* What is left of the queue and its table without the requests of L.      *)
LEMMA PendingLeft ==
  ASSUME TableTypeOK, TablesInv, ByPriority(pending), NEW L \in SUBSET Waiting
  PROVE  LET p == PendingWithout(L)
             g == Without(pendingById, IdsOf(L))
         IN  /\ p \in Seq(Reqs) /\ IsInjective(p) /\ ByPriority(p)
             /\ ToSet(p) = Waiting \ L
             /\ DOMAIN g \subseteq DOMAIN pendingById
             /\ g \in [DOMAIN g -> Reqs]
             /\ \A i \in DOMAIN g : g[i] = pendingById[i]
             /\ Range(g) = Waiting \ L
             /\ DOMAIN g = DOMAIN pendingById \ IdsOf(L)
<1> DEFINE p == PendingWithout(L)
           g == Without(pendingById, IdsOf(L))
<1>1. /\ p \in Seq(Reqs) /\ IsInjective(p)
      /\ ToSet(p) = ToSet(pending) \cap (Reqs \ L)
  BY FilteredFacts DEF PendingWithout, TableTypeOK
<1>2. ToSet(p) = Waiting \ L
  <2>1. Waiting \subseteq Reqs
    BY MembersOf DEF Waiting, TableTypeOK
  <2> QED
    BY <1>1, <2>1 DEF Waiting
<1>3. /\ DOMAIN g \subseteq DOMAIN pendingById
      /\ g \in [DOMAIN g -> Reqs]
      /\ \A i \in DOMAIN g : g[i] = pendingById[i]
      /\ Range(g) = Waiting \ L
  <2>1. /\ DOMAIN pendingById \subseteq Ids /\ pendingById \in [DOMAIN pendingById -> Reqs]
        /\ \A i \in DOMAIN pendingById : Id[pendingById[i]] = i
        /\ L \in SUBSET Range(pendingById) /\ Range(pendingById) = Waiting
    BY DEF TableTypeOK, TablesInv
  <2> QED
    BY <2>1, WithoutFacts
<1>4. DOMAIN g = DOMAIN pendingById \ IdsOf(L)
  BY DEF Without, Restrict
<1>5. ByPriority(p)
  <2> SUFFICES ASSUME NEW k \in DOMAIN p, NEW l \in DOMAIN p, k < l
               PROVE  Priority[p[k]] >= Priority[p[l]]
    BY DEF ByPriority
  <2>1. PICK i, j \in DOMAIN pending : i < j /\ p[k] = pending[i] /\ p[l] = pending[j]
    BY FilteredKeepsOrder DEF PendingWithout, TableTypeOK
  <2> QED
    BY <2>1 DEF ByPriority
<1>6. QED
  BY <1>1, <1>2, <1>3, <1>4, <1>5

(* What the pending queue loses.                                           *)
LEMMA PendingShrinks ==
  ASSUME TableTypeOK, TablesInv, ByPriority(pending),
         NEW L \in SUBSET Waiting, PendingLoses(L)
  PROVE  /\ pending' \in Seq(Reqs) /\ IsInjective(pending') /\ ByPriority(pending')
         /\ Waiting' = Waiting \ L
         /\ DOMAIN pendingById' \subseteq DOMAIN pendingById
         /\ pendingById' \in [DOMAIN pendingById' -> Reqs]
         /\ \A i \in DOMAIN pendingById' : pendingById'[i] = pendingById[i]
         /\ Range(pendingById') = Waiting \ L
<1>1. CASE pending' = PendingWithout(L) /\ pendingById' = Without(pendingById, IdsOf(L))
  BY <1>1, PendingLeft DEF Waiting
<1>2. CASE L = {} /\ UNCHANGED <<pending, pendingById>>
  BY <1>2 DEF TableTypeOK, Waiting, TablesInv, ByPriority
<1>3. CASE L = Waiting /\ pending' = << >> /\ pendingById' = << >>
  <2>1. /\ pending' \in Seq(Reqs) /\ IsInjective(pending') /\ DOMAIN pendingById' = {}
        /\ Waiting' = {} /\ Range(pendingById') = {} /\ DOMAIN pending' = {}
    BY <1>3, NoTable DEF Waiting
  <2> QED
    BY <1>3, <2>1 DEF ByPriority
<1>4. QED
  BY <1>1, <1>2, <1>3 DEF PendingLoses

(* _enqueue_pending keeps the order of the priorities.                     *)
LEMMA EnqueuedFacts ==
  ASSUME NEW p \in Seq(Reqs), IsInjective(p), ByPriority(p), NEW r \in Reqs \ ToSet(p)
  PROVE  /\ Enqueued(p, r) \in Seq(Reqs) /\ IsInjective(Enqueued(p, r))
         /\ ToSet(Enqueued(p, r)) = ToSet(p) \cup {r}
         /\ ByPriority(Enqueued(p, r))
<1> DEFINE lower == {i \in DOMAIN p : Priority[p[i]] < Priority[r]}
           n == Len(p)
<1>1. n \in Nat /\ DOMAIN p = 1..n /\ \A k \in 1..n : p[k] \in Reqs
  BY MembersOf, ElementOfSeq
<1>2. Priority[r] \in Int /\ \A k \in 1..n : Priority[p[k]] \in Int
  BY <1>1, Constants
<1>3. CASE lower = {}
  <2> DEFINE q == Append(p, r)
  <2>1. Enqueued(p, r) = q
    BY <1>3 DEF Enqueued
  <2>2. q \in Seq(Reqs) /\ IsInjective(q) /\ ToSet(q) = ToSet(p) \cup {r}
    <3>1. r \in Reqs /\ r \notin ToSet(p)
      OBVIOUS
    <3>2. /\ Append(p, r) \in Seq(Reqs) /\ ToSet(Append(p, r)) = ToSet(p) \cup {r}
          /\ IsInjective(p) /\ r \notin ToSet(p)
               => IsInjective(Append(p, r)) /\ IsInjective(<<r>> \o p)
      BY <3>1, OneMore
    <3> QED
      BY <3>1, <3>2
  <2>3. DOMAIN q = 1..n + 1 /\ q[n + 1] = r /\ \A k \in 1..n : q[k] = p[k]
    BY <1>1, AppendProperties
  <2> HIDE DEF q
  <2>4. ByPriority(q)
    <3> SUFFICES ASSUME NEW k \in 1..n + 1, NEW l \in 1..n + 1, k < l
                 PROVE  Priority[q[k]] >= Priority[q[l]]
      BY <2>3 DEF ByPriority
    <3>1. k \in 1..n /\ q[k] = p[k]
      BY <1>1, <2>3
    <3>2. CASE l = n + 1
      BY <1>1, <1>2, <1>3, <2>3, <3>1, <3>2
    <3>3. CASE l \in 1..n
      BY <1>1, <2>3, <3>1, <3>3 DEF ByPriority
    <3> QED
      BY <1>1, <3>2, <3>3
  <2> QED
    BY <2>1, <2>2, <2>4
<1>4. CASE lower # {}
  <2> DEFINE m == Min(lower)
             q == InsertAt(p, m, r)
  <2>1. Enqueued(p, r) = q
    BY <1>4 DEF Enqueued
  <2>2. m \in lower /\ \A i \in lower : m <= i
    <3>1. lower \in SUBSET Nat
      BY <1>1
    <3> HIDE DEF lower
    <3> QED
      BY <1>4, <3>1, SmallestOf
  <2> HIDE DEF m
  <2>3. m \in 1..n /\ Priority[p[m]] < Priority[r]
    BY <1>1, <2>2
  <2>4. \A i \in 1..n : i < m => Priority[p[i]] >= Priority[r]
    BY <1>1, <1>2, <2>2, <2>3
  <2>5. /\ q \in Seq(Reqs) /\ Len(q) = n + 1
        /\ \A k \in 1..n + 1 : q[k] = IF k < m THEN p[k] ELSE IF k = m THEN r ELSE p[k - 1]
        /\ ToSet(q) = ToSet(p) \cup {r} /\ IsInjective(q)
    BY <2>3, InsertAtFacts
  <2>6. DOMAIN q = 1..n + 1
    BY <2>5, MembersOf
  <2> HIDE DEF q
  <2>7. \A i \in 1..n : m <= i => Priority[r] > Priority[p[i]]
    <3> SUFFICES ASSUME NEW i \in 1..n, m <= i PROVE Priority[r] > Priority[p[i]]
      OBVIOUS
    <3>1. i = m \/ Priority[p[m]] >= Priority[p[i]]
      BY <1>1, <2>3 DEF ByPriority
    <3> QED
      BY <1>2, <2>3, <3>1
  <2>8. ByPriority(q)
    <3> SUFFICES ASSUME NEW k \in 1..n + 1, NEW l \in 1..n + 1, k < l
                 PROVE  Priority[q[k]] >= Priority[q[l]]
      BY <2>6 DEF ByPriority
    <3>1. CASE l < m
      <4>1. k \in 1..n /\ l \in 1..n /\ q[k] = p[k] /\ q[l] = p[l]
        BY <1>1, <2>3, <2>5, <3>1
      <4> QED
        BY <1>1, <4>1 DEF ByPriority
    <3>2. CASE l = m
      <4>1. k \in 1..n /\ k < m /\ q[k] = p[k] /\ q[l] = r
        BY <1>1, <2>3, <2>5, <3>2
      <4> QED
        BY <2>4, <4>1
    <3>3. CASE l > m /\ k < m
      <4>1. k \in 1..n /\ l - 1 \in 1..n /\ m <= l - 1 /\ q[k] = p[k] /\ q[l] = p[l - 1]
        BY <1>1, <2>3, <2>5, <3>3
      <4> QED
        BY <1>2, <2>4, <2>7, <3>3, <4>1
    <3>4. CASE l > m /\ k = m
      <4>1. l - 1 \in 1..n /\ m <= l - 1 /\ q[k] = r /\ q[l] = p[l - 1]
        BY <1>1, <2>3, <2>5, <3>4
      <4> QED
        BY <1>2, <2>7, <4>1
    <3>5. CASE l > m /\ k > m
      <4>1. k - 1 \in 1..n /\ l - 1 \in 1..n /\ k - 1 < l - 1 /\ q[k] = p[k - 1] /\ q[l] = p[l - 1]
        BY <1>1, <2>3, <2>5, <3>5
      <4> QED
        BY <1>1, <4>1 DEF ByPriority
    <3> QED
      BY <2>3, <3>1, <3>2, <3>3, <3>4, <3>5
  <2> QED
    BY <2>1, <2>5, <2>8
<1>5. QED
  BY <1>3, <1>4

-----------------------------------------------------------------------------
(* Requests that end                                                       *)

(* RequestsInv apart from the types of requests and loops.                 *)
PlacesInv ==
  /\ TableTypeOK
  /\ TablesInv
  /\ \A r \in Reqs : OutcomeInv(r)
  /\ BudgetsHold
  /\ ByPriority(pending)

(* The requests of L and M leave the tables and end, and that is all.      *)
Losing(L, M) ==
  /\ PendingLoses(L) /\ ActiveLoses(M)
  /\ \A r \in L \cup M : RequestEnds(r)
  /\ \A r \in Reqs \ (L \cup M) : RequestStays(r)

(* That keeps the invariant.                                               *)
LEMMA LosingKeeps ==
  ASSUME RequestsInv, NEW L \in SUBSET Waiting, NEW M \in SUBSET Running, Losing(L, M)
  PROVE  PlacesInv'
<1>1. /\ RequestTypeOK /\ TableTypeOK /\ RecordTypeOK /\ TablesInv /\ ByPriority(pending)
      /\ \A r \in Reqs : OutcomeInv(r)
      /\ PendingBudget(Waiting) /\ ActiveBudget(Running)
  BY TwoBudgets DEF RequestsInv, TypeOK, RequestTypeOK
<1>2. /\ Waiting \subseteq Reqs /\ Running \subseteq Reqs /\ Alive = Waiting \cup Running
      /\ IsFiniteSet(Waiting) /\ IsFiniteSet(Running) /\ Waiting \cap Running = {}
  BY <1>1, TablesGive DEF Alive, TableTypeOK, Running
<1>3. PendingLoses(L) /\ ActiveLoses(M)
  BY DEF Losing
<1>4. /\ pending' \in Seq(Reqs) /\ IsInjective(pending') /\ ByPriority(pending')
      /\ Waiting' = Waiting \ L
      /\ DOMAIN pendingById' \subseteq DOMAIN pendingById
      /\ pendingById' \in [DOMAIN pendingById' -> Reqs]
      /\ \A i \in DOMAIN pendingById' : pendingById'[i] = pendingById[i]
      /\ Range(pendingById') = Waiting \ L
  BY <1>1, <1>3, PendingShrinks
<1>5. /\ Running' = Running \ M /\ IsFiniteSet(Running')
      /\ DOMAIN active' \subseteq DOMAIN active
      /\ active' \in [DOMAIN active' -> Reqs]
      /\ \A i \in DOMAIN active' : active'[i] = active[i]
  BY <1>1, <1>3, ActiveShrinks
<1>6. TableTypeOK'
  BY <1>1, <1>4, <1>5 DEF TableTypeOK, Running
<1>7. TablesInv'
  BY <1>1, <1>4, <1>5 DEF TablesInv, Waiting
<1>8. Alive' = Alive \ (L \cup M) /\ Waiting' \subseteq Waiting
  BY <1>2, <1>4, <1>5 DEF Alive
<1>9. \A r \in Reqs : OutcomeInv(r)'
  <2> SUFFICES ASSUME NEW r \in Reqs PROVE OutcomeInv(r)'
    OBVIOUS
  <2>1. CASE r \in L \cup M
    <3>1. RequestEnds(r) /\ r \in Alive /\ r \notin Alive' /\ r \notin Waiting'
      BY <1>2, <1>8, <2>1 DEF Losing, Alive
    <3> QED
      BY <1>1, <3>1, EndingKeeps
  <2>2. CASE r \notin L \cup M
    <3>1. RequestStays(r) /\ (r \in Alive' <=> r \in Alive) /\ (r \in Waiting' => r \in Waiting)
      BY <1>8, <2>2 DEF Losing
    <3> QED
      BY <1>1, <3>1, StayingKeeps
  <2> QED
    BY <2>1, <2>2
<1>10. BudgetsHold'
  <2>1. PendingBudget(Waiting \ L) /\ ActiveBudget(Running \ M)
    BY <1>1, <1>2, BudgetsShrink
  <2>2. (PendingBudget(Waiting) /\ ActiveBudget(Running))'
    BY <1>4, <1>5, <2>1 DEF PendingBudget, ActiveBudget
  <2>3. (BudgetsHold <=> PendingBudget(Waiting) /\ ActiveBudget(Running))'
    BY TwoBudgets, PTL
  <2> QED
    BY <2>2, <2>3
<1>11. ByPriority(pending)'
  BY <1>4 DEF ByPriority
<1>12. QED
  BY <1>6, <1>7, <1>9, <1>10, <1>11 DEF PlacesInv

(* The fields of the requests that a step may write.                       *)
FieldsOK ==
  /\ queue \in [Reqs -> Seq(Events)]
  /\ cancelled \in [Reqs -> BOOLEAN] /\ finished \in [Reqs -> BOOLEAN]
  /\ counted \in [Reqs -> Seq(Outcomes)]

FieldsStay(r) ==
  /\ queue'[r] = queue[r] /\ cancelled'[r] = cancelled[r] /\ finished'[r] = finished[r]
  /\ counted'[r] = counted[r]

(* _timeout_request and _fail_request end the requests of R, ...           *)
LEMMA EndAllTogether ==
  ASSUME RequestsInv, NEW R \in SUBSET Alive, NEW e \in Events, NEW outcome \in Outcomes,
         EndAll(R, e, outcome), got' = got, \A r \in R : stream'[r] = stream[r],
         \/ e = Timeout /\ outcome = "timed_out"
         \/ e = Error /\ outcome = "failed"
  PROVE  /\ \A r \in R : RequestEnds(r)
         /\ \A r \in Reqs \ R : FieldsStay(r)
         /\ FieldsOK'
<1>1. RequestTypeOK /\ RecordTypeOK /\ TablesInv /\ \A r \in Reqs : OutcomeInv(r)
  BY DEF RequestsInv, TypeOK, RequestTypeOK
<1>2. R \subseteq Reqs
  BY <1>1, TablesGive
<1>3. \A r \in R : RequestEnds(r) /\ queue'[r] \in Seq(Events) /\ counted'[r] \in Seq(Outcomes)
  <2> SUFFICES ASSUME NEW r \in R
               PROVE  RequestEnds(r) /\ queue'[r] \in Seq(Events) /\ counted'[r] \in Seq(Outcomes)
    OBVIOUS
  <2>1. r \in Reqs /\ r \in Alive /\ OutcomeInv(r)
    BY <1>1, <1>2
  <2>2. counted[r] = << >> /\ queue[r] \in Seq(Events)
    BY <1>1, <2>1, AliveIsOpen, RequestTypes
  <2>3. /\ queue'[r] = Closed(queue[r], e) /\ finished'[r] = TRUE
        /\ counted'[r] = counted[r] \o OutcomesOf(r, outcome)
        /\ got'[r] = got[r] /\ stream'[r] = stream[r]
    BY <1>2, <2>1 DEF EndAll
  <2>4. /\ Closes(queue[r], queue'[r], e)
        /\ Full(r) => Closes(queue[r], queue'[r], STOP)
    <3>1. Full(r) => ~(Len(queue[r]) < QueueSize)
      BY <1>1, <2>1, RequestTypes, Constants DEF Full
    <3> QED
      BY <2>2, <2>3, <3>1, ClosedCloses
  <2>5. CASE Full(r)
    <3>1. OutcomesOf(r, outcome) = <<outcome, "cancelled">>
      BY <2>5 DEF OutcomesOf
    <3>2. counted'[r] = <<outcome, "cancelled">>
      BY <2>2, <2>3, <3>1
    <3>3. outcome \in {"timed_out", "failed"}
      OBVIOUS
    <3>4. counted'[r] \in {<<"timed_out", "cancelled">>, <<"failed", "cancelled">>}
      BY <3>2, <3>3
    <3>5. counted'[r] # << >> /\ counted'[r] \in Seq(Outcomes)
      BY <3>2 DEF Outcomes
    <3>6. STOP \in Events /\ STOP[1] # "token" /\ EndedAs(r, STOP[1])'
      BY <3>5, Kinds DEF EndedAs
    <3>7. queue'[r] \in Seq(Events)
      BY <2>4 DEF Closes
    <3>8. RequestEnds(r)
      BY <2>3, <2>4, <2>5, <3>4, <3>5, <3>6 DEF RequestEnds
    <3> QED
      BY <3>5, <3>7, <3>8
  <2>6. CASE ~Full(r)
    <3>1. OutcomesOf(r, outcome) = <<outcome>>
      BY <2>6 DEF OutcomesOf
    <3>2. counted'[r] = <<outcome>>
      BY <2>2, <2>3, <3>1
    <3>3. counted'[r] # << >> /\ counted'[r] \in Seq(Outcomes) /\ Len(counted'[r]) = 1
      BY <3>2 DEF Outcomes
    <3>4. e[1] # "token" /\ EndedAs(r, e[1])'
      BY <3>2, <3>3, Kinds DEF EndedAs
    <3>5. queue'[r] \in Seq(Events)
      BY <2>4 DEF Closes
    <3>6. RequestEnds(r)
      BY <2>3, <2>4, <3>3, <3>4 DEF RequestEnds
    <3> QED
      BY <3>3, <3>5, <3>6
  <2> QED
    BY <2>5, <2>6
<1>4. \A r \in Reqs \ R : FieldsStay(r)
  <2> SUFFICES ASSUME NEW r \in Reqs \ R PROVE FieldsStay(r)
    OBVIOUS
  <2>1. cancelled[r] \in BOOLEAN /\ finished[r] \in BOOLEAN
    BY <1>1 DEF RecordTypeOK
  <2> QED
    BY <2>1 DEF EndAll, FieldsStay
<1>5. FieldsOK'
  <2>1. \A r \in Reqs : queue'[r] \in Seq(Events) /\ counted'[r] \in Seq(Outcomes)
    BY <1>1, <1>3, <1>4 DEF FieldsStay, RecordTypeOK
  <2>2. /\ queue' = [r \in Reqs |-> IF r \in R THEN Closed(queue[r], e) ELSE queue[r]]
        /\ counted' = [r \in Reqs |->
             IF r \in R THEN counted[r] \o OutcomesOf(r, outcome) ELSE counted[r]]
        /\ finished' = [r \in Reqs |-> finished[r] \/ r \in R]
        /\ cancelled' = [r \in Reqs |-> cancelled[r] \/ (r \in R /\ Full(r))]
    BY DEF EndAll
  <2>3. queue' \in [Reqs -> Seq(Events)] /\ counted' \in [Reqs -> Seq(Outcomes)]
    BY <2>1, <2>2
  <2>4. finished' \in [Reqs -> BOOLEAN] /\ cancelled' \in [Reqs -> BOOLEAN]
    BY <2>2
  <2> QED
    BY <2>3, <2>4 DEF FieldsOK
<1>6. QED
  BY <1>3, <1>4, <1>5

(* ... and touch no other.                                                 *)
LEMMA EndAllEnds ==
  ASSUME RequestsInv, NEW R \in SUBSET Alive, NEW e \in Events, NEW outcome \in Outcomes,
         EndAll(R, e, outcome), UNCHANGED <<stream, got>>,
         \/ e = Timeout /\ outcome = "timed_out"
         \/ e = Error /\ outcome = "failed"
  PROVE  /\ \A r \in R : RequestEnds(r)
         /\ \A r \in Reqs \ R : RequestStays(r)
         /\ FieldsOK'
<1>1. /\ \A r \in R : RequestEnds(r)
      /\ \A r \in Reqs \ R : FieldsStay(r)
      /\ FieldsOK'
  BY EndAllTogether
<1>2. QED
  BY <1>1 DEF FieldsStay, RequestStays

(* One request s ends: it is cancelled, or its last output comes.          *)
EndsOne(s, q, outcome) ==
  /\ queue' = [queue EXCEPT ![s] = q]
  /\ counted' = [counted EXCEPT ![s] = Append(@, outcome)]
  /\ finished' \in [Reqs -> BOOLEAN] /\ cancelled' \in [Reqs -> BOOLEAN]
  /\ \A r \in Reqs \ {s} : /\ finished'[r] = finished[r] /\ cancelled'[r] = cancelled[r]
                            /\ stream'[r] = stream[r]
  /\ finished'[s] = TRUE /\ stream'[s] \in {stream[s], "left"} /\ got' = got

(* That is an end as the invariant knows it.                               *)
LEMMA OneEnds ==
  ASSUME RequestsInv, NEW s \in Alive, NEW e \in Events, NEW outcome \in Outcomes,
         \/ e = STOP /\ outcome = "cancelled"
         \/ e[1] = "final" /\ outcome = "finished",
         NEW q, Closes(queue[s], q, e), EndsOne(s, q, outcome)
  PROVE  /\ RequestEnds(s)
         /\ \A r \in Reqs \ {s} : RequestStays(r)
         /\ FieldsOK'
<1>1. RequestTypeOK /\ RecordTypeOK /\ TablesInv /\ \A r \in Reqs : OutcomeInv(r)
  BY DEF RequestsInv, TypeOK, RequestTypeOK
<1>2. s \in Reqs
  BY <1>1, TablesGive
<1>3. counted[s] = << >>
  BY <1>1, <1>2, AliveIsOpen
<1>4. q \in Seq(Events)
  BY DEF Closes
<1>5. /\ queue \in [Reqs -> Seq(Events)] /\ counted \in [Reqs -> Seq(Outcomes)]
  BY <1>1 DEF RecordTypeOK
<1>6. queue'[s] = q /\ counted'[s] = <<outcome>>
  BY <1>2, <1>3, <1>5 DEF EndsOne
<1>7. <<outcome>> # << >> /\ <<outcome>> \in Seq(Outcomes) /\ Len(<<outcome>>) = 1
  OBVIOUS
<1>8. e[1] # "token" /\ EndedAs(s, e[1])'
  BY <1>6, <1>7, Kinds DEF EndedAs
<1>9. RequestEnds(s)
  <2>1. \E x \in Events : x[1] # "token" /\ EndedAs(s, x[1])' /\ Closes(queue[s], queue'[s], x)
    BY <1>6, <1>8
  <2>2. counted'[s] # << >> /\ ~(Len(counted'[s]) > 1)
    <3>1. \A c : c = <<outcome>> => c # << >> /\ ~(Len(c) > 1)
      OBVIOUS
    <3> QED
      BY <1>6, <3>1, Zenon
  <2>3. got'[s] = got[s] /\ finished'[s] = TRUE /\ stream'[s] \in {stream[s], "left"}
    BY DEF EndsOne
  <2> QED
    BY <2>1, <2>2, <2>3 DEF RequestEnds
<1>10. \A r \in Reqs \ {s} : RequestStays(r)
  BY <1>5 DEF RequestStays, EndsOne
<1>11. queue' \in [Reqs -> Seq(Events)] /\ counted' \in [Reqs -> Seq(Outcomes)]
  <2>1. counted' = [counted EXCEPT ![s] = <<outcome>>]
    BY <1>2, <1>3, <1>5 DEF EndsOne
  <2> QED
    BY <1>2, <1>4, <1>5, <1>7, <2>1 DEF EndsOne
<1>12. QED
  BY <1>9, <1>10, <1>11 DEF FieldsOK, EndsOne

(* abort of a request that is there.                                       *)
LEMMA AbortEnds ==
  ASSUME RequestsInv, NEW i \in DOMAIN pendingById \cup DOMAIN active, AbortId(i),
         finished' = [q \in Reqs |-> finished[q] \/ q \in Aborted(i)],
         got' = got, \A q \in Reqs : \/ stream'[q] = stream[q]
                                     \/ Id[q] = i /\ q \in Alive /\ stream'[q] = "left"
  PROVE  /\ \E L \in SUBSET Waiting, M \in SUBSET Running :
              /\ Losing(L, M)
              /\ engine' = engine \/ \E R \in SUBSET Reqs : engine' = Without(engine, R)
         /\ FieldsOK'
<1>1. RequestTypeOK /\ RecordTypeOK /\ TableTypeOK /\ TablesInv /\ \A r \in Reqs : OutcomeInv(r)
  BY DEF RequestsInv, TypeOK, RequestTypeOK
<1>2. /\ Alive \subseteq Reqs /\ Alive = Waiting \cup Running
      /\ \A r \in Running : Id[r] \in DOMAIN active /\ active[Id[r]] = r
      /\ \A r \in Waiting : Id[r] \in DOMAIN pendingById /\ pendingById[Id[r]] = r
  BY <1>1, TablesGive DEF Alive
<1>0. PICK s : s = IF i \in DOMAIN pendingById THEN pendingById[i] ELSE active[i]
  OBVIOUS
<1>3. /\ i \in DOMAIN pendingById => s \in Waiting
      /\ i \notin DOMAIN pendingById => s \in Running /\ i \in DOMAIN active
      /\ Id[s] = i
  BY <1>0, <1>1 DEF TablesInv, Range, Running
<1>4. /\ cancelled' = [cancelled EXCEPT ![s] = TRUE]
      /\ counted' = [counted EXCEPT ![s] = Append(@, "cancelled")]
      /\ queue' = [queue EXCEPT ![s] = Stopped(@)]
      /\ IF i \in DOMAIN pendingById
         THEN /\ pendingById' = Without(pendingById, {i})
              /\ pending' = PendingWithout({s})
              /\ UNCHANGED <<active, engine>>
         ELSE /\ engine' = Without(engine, {s})
              /\ active' = Without(active, {i})
              /\ UNCHANGED <<pending, pendingById>>
  BY <1>0 DEF AbortId
<1>5. s \in Alive /\ s \in Reqs
  BY <1>2, <1>3
<1>6. \A q \in Alive : Id[q] = i => q = s
  <2>1. \A q \in Waiting : Id[q] = i => q = s
    BY <1>0, <1>2
  <2>2. \A q \in Running : Id[q] = i => q = s
    BY <1>0, <1>1, <1>2 DEF TablesInv
  <2> QED
    BY <1>2, <2>1, <2>2
<1>7. Aborted(i) = {s}
  BY <1>2, <1>3, <1>5, <1>6 DEF Aborted, Waiting, Running
<1>8. IdsOf({s}) = {i}
  BY <1>3 DEF IdsOf
<1>9. /\ RequestEnds(s)
      /\ \A r \in Reqs \ {s} : RequestStays(r)
      /\ FieldsOK'
  <2>1. /\ queue[s] \in Seq(Events)
        /\ finished \in [Reqs -> BOOLEAN] /\ cancelled \in [Reqs -> BOOLEAN]
    BY <1>1, <1>5 DEF RecordTypeOK
  <2>2. Closes(queue[s], Stopped(queue[s]), STOP)
    BY <2>1, StoppedCloses
  <2>3. queue' = [queue EXCEPT ![s] = Stopped(queue[s])]
    BY <1>4
  <2>4. finished' = [q \in Reqs |-> finished[q] \/ q \in {s}]
    BY <1>7
  <2>5. finished' \in [Reqs -> BOOLEAN] /\ cancelled' \in [Reqs -> BOOLEAN]
    BY <1>4, <2>1, <2>4
  <2>6. /\ \A r \in Reqs \ {s} : /\ finished'[r] = finished[r] /\ cancelled'[r] = cancelled[r]
                                 /\ stream'[r] = stream[r]
        /\ finished'[s] = TRUE /\ stream'[s] \in {stream[s], "left"}
    BY <1>4, <1>5, <1>6, <2>1, <2>4
  <2>7. STOP \in Events /\ "cancelled" \in Outcomes
    BY Kinds DEF Outcomes
  <2>8. counted' = [counted EXCEPT ![s] = Append(@, "cancelled")]
    BY <1>4
  <2>9. EndsOne(s, Stopped(queue[s]), "cancelled")
    BY <2>3, <2>5, <2>6, <2>8 DEF EndsOne
  <2> QED
    BY <1>5, <2>2, <2>7, <2>9, OneEnds
<1>10. CASE i \in DOMAIN pendingById
  <2>1. PendingLoses({s}) /\ ActiveLoses({}) /\ engine' = engine
    BY <1>4, <1>8, <1>10 DEF PendingLoses, ActiveLoses
  <2>2. Losing({s}, {}) /\ {s} \in SUBSET Waiting /\ {} \in SUBSET Running
    BY <1>3, <1>9, <1>10, <2>1 DEF Losing
  <2> QED
    BY <1>9, <2>1, <2>2
<1>11. CASE i \notin DOMAIN pendingById
  <2>1. /\ PendingLoses({}) /\ ActiveLoses({s})
        /\ {s} \in SUBSET Reqs /\ engine' = Without(engine, {s})
    BY <1>4, <1>5, <1>8, <1>11 DEF PendingLoses, ActiveLoses
  <2>2. Losing({}, {s}) /\ {} \in SUBSET Waiting /\ {s} \in SUBSET Running
    BY <1>3, <1>9, <1>11, <2>1 DEF Losing
  <2> QED
    BY <1>9, <2>1, <2>2
<1>12. QED
  BY <1>10, <1>11

-----------------------------------------------------------------------------
(* Steps that keep RequestsInv                                             *)

(* What a loop has still to deliver.                                       *)
OutsOK == outs \in [Loops -> Seq(Ids \X Outputs)]

(* No request is touched.                                                  *)
LEMMA StillKeeps ==
  ASSUME RequestsInv, UNCHANGED <<queueVars, requestVars, clientVars>>, OutsOK', LoopTypeOK'
  PROVE  RequestsInv'
<1>1. /\ TableTypeOK /\ RecordTypeOK /\ TablesInv /\ ByPriority(pending) /\ BudgetsHold
      /\ \A r \in Reqs : OutcomeInv(r)
  BY DEF RequestsInv, TypeOK, RequestTypeOK
<1>2. UNCHANGED <<pending, pendingById, active>>
  BY DEF queueVars
<1>3. UNCHANGED <<queue, cancelled, finished, counted, stream, got>>
  BY DEF requestVars, clientVars
<1>4. TableTypeOK' /\ TablesInv' /\ ByPriority(pending)' /\ BudgetsHold'
  BY <1>1, <1>2 DEF TableTypeOK, TablesInv, ByPriority, BudgetsHold, Waiting
<1>5. RecordTypeOK'
  BY <1>1, <1>3 DEF RecordTypeOK, OutsOK
<1>6. Waiting' = Waiting /\ Alive' = Alive
  BY <1>2 DEF Alive, Waiting, Running
<1>7. \A r \in Reqs : OutcomeInv(r)'
  <2> SUFFICES ASSUME NEW r \in Reqs PROVE OutcomeInv(r)'
    OBVIOUS
  <2>1. OutcomeInv(r) /\ RequestStays(r)
    BY <1>1, <1>3 DEF RequestStays
  <2> QED
    BY <1>6, <2>1, StayingKeeps
<1>8. QED
  BY <1>4, <1>5, <1>7 DEF RequestsInv, TypeOK, RequestTypeOK

(* Some requests end.                                                      *)
LEMMA EndsKeep ==
  ASSUME RequestsInv, NEW L \in SUBSET Waiting, NEW M \in SUBSET Running, Losing(L, M),
         FieldsOK', stream' \in [Reqs -> Streams], got' = got, OutsOK', LoopTypeOK'
  PROVE  RequestsInv'
<1>1. PlacesInv'
  BY LosingKeeps
<1>2. RecordTypeOK'
  BY DEF RequestsInv, TypeOK, RequestTypeOK, RecordTypeOK, FieldsOK, OutsOK
<1>3. QED
  BY <1>1, <1>2 DEF RequestsInv, PlacesInv, TypeOK, RequestTypeOK

(* The types, one by one.                                                  *)
LEMMA Types ==
  ASSUME RequestsInv
  PROVE  /\ RequestTypeOK /\ TableTypeOK /\ RecordTypeOK /\ LoopTypeOK /\ OutsOK
         /\ TablesInv /\ ByPriority(pending) /\ \A r \in Reqs : OutcomeInv(r)
         /\ stream \in [Reqs -> Streams]
         /\ Alive \subseteq Reqs /\ Alive = Waiting \cup Running
<1>1. /\ RequestTypeOK /\ TableTypeOK /\ RecordTypeOK /\ LoopTypeOK
      /\ TablesInv /\ ByPriority(pending) /\ \A r \in Reqs : OutcomeInv(r)
  BY DEF RequestsInv, TypeOK, RequestTypeOK
<1>2. QED
  BY <1>1, TablesGive DEF Alive, RecordTypeOK, OutsOK

(* The engine without some requests.                                       *)
LEMMA EngineWithout ==
  ASSUME LoopTypeOK, NEW R
  PROVE  LET e == Without(engine, R)
         IN  /\ DOMAIN e = DOMAIN engine \ R
             /\ DOMAIN e \subseteq Reqs /\ IsFiniteSet(DOMAIN e)
             /\ e \in [DOMAIN e -> Nat \cup {-1}]
             /\ \A r \in DOMAIN e : e[r] = engine[r]
<1>1. /\ DOMAIN Without(engine, R) = DOMAIN engine \ R
      /\ \A r \in DOMAIN Without(engine, R) : Without(engine, R)[r] = engine[r]
      /\ Without(engine, R) \in [DOMAIN Without(engine, R) -> Nat \cup {-1}]
  BY DEF LoopTypeOK, Without, Restrict
<1>2. DOMAIN engine \subseteq Reqs /\ IsFiniteSet(DOMAIN engine)
  BY DEF LoopTypeOK
<1>3. IsFiniteSet(DOMAIN engine \ R)
  <2>1. DOMAIN engine \ R \in SUBSET DOMAIN engine
    OBVIOUS
  <2> QED
    BY <1>2, <2>1, FS_Subset
<1>4. QED
  BY <1>1, <1>2, <1>3

(* A loop moves on.                                                        *)
LEMMA LoopMoves ==
  ASSUME LoopTypeOK, NEW t \in Loops, NEW s \in Stages, loop' = [loop EXCEPT ![t] = s],
         UNCHANGED lifeVars,
         UNCHANGED engine \/ \E R : engine' = Without(engine, R)
  PROVE  LoopTypeOK'
<1>1. UNCHANGED <<up, fatal, draining, shutdown, task, oper>>
  BY DEF lifeVars
<1>2. /\ DOMAIN engine' \subseteq Reqs /\ IsFiniteSet(DOMAIN engine')
      /\ engine' \in [DOMAIN engine' -> Nat \cup {-1}]
  <2>1. CASE UNCHANGED engine
    BY <2>1 DEF LoopTypeOK
  <2>2. CASE \E R : engine' = Without(engine, R)
    <3>1. PICK R : engine' = Without(engine, R)
      BY <2>2
    <3>2. /\ DOMAIN Without(engine, R) \subseteq Reqs /\ IsFiniteSet(DOMAIN Without(engine, R))
          /\ Without(engine, R) \in [DOMAIN Without(engine, R) -> Nat \cup {-1}]
      BY EngineWithout
    <3> QED
      BY <3>1, <3>2
  <2> QED
    BY <2>1, <2>2
<1>3. loop' \in [Loops -> Stages]
  BY DEF LoopTypeOK
<1>4. QED
  BY <1>1, <1>2, <1>3 DEF LoopTypeOK

(* Stages of the loop.                                                     *)
LEMMA StagesAre ==
  /\ {"done", "new", "idle", "out", "top", "drain", "admit", "step", "deliver"} = Stages
  /\ Suspended \subseteq Stages
BY DEF Stages, Suspended

(* The loop where it does not touch requests.                              *)
LEMMA QuietTurnKeeps ==
  ASSUME RequestsInv, NEW t \in Loops, LoopEnds(t) \/ LoopIdles(t)
  PROVE  RequestsInv'
<1>1. /\ UNCHANGED <<queueVars, requestVars, clientVars>> /\ UNCHANGED lifeVars
      /\ UNCHANGED outs /\ UNCHANGED engine
      /\ \E s \in Stages : loop' = [loop EXCEPT ![t] = s]
  BY StagesAre DEF LoopEnds, LoopIdles
<1>2. OutsOK'
  BY <1>1, Types DEF OutsOK
<1>3. LoopTypeOK'
  BY <1>1, Types, LoopMoves
<1>4. QED
  BY <1>1, <1>2, <1>3, StillKeeps

(* Expired requests, in the loop.                                          *)
LEMMA ExpiryKeeps ==
  ASSUME RequestsInv, NEW L \in SUBSET Waiting, NEW M \in SUBSET Running,
         PendingLoses(L), ActiveLoses(M), EndAll(L \cup M, Timeout, "timed_out"),
         UNCHANGED clientVars, UNCHANGED outs, LoopTypeOK'
  PROVE  RequestsInv'
<1>1. L \cup M \in SUBSET Alive
  BY DEF Alive
<1>2. Timeout \in Events /\ "timed_out" \in Outcomes /\ UNCHANGED <<stream, got>>
  BY Kinds DEF Outcomes, clientVars
<1>3. /\ \A r \in L \cup M : RequestEnds(r)
      /\ \A r \in Reqs \ (L \cup M) : RequestStays(r)
      /\ FieldsOK'
  BY <1>1, <1>2, EndAllEnds
<1>4. Losing(L, M)
  BY <1>3 DEF Losing
<1>5. OutsOK' /\ stream' \in [Reqs -> Streams] /\ got' = got
  BY <1>2, Types DEF OutsOK
<1>6. QED
  BY <1>3, <1>4, <1>5, EndsKeep

(* The loop where it expires requests.                                     *)
LEMMA ExpiringTurnKeeps ==
  ASSUME RequestsInv, NEW t \in Loops,
         LoopExpires(t) \/ DrainExpires(t) \/ DrainEnds(t) \/ LoopTurns(t)
  PROVE  RequestsInv'
<1>1. CASE LoopExpires(t)
  <2>1. PICK L \in SUBSET Waiting, M \in SUBSET Running :
          /\ PendingLoses(L) /\ ActiveLoses(M) /\ EndAll(L \cup M, Timeout, "timed_out")
          /\ engine' = Without(engine, M)
    BY <1>1 DEF LoopExpires, Waiting, Running, PendingLoses, ActiveLoses
  <2>2. UNCHANGED clientVars /\ UNCHANGED outs
    BY <1>1 DEF LoopExpires
  <2>3. LoopTypeOK'
    BY <1>1, <2>1, Types, StagesAre, LoopMoves DEF LoopExpires
  <2> QED
    BY <2>1, <2>2, <2>3, ExpiryKeeps
<1>2. CASE DrainExpires(t)
  <2>1. PICK L \in SUBSET Waiting :
          PendingLoses(L) /\ EndAll(L, Timeout, "timed_out")
    BY <1>2 DEF DrainExpires, ExpirePending, Waiting, PendingLoses
  <2>2. UNCHANGED clientVars /\ UNCHANGED outs /\ UNCHANGED active
    BY <1>2 DEF DrainExpires
  <2>3. ActiveLoses({}) /\ L \cup {} = L
    BY <2>2 DEF ActiveLoses
  <2>4. LoopTypeOK'
    BY <1>2, Types, StagesAre, LoopMoves DEF DrainExpires
  <2> QED
    BY <2>1, <2>2, <2>3, <2>4, ExpiryKeeps
<1>3. CASE DrainEnds(t) \/ LoopTurns(t)
  <2>1. PICK M \in SUBSET Running :
          /\ ActiveLoses(M) /\ EndAll(M, Timeout, "timed_out")
          /\ engine' = Without(engine, M)
    BY <1>3 DEF DrainEnds, LoopTurns, ExpireActive, Running, ActiveLoses
  <2>2. UNCHANGED clientVars /\ UNCHANGED outs /\ UNCHANGED <<pending, pendingById>>
    BY <1>3 DEF DrainEnds, LoopTurns
  <2>3. PendingLoses({}) /\ {} \cup M = M
    BY <2>2 DEF PendingLoses
  <2>4. LoopTypeOK'
    <3>1. UNCHANGED lifeVars /\ \E s \in Stages : loop' = [loop EXCEPT ![t] = s]
      BY <1>3, StagesAre DEF DrainEnds, LoopTurns
    <3> QED
      BY <2>1, <3>1, Types, LoopMoves
  <2> QED
    BY <2>1, <2>2, <2>3, <2>4, ExpiryKeeps
<1>4. QED
  BY <1>1, <1>2, <1>3

(* The next request into the engine.                                       *)
LEMMA NextAdmitted ==
  ASSUME RequestsInv, Admissible # {}, NEW r, r = pending[Min(Admissible)]
  PROVE  /\ r \in Waiting /\ r \in Reqs /\ CanAdmitActive(r)
         /\ Min(Admissible) \in DOMAIN pending
         /\ \A k \in Admissible : Min(Admissible) <= k
<1>1. /\ pending \in Seq(Reqs) /\ DOMAIN pending = 1..Len(pending)
      /\ \A k \in DOMAIN pending : pending[k] \in Reqs /\ pending[k] \in Waiting
  BY Types, MembersOf, ElementOfSeq DEF TableTypeOK, Waiting, ToSet
<1>2. Admissible \in SUBSET Nat
  BY <1>1 DEF Admissible
<1>3. Min(Admissible) \in Admissible /\ \A k \in Admissible : Min(Admissible) <= k
  BY <1>2, SmallestOf
<1>4. QED
  BY <1>1, <1>3 DEF Admissible

(* The tables when r is admitted.                                          *)
LEMMA AdmissionFacts ==
  ASSUME RequestsInv, NEW r \in Waiting, CanAdmitActive(r),
         pending' = PendingWithout({r}), pendingById' = Without(pendingById, {Id[r]}),
         active' = [i \in DOMAIN active \cup {Id[r]} |-> IF i = Id[r] THEN r ELSE active[i]]
  PROVE  /\ TableTypeOK' /\ TablesInv' /\ ByPriority(pending)' /\ BudgetsHold'
         /\ Waiting' = Waiting \ {r} /\ Running' = Running \cup {r}
         /\ Alive' = Alive
<1>1. /\ TableTypeOK /\ RequestTypeOK /\ TablesInv /\ ByPriority(pending)
      /\ Alive \subseteq Reqs /\ Alive = Waiting \cup Running
  BY Types
<1>2. /\ Id[r] \in DOMAIN pendingById /\ pendingById[Id[r]] = r /\ r \in Reqs
      /\ Waiting \cap Running = {} /\ IsFiniteSet(Waiting)
  BY <1>1, TablesGive
<1>3. PendingLoses({r})
  <2>1. IdsOf({r}) = {Id[r]}
    BY DEF IdsOf
  <2> QED
    BY <2>1 DEF PendingLoses
<1>4. /\ pending' \in Seq(Reqs) /\ IsInjective(pending') /\ ByPriority(pending')
      /\ Waiting' = Waiting \ {r}
      /\ DOMAIN pendingById' \subseteq DOMAIN pendingById
      /\ pendingById' \in [DOMAIN pendingById' -> Reqs]
      /\ \A i \in DOMAIN pendingById' : pendingById'[i] = pendingById[i]
      /\ Range(pendingById') = Waiting \ {r}
  <2>1. {r} \in SUBSET Waiting
    OBVIOUS
  <2> QED
    BY <1>1, <1>3, <2>1, PendingShrinks
<1>5. Id[r] \notin DOMAIN active /\ Id[r] \notin DOMAIN pendingById'
  <2>1. Id[r] \notin DOMAIN active
    BY <1>1, <1>2 DEF TablesInv
  <2>2. ASSUME Id[r] \in DOMAIN pendingById' PROVE FALSE
    <3>1. pendingById'[Id[r]] = r /\ r \in Range(pendingById')
      BY <1>2, <1>4, <2>2 DEF Range
    <3> QED
      BY <1>4, <3>1
  <2> QED
    BY <2>1, <2>2
<1>6. /\ DOMAIN active' = DOMAIN active \cup {Id[r]} /\ DOMAIN active' \subseteq Ids
      /\ active' \in [DOMAIN active' -> Reqs]
      /\ active'[Id[r]] = r /\ \A i \in DOMAIN active : active'[i] = active[i]
      /\ Running' = Running \cup {r}
  <2>1. DOMAIN active \subseteq Ids /\ active \in [DOMAIN active -> Reqs]
    BY <1>1 DEF TableTypeOK
  <2>2. /\ DOMAIN active' = DOMAIN active \cup {Id[r]} /\ DOMAIN active' \subseteq Ids
        /\ active' \in [DOMAIN active' -> Reqs]
        /\ active'[Id[r]] = r /\ \A i \in DOMAIN active : active'[i] = active[i]
        /\ Range(active') = Range(active) \cup {r}
    <3>1. \A g : g = [i \in DOMAIN active \cup {Id[r]} |-> IF i = Id[r] THEN r ELSE active[i]] =>
            /\ DOMAIN g = DOMAIN active \cup {Id[r]} /\ DOMAIN g \subseteq Ids
            /\ g \in [DOMAIN g -> Reqs]
            /\ g[Id[r]] = r /\ \A i \in DOMAIN active : g[i] = active[i]
            /\ Range(g) = Range(active) \cup {r}
      BY <1>2, <1>5, <2>1, WithOneFacts
    <3> QED
      BY <3>1
  <2> QED
    BY <2>2 DEF Running
<1>7. IsFiniteSet(Running) /\ IsFiniteSet(Running')
  <2>1. IsFiniteSet(Running)
    BY <1>1 DEF TableTypeOK, Running
  <2> QED
    BY <1>6, <2>1, FS_AddElement
<1>8. TableTypeOK'
  BY <1>1, <1>4, <1>6, <1>7 DEF TableTypeOK, Running
<1>9. TablesInv'
  <2>1. Waiting' = Range(pendingById')
    BY <1>4
  <2>2. DOMAIN pendingById' \cap DOMAIN active' = {}
    BY <1>1, <1>4, <1>5, <1>6 DEF TablesInv
  <2>3. \A i \in DOMAIN pendingById' : Id[pendingById'[i]] = i
    BY <1>1, <1>4 DEF TablesInv
  <2>4. \A i \in DOMAIN active' : Id[active'[i]] = i
    BY <1>1, <1>6 DEF TablesInv
  <2> QED
    BY <2>1, <2>2, <2>3, <2>4 DEF TablesInv
<1>10. BudgetsHold'
  <2>1. PendingBudget(Waiting) /\ ActiveBudget(Running)
    BY TwoBudgets DEF RequestsInv
  <2>2. PendingBudget(Waiting \ {r})
    BY <1>1, <1>2, <2>1, BudgetsShrink
  <2>3. ActiveBudget(Running \cup {r})
    BY <1>1, <1>2, <1>7, <2>1, AdmittedFits
  <2>4. (PendingBudget(Waiting) /\ ActiveBudget(Running))'
    BY <1>4, <1>6, <2>2, <2>3 DEF PendingBudget, ActiveBudget
  <2>5. (BudgetsHold <=> PendingBudget(Waiting) /\ ActiveBudget(Running))'
    BY TwoBudgets, PTL
  <2> QED
    BY <2>4, <2>5
<1>11. Alive' = Alive
  BY <1>1, <1>4, <1>6 DEF Alive
<1>12. QED
  BY <1>4, <1>6, <1>8, <1>9, <1>10, <1>11 DEF ByPriority

(* The loop where it admits a request.                                     *)
LEMMA DrainAdmitsKeeps ==
  ASSUME RequestsInv, NEW t \in Loops, DrainAdmits(t)
  PROVE  RequestsInv'
<1>0. PICK r : r = pending[Min(Admissible)]
  OBVIOUS
<1>1. /\ Admissible # {}
      /\ pending' = PendingWithout({r})
      /\ pendingById' = Without(pendingById, {Id[r]})
      /\ \/ /\ engine' = [q \in DOMAIN engine \cup {r} |-> IF q = r THEN -1 ELSE engine[q]]
            /\ active' = [i \in DOMAIN active \cup {Id[r]} |->
                            IF i = Id[r] THEN r ELSE active[i]]
            /\ UNCHANGED requestVars
         \/ EndAll({r}, Error, "failed") /\ UNCHANGED <<engine, active>>
      /\ loop' = [loop EXCEPT ![t] = "drain"]
      /\ UNCHANGED lifeVars /\ UNCHANGED outs /\ UNCHANGED <<stream, got>>
  BY <1>0 DEF DrainAdmits, clientVars
<1>2. r \in Waiting /\ r \in Reqs /\ CanAdmitActive(r)
  BY <1>0, <1>1, NextAdmitted
<1>3. /\ LoopTypeOK /\ OutsOK /\ RecordTypeOK /\ stream \in [Reqs -> Streams]
      /\ \A q \in Reqs : OutcomeInv(q)
  BY Types
<1>4. OutsOK' /\ stream' \in [Reqs -> Streams] /\ got' = got
  BY <1>1, <1>3 DEF OutsOK
<1>5. CASE /\ engine' = [q \in DOMAIN engine \cup {r} |-> IF q = r THEN -1 ELSE engine[q]]
           /\ active' = [i \in DOMAIN active \cup {Id[r]} |->
                           IF i = Id[r] THEN r ELSE active[i]]
           /\ UNCHANGED requestVars
  <2>1. /\ TableTypeOK' /\ TablesInv' /\ ByPriority(pending)' /\ BudgetsHold'
        /\ Waiting' = Waiting \ {r} /\ Alive' = Alive
    <3>1. /\ pending' = PendingWithout({r})
          /\ pendingById' = Without(pendingById, {Id[r]})
          /\ active' = [i \in DOMAIN active \cup {Id[r]} |-> IF i = Id[r] THEN r ELSE active[i]]
      BY <1>1, <1>5
    <3> QED
      BY <1>2, <3>1, AdmissionFacts
  <2>2. UNCHANGED <<queue, cancelled, finished, counted>>
    BY <1>5 DEF requestVars
  <2>3. \A q \in Reqs : OutcomeInv(q)'
    <3> SUFFICES ASSUME NEW q \in Reqs PROVE OutcomeInv(q)'
      OBVIOUS
    <3>1. RequestStays(q) /\ OutcomeInv(q)
      BY <1>1, <1>3, <2>2 DEF RequestStays
    <3> QED
      BY <2>1, <3>1, StayingKeeps
  <2>4. RecordTypeOK'
    BY <1>1, <1>3, <2>2 DEF RecordTypeOK
  <2>5. LoopTypeOK'
    <3>1. DOMAIN engine' = DOMAIN engine \cup {r} /\ engine' \in [DOMAIN engine' -> Nat \cup {-1}]
      BY <1>3, <1>5 DEF LoopTypeOK
    <3>2. DOMAIN engine' \subseteq Reqs /\ IsFiniteSet(DOMAIN engine')
      BY <1>2, <1>3, <3>1, FS_AddElement DEF LoopTypeOK
    <3>3. loop' \in [Loops -> Stages]
      BY <1>1, <1>3, StagesAre DEF LoopTypeOK
    <3> QED
      BY <1>1, <1>3, <3>1, <3>2, <3>3 DEF LoopTypeOK, lifeVars
  <2> QED
    BY <2>1, <2>3, <2>4, <2>5 DEF RequestsInv, TypeOK, RequestTypeOK
<1>6. CASE EndAll({r}, Error, "failed") /\ UNCHANGED <<engine, active>>
  <2>1. PendingLoses({r}) /\ ActiveLoses({}) /\ {r} \cup {} = {r}
    <3>1. IdsOf({r}) = {Id[r]}
      BY DEF IdsOf
    <3> QED
      BY <1>1, <1>6, <3>1 DEF PendingLoses, ActiveLoses
  <2>2. /\ {r} \in SUBSET Alive /\ {r} \in SUBSET Waiting /\ {} \in SUBSET Running
        /\ Error \in Events /\ "failed" \in Outcomes
    BY <1>2, Kinds DEF Alive, Outcomes
  <2>3. /\ \A q \in {r} : RequestEnds(q)
        /\ \A q \in Reqs \ {r} : RequestStays(q)
        /\ FieldsOK'
    BY <1>1, <1>6, <2>2, EndAllEnds
  <2>4. Losing({r}, {})
    BY <2>1, <2>3 DEF Losing
  <2>5. LoopTypeOK'
    <3>1. UNCHANGED engine /\ UNCHANGED lifeVars
      BY <1>1, <1>6
    <3>2. "drain" \in Stages /\ loop' = [loop EXCEPT ![t] = "drain"]
      BY <1>1, StagesAre
    <3> QED
      BY <1>3, <3>1, <3>2, LoopMoves
  <2> QED
    BY <1>4, <2>2, <2>3, <2>4, <2>5, EndsKeep
<1>7. QED
  BY <1>1, <1>5, <1>6

(* The loop when the engine fails: all requests end.                       *)
LEMMA LoopFailsKeeps ==
  ASSUME RequestsInv, NEW t \in Loops, LoopFails(t)
  PROVE  RequestsInv'
<1>1. LoopTypeOK /\ OutsOK /\ stream \in [Reqs -> Streams] /\ Alive = Waiting \cup Running
  BY Types
<1>2. /\ EndAll(Running \cup Waiting, Error, "failed")
      /\ pending' = << >> /\ pendingById' = << >> /\ active' = << >>
      /\ UNCHANGED <<stream, got, outs>>
  BY DEF LoopFails, Waiting, Running, clientVars
<1>3. Waiting \cup Running = Running \cup Waiting
  OBVIOUS
<1>4. /\ \A r \in Waiting \cup Running : RequestEnds(r)
      /\ \A r \in Reqs \ (Waiting \cup Running) : RequestStays(r)
      /\ FieldsOK'
  <2>1. Error \in Events /\ "failed" \in Outcomes /\ Waiting \cup Running \in SUBSET Alive
    BY <1>1, Kinds DEF Outcomes
  <2> QED
    BY <1>2, <1>3, <2>1, EndAllEnds
<1>5. Losing(Waiting, Running)
  BY <1>2, <1>4 DEF Losing, PendingLoses, ActiveLoses
<1>6. LoopTypeOK'
  <2>1. /\ DOMAIN engine' \subseteq Reqs /\ IsFiniteSet(DOMAIN engine')
        /\ engine' \in [DOMAIN engine' -> Nat \cup {-1}]
    <3> DEFINE R == {r \in Range(active) : Full(r)}
    <3>1. engine' = Without(engine, R)
      BY DEF LoopFails
    <3> HIDE DEF R
    <3>2. /\ DOMAIN Without(engine, R) \subseteq Reqs /\ IsFiniteSet(DOMAIN Without(engine, R))
          /\ Without(engine, R) \in [DOMAIN Without(engine, R) -> Nat \cup {-1}]
      BY <1>1, EngineWithout
    <3> QED
      BY <3>1, <3>2
  <2>2. /\ loop' = [loop EXCEPT ![t] = "done"] /\ fatal' = TRUE
        /\ UNCHANGED <<up, draining, shutdown, task, oper>>
    BY DEF LoopFails
  <2>3. loop' \in [Loops -> Stages]
    BY <1>1, <2>2, StagesAre DEF LoopTypeOK
  <2> QED
    BY <1>1, <2>1, <2>2, <2>3 DEF LoopTypeOK
<1>7. OutsOK' /\ stream' \in [Reqs -> Streams] /\ got' = got
  BY <1>1, <1>2 DEF OutsOK
<1>8. QED
  BY <1>4, <1>5, <1>6, <1>7, EndsKeep

(* engine.step: what it produces.                                          *)
NextToken(r) == IF MaxTokens[r] = 0 THEN 0 ELSE IF engine[r] < 0 THEN 1 ELSE engine[r] + 1
Computed(B, E, F) ==
  /\ B # {}
  /\ \A r \in B \ E : engine[r] = -1
  /\ \A r \in E \ F : NextToken(r) < MaxTokens[r]
  /\ engine' = [r \in DOMAIN engine \ F |->
       IF r \in E THEN NextToken(r) ELSE IF r \in B THEN 0 ELSE engine[r]]
PutOut(t, F, order) ==
  outs' = [outs EXCEPT ![t] = [k \in DOMAIN order |->
    <<Id[order[k]], IF order[k] \in F THEN Final(NextToken(order[k]))
                    ELSE Token(NextToken(order[k]))>>]]
Produced(t, B, E, F, order) ==
  /\ B \in SUBSET DOMAIN engine /\ E \in SUBSET B /\ F \in SUBSET E
  /\ Computed(B, E, F)
  /\ order \in SetToSeqs(E) /\ PutOut(t, F, order)

(* A step produces outputs.                                                *)
LEMMA StepProduces ==
  ASSUME NEW t \in Loops, Step(t)
  PROVE  /\ \E B, E, F, order : Produced(t, B, E, F, order)
         /\ loop[t] = "step" /\ loop' = [loop EXCEPT ![t] = "deliver"]
         /\ UNCHANGED <<queueVars, requestVars, lifeVars, clientVars>>
<1>1. PICK B \in SUBSET DOMAIN engine : \E E \in SUBSET B : \E F \in SUBSET E :
        Computed(B, E, F) /\ \E order \in SetToSeqs(E) : PutOut(t, F, order)
  <2>1. \E B \in SUBSET DOMAIN engine : \E E \in SUBSET B : \E F \in SUBSET E :
          /\ B # {}
          /\ \A r \in B \ E : engine[r] = -1
          /\ \A r \in E \ F : NextToken(r) < MaxTokens[r]
          /\ engine' = [r \in DOMAIN engine \ F |->
               IF r \in E THEN NextToken(r) ELSE IF r \in B THEN 0 ELSE engine[r]]
          /\ \E order \in SetToSeqs(E) : PutOut(t, F, order)
    BY Zenon DEF Step, NextToken, PutOut
  <2> QED
    BY <2>1, Zenon DEF Computed
<1>2. \E E, F, order : Produced(t, B, E, F, order)
  BY <1>1, Zenon DEF Produced
<1>3. /\ loop[t] = "step" /\ loop' = [loop EXCEPT ![t] = "deliver"]
      /\ UNCHANGED <<queueVars, requestVars, lifeVars, clientVars>>
  BY DEF Step
<1>4. QED
  BY <1>2, <1>3, Zenon

(* The outputs come in a sequence, one for each request of E.              *)
LEMMA ProducedFacts ==
  ASSUME LoopTypeOK, OutsOK, NEW t \in Loops, NEW B, NEW E, NEW F, NEW order,
         Produced(t, B, E, F, order)
  PROVE  /\ \A r \in DOMAIN engine : NextToken(r) \in Nat /\ r \in Reqs
         /\ DOMAIN order = 1..Cardinality(E) /\ Cardinality(E) \in Nat
         /\ \A k \in DOMAIN order : order[k] \in E /\ order[k] \in Reqs
         /\ \A r \in E : \E k \in DOMAIN order : order[k] = r
         /\ \A k, l \in DOMAIN order : order[k] = order[l] => k = l
         /\ outs'[t] \in Seq(Ids \X Outputs) /\ DOMAIN outs'[t] = DOMAIN order
         /\ \A k \in DOMAIN order :
              /\ outs'[t][k][1] = Id[order[k]]
              /\ outs'[t][k][2] = IF order[k] \in F THEN Final(NextToken(order[k]))
                                  ELSE Token(NextToken(order[k]))
         /\ OutsOK'
         /\ DOMAIN engine' = DOMAIN engine \ F /\ DOMAIN engine' \subseteq Reqs
         /\ IsFiniteSet(DOMAIN engine')
         /\ engine' \in [DOMAIN engine' -> Nat \cup {-1}]
<1>1. /\ B \in SUBSET DOMAIN engine /\ E \in SUBSET B /\ F \in SUBSET E
      /\ engine' = [r \in DOMAIN engine \ F |->
           IF r \in E THEN NextToken(r) ELSE IF r \in B THEN 0 ELSE engine[r]]
      /\ order \in SetToSeqs(E)
      /\ outs' = [outs EXCEPT ![t] = [k \in DOMAIN order |->
           <<Id[order[k]], IF order[k] \in F THEN Final(NextToken(order[k]))
                           ELSE Token(NextToken(order[k]))>>]]
  BY DEF Produced, Computed, PutOut
<1>2. \A r \in DOMAIN engine : NextToken(r) \in Nat /\ r \in Reqs
  <2>1. \A r \in DOMAIN engine : r \in Reqs /\ engine[r] \in Nat \cup {-1}
    BY DEF LoopTypeOK
  <2> QED
    BY <2>1 DEF NextToken
<1>3. IsFiniteSet(E) /\ Cardinality(E) \in Nat /\ E \subseteq DOMAIN engine /\ E \subseteq Reqs
  <2>1. E \in SUBSET DOMAIN engine /\ IsFiniteSet(DOMAIN engine) /\ DOMAIN engine \subseteq Reqs
    BY <1>1 DEF LoopTypeOK
  <2>2. IsFiniteSet(E)
    BY <2>1, FS_Subset
  <2> QED
    BY <2>1, <2>2, FS_CardinalityType
<1>4. /\ order \in [1..Cardinality(E) -> E]
      /\ \A k, l \in 1..Cardinality(E) : order[k] = order[l] => k = l
  BY <1>1 DEF SetToSeqs, IsInjective
<1>5. /\ DOMAIN order = 1..Cardinality(E)
      /\ \A k \in DOMAIN order : order[k] \in E /\ order[k] \in Reqs
  BY <1>3, <1>4
<1>6. \A r \in E : \E k \in DOMAIN order : order[k] = r
  <2>1. order \in Seq(E) /\ Len(order) = Cardinality(E) /\ IsInjective(order)
    BY <1>3, <1>4, <1>5 DEF IsInjective
  <2>2. ToSet(order) \subseteq E /\ Cardinality(ToSet(order)) = Cardinality(E)
    BY <2>1, MembersOf, LengthOfDistinct
  <2>3. ToSet(order) = E
    BY <1>3, <2>2, FS_Subset
  <2> QED
    BY <2>3 DEF ToSet
<1> DEFINE new == [k \in DOMAIN order |->
       <<Id[order[k]], IF order[k] \in F THEN Final(NextToken(order[k]))
                       ELSE Token(NextToken(order[k]))>>]
<1>7. /\ outs'[t] = new /\ DOMAIN new = DOMAIN order
      /\ \A k \in DOMAIN order :
           /\ new[k][1] = Id[order[k]]
           /\ new[k][2] = IF order[k] \in F THEN Final(NextToken(order[k]))
                          ELSE Token(NextToken(order[k]))
           /\ new[k] \in Ids \X Outputs
  <2>1. outs'[t] = new /\ DOMAIN new = DOMAIN order
    BY <1>1 DEF OutsOK
  <2>2. \A k \in DOMAIN order :
          /\ Id[order[k]] \in Ids
          /\ Final(NextToken(order[k])) \in Outputs /\ Token(NextToken(order[k])) \in Outputs
    BY <1>2, <1>3, <1>5, Constants, Kinds
  <2> QED
    BY <2>1, <2>2
<1> HIDE DEF new
<1>8. new \in Seq(Ids \X Outputs)
  <2>1. new \in [1..Cardinality(E) -> Ids \X Outputs]
    BY <1>5, <1>7, Zenon DEF new
  <2> QED
    BY <1>3, <2>1
<1>9. OutsOK'
  <2>1. outs' = [outs EXCEPT ![t] = new]
    BY <1>1 DEF new
  <2> QED
    BY <1>8, <2>1 DEF OutsOK
<1>10. DOMAIN engine' = DOMAIN engine \ F /\ engine' \in [DOMAIN engine' -> Nat \cup {-1}]
  BY <1>1, <1>2 DEF LoopTypeOK
<1>11. DOMAIN engine \ F \subseteq Reqs /\ IsFiniteSet(DOMAIN engine \ F)
  <2>1. DOMAIN engine \ F \in SUBSET DOMAIN engine
    OBVIOUS
  <2> QED
    BY <2>1, FS_Subset DEF LoopTypeOK
<1>12. QED
  BY <1>2, <1>3, <1>4, <1>5, <1>6, <1>7, <1>8, <1>9, <1>10, <1>11

(* The outputs are not the requests' yet.                                  *)
LEMMA StepKeeps ==
  ASSUME RequestsInv, NEW t \in Loops, Step(t)
  PROVE  RequestsInv'
<1>1. LoopTypeOK /\ OutsOK
  BY Types
<1>2. PICK B, E, F, order : Produced(t, B, E, F, order)
  BY StepProduces
<1>3. /\ OutsOK' /\ DOMAIN engine' \subseteq Reqs /\ IsFiniteSet(DOMAIN engine')
      /\ engine' \in [DOMAIN engine' -> Nat \cup {-1}]
  BY <1>1, <1>2, ProducedFacts
<1>4. UNCHANGED <<queueVars, requestVars, clientVars>> /\ UNCHANGED lifeVars
  BY StepProduces
<1>5. loop' \in [Loops -> Stages]
  BY <1>1, StepProduces, StagesAre DEF LoopTypeOK
<1>6. LoopTypeOK'
  BY <1>1, <1>3, <1>4, <1>5 DEF LoopTypeOK, lifeVars
<1>7. QED
  BY <1>3, <1>4, <1>6, StillKeeps

(* The tables stay as they are while a request gets an event.              *)
LEMMA OneChangeKeeps ==
  ASSUME RequestsInv, UNCHANGED queueVars, NEW r \in Reqs, OutcomeInv(r)',
         \A q \in Reqs \ {r} : RequestStays(q), RecordTypeOK', LoopTypeOK'
  PROVE  RequestsInv'
<1>1. /\ TableTypeOK /\ TablesInv /\ ByPriority(pending) /\ BudgetsHold
      /\ \A q \in Reqs : OutcomeInv(q)
  BY Types DEF RequestsInv
<1>2. UNCHANGED <<pending, pendingById, active>>
  BY DEF queueVars
<1>3. TableTypeOK' /\ TablesInv' /\ ByPriority(pending)' /\ BudgetsHold'
  BY <1>1, <1>2 DEF TableTypeOK, TablesInv, ByPriority, BudgetsHold, Waiting
<1>4. Waiting' = Waiting /\ Alive' = Alive
  BY <1>2 DEF Alive, Waiting, Running
<1>5. \A q \in Reqs : OutcomeInv(q)'
  <2> SUFFICES ASSUME NEW q \in Reqs PROVE OutcomeInv(q)'
    OBVIOUS
  <2>1. CASE q = r
    BY <2>1
  <2>2. CASE q # r
    <3>1. RequestStays(q) /\ OutcomeInv(q)
      BY <1>1, <2>2
    <3> QED
      BY <1>4, <3>1, StayingKeeps
  <2> QED
    BY <2>1, <2>2
<1>6. QED
  BY <1>3, <1>5 DEF RequestsInv, TypeOK, RequestTypeOK

(* What a delivery does, in its three cases.                               *)
Delivers(t, i, e, r) ==
  /\ outs[t] # << >> /\ i = outs[t][1][1] /\ e = outs[t][1][2]
  /\ outs' = [outs EXCEPT ![t] = Tail(@)]
  /\ UNCHANGED <<pending, pendingById>> /\ UNCHANGED lifeVars /\ UNCHANGED clientVars
DeliversNothing(t, i) ==
  /\ i \notin DOMAIN active
  /\ loop' = [loop EXCEPT ![t] = "deliver"]
  /\ UNCHANGED <<active, engine>> /\ UNCHANGED requestVars
DeliversToken(t, i, e, r) ==
  /\ i \in DOMAIN active /\ r = active[i]
  /\ e[1] = "token" /\ ~Full(r)
  /\ queue' = [queue EXCEPT ![r] = Append(@, e)]
  /\ loop' = [loop EXCEPT ![t] = "out"]
  /\ UNCHANGED <<active, engine, finished, cancelled, counted>>
DeliversLast(t, i, e, r) ==
  /\ i \in DOMAIN active /\ r = active[i]
  /\ ~(e[1] = "token" /\ ~Full(r))
  /\ queue' = [queue EXCEPT ![r] = IF Full(r) THEN <<STOP>> ELSE Closed(@, e)]
  /\ finished' = [finished EXCEPT ![r] = TRUE]
  /\ cancelled' = [cancelled EXCEPT ![r] = @ \/ Full(r)]
  /\ counted' = [counted EXCEPT ![r] = Append(@, IF Full(r) THEN "cancelled" ELSE "finished")]
  /\ active' = Without(active, {i})
  /\ engine' = Without(engine, {r})
  /\ loop' = [loop EXCEPT ![t] = "deliver"]

(* A delivery is one of the three.                                         *)
LEMMA DeliverIs ==
  ASSUME NEW t \in Loops, Deliver(t)
  PROVE  \E i, e, r :
           /\ Delivers(t, i, e, r)
           /\ DeliversNothing(t, i) \/ DeliversToken(t, i, e, r) \/ DeliversLast(t, i, e, r)
<1>0. PICK i, e, r : i = Head(outs[t])[1] /\ e = Head(outs[t])[2] /\ r = active[i]
  OBVIOUS
<1>1. Head(outs[t]) = outs[t][1]
  BY DEF Head
<1>2. Delivers(t, i, e, r)
  BY <1>0, <1>1 DEF Deliver, Delivers
<1>3. DeliversNothing(t, i) \/ DeliversToken(t, i, e, r) \/ DeliversLast(t, i, e, r)
  BY <1>0 DEF Deliver, DeliversNothing, DeliversToken, DeliversLast
<1>4. QED
  BY <1>2, <1>3

(* The first output.                                                       *)
LEMMA FirstOut ==
  ASSUME OutsOK, NEW t \in Loops, NEW i, NEW e, NEW r, Delivers(t, i, e, r)
  PROVE  /\ i \in Ids /\ e \in Outputs /\ OutsOK'
         /\ outs'[t] = Tail(outs[t]) /\ \A s \in Loops \ {t} : outs'[s] = outs[s]
         /\ 1 \in DOMAIN outs[t]
         /\ \A k \in DOMAIN outs'[t] : k + 1 \in DOMAIN outs[t] /\ outs'[t][k] = outs[t][k + 1]
         /\ \A k \in DOMAIN outs[t] :
              k = 1 \/ (k - 1 \in DOMAIN outs'[t] /\ outs'[t][k - 1] = outs[t][k])
<1>1. /\ outs[t] \in Seq(Ids \X Outputs) /\ outs[t] # << >>
      /\ outs' = [outs EXCEPT ![t] = Tail(outs[t])] /\ outs \in [Loops -> Seq(Ids \X Outputs)]
      /\ i = outs[t][1][1] /\ e = outs[t][1][2]
  BY DEF OutsOK, Delivers
<1>2. /\ Tail(outs[t]) \in Seq(Ids \X Outputs) /\ Len(Tail(outs[t])) = Len(outs[t]) - 1
      /\ \A k \in 1..Len(outs[t]) - 1 : Tail(outs[t])[k] = outs[t][k + 1]
  BY <1>1, HeadTailProperties
<1>3. /\ Len(outs[t]) \in Nat /\ Len(outs[t]) > 0 /\ DOMAIN outs[t] = 1..Len(outs[t])
      /\ DOMAIN Tail(outs[t]) = 1..Len(outs[t]) - 1
  BY <1>1, <1>2, MembersOf
<1>4. outs[t][1] \in Ids \X Outputs
  BY <1>1, <1>3, ElementOfSeq
<1>5. outs'[t] = Tail(outs[t]) /\ (\A s \in Loops \ {t} : outs'[s] = outs[s]) /\ OutsOK'
  BY <1>1, <1>2 DEF OutsOK
<1>6. QED
  BY <1>1, <1>2, <1>3, <1>4, <1>5

(* A request gets a token.                                                 *)
LEMMA TokenKeeps ==
  ASSUME RequestsInv, NEW t \in Loops, NEW i, NEW e, NEW r, Delivers(t, i, e, r),
         DeliversToken(t, i, e, r)
  PROVE  RequestsInv'
<1>1. /\ RequestTypeOK /\ LoopTypeOK /\ OutsOK /\ RecordTypeOK /\ TablesInv
      /\ \A q \in Reqs : OutcomeInv(q)
  BY Types
<1>2. e \in Outputs /\ e \in Events /\ OutsOK'
  BY <1>1, FirstOut, Kinds
<1>3. r \in Running /\ r \in Alive /\ r \in Reqs /\ r \notin Waiting
  <2>1. r \in Running
    BY DEF DeliversToken, Running, Range
  <2> QED
    BY <1>1, <2>1, TablesGive DEF Alive
<1>4. /\ queue' = [queue EXCEPT ![r] = Append(queue[r], e)]
      /\ UNCHANGED <<active, engine, finished, cancelled, counted, pending, pendingById>>
      /\ UNCHANGED <<stream, got>> /\ UNCHANGED lifeVars
  BY DEF Delivers, DeliversToken, clientVars
<1>5. queue \in [Reqs -> Seq(Events)] /\ Append(queue[r], e) \in Seq(Events)
  BY <1>1, <1>2, <1>3, AppendFacts DEF RecordTypeOK
<1>6. RecordTypeOK'
  BY <1>1, <1>2, <1>4, <1>5 DEF RecordTypeOK, OutsOK
<1>7. RequestGrows(r)
  <2>1. e[1] = "token" /\ queue'[r] = Append(queue[r], e)
    BY <1>3, <1>4, <1>5 DEF DeliversToken
  <2> QED
    BY <1>2, <1>4, <2>1 DEF RequestGrows
<1>8. UNCHANGED queueVars /\ Waiting' = Waiting /\ Alive' = Alive
  BY <1>4 DEF queueVars, Alive, Waiting, Running
<1>9. OutcomeInv(r)'
  BY <1>1, <1>3, <1>7, <1>8, GrowingKeeps
<1>10. \A q \in Reqs \ {r} : RequestStays(q)
  BY <1>4, <1>5 DEF RequestStays
<1>11. LoopTypeOK'
  BY <1>1, <1>4, StagesAre, LoopMoves DEF DeliversToken
<1>12. QED
  BY <1>3, <1>6, <1>8, <1>9, <1>10, <1>11, OneChangeKeeps

(* The last output, or a full queue.                                       *)
LEMMA LastEnds ==
  ASSUME RequestsInv, NEW t \in Loops, NEW i, NEW e, NEW r, Delivers(t, i, e, r),
         DeliversLast(t, i, e, r)
  PROVE  /\ Losing({}, {r}) /\ {r} \in SUBSET Running /\ r \in Reqs
         /\ FieldsOK' /\ RequestEnds(r)
<1>1. /\ RequestTypeOK /\ LoopTypeOK /\ OutsOK /\ RecordTypeOK /\ TablesInv
      /\ \A q \in Reqs : OutcomeInv(q)
  BY Types
<1>2. e \in Outputs /\ e \in Events /\ e[1] \in {"token", "final"}
  BY <1>1, FirstOut, Kinds
<1>3. r \in Running /\ r \in Alive /\ r \in Reqs /\ Id[r] = i
  <2>1. r \in Running /\ Id[r] = i
    BY <1>1 DEF DeliversLast, Running, Range, TablesInv
  <2> QED
    BY <1>1, <2>1, TablesGive DEF Alive
<1>4. queue[r] \in Seq(Events) /\ queue \in [Reqs -> Seq(Events)] /\ Len(queue[r]) \in Nat
  BY <1>1, <1>3, RequestTypes DEF RecordTypeOK
<1> DEFINE q == IF Full(r) THEN <<STOP>> ELSE Closed(queue[r], e)
           outcome == IF Full(r) THEN "cancelled" ELSE "finished"
<1>5. /\ queue' = [queue EXCEPT ![r] = q]
      /\ counted' = [counted EXCEPT ![r] = Append(@, outcome)]
      /\ finished' = [finished EXCEPT ![r] = TRUE]
      /\ cancelled' = [cancelled EXCEPT ![r] = @ \/ Full(r)]
      /\ UNCHANGED <<pending, pendingById, stream, got>>
  BY DEF Delivers, DeliversLast, clientVars
<1>6. EndsOne(r, q, outcome)
  <2>1. finished \in [Reqs -> BOOLEAN] /\ cancelled \in [Reqs -> BOOLEAN]
    BY <1>1 DEF RecordTypeOK
  <2>2. finished' \in [Reqs -> BOOLEAN] /\ cancelled' \in [Reqs -> BOOLEAN]
    BY <1>3, <1>5, <2>1
  <2>3. \A p \in Reqs \ {r} : /\ finished'[p] = finished[p] /\ cancelled'[p] = cancelled[p]
                              /\ stream'[p] = stream[p]
    BY <1>5, <2>1
  <2>4. finished'[r] = TRUE /\ stream'[r] \in {stream[r], "left"} /\ got' = got
    BY <1>3, <1>5, <2>1
  <2> QED
    BY <1>5, <2>2, <2>3, <2>4 DEF EndsOne
<1>7. RequestEnds(r) /\ (\A p \in Reqs \ {r} : RequestStays(p)) /\ FieldsOK'
  <2>1. CASE Full(r)
    <3>1. q = <<STOP>> /\ outcome = "cancelled"
      BY <2>1
    <3>2. Closes(queue[r], <<STOP>>, STOP) /\ STOP \in Events /\ "cancelled" \in Outcomes
      BY StopAlone, Kinds DEF Closes, Outcomes
    <3> QED
      BY <1>3, <1>6, <3>1, <3>2, OneEnds
  <2>2. CASE ~Full(r)
    <3>1. q = Closed(queue[r], e) /\ outcome = "finished" /\ "finished" \in Outcomes
      BY <2>2 DEF Outcomes
    <3>2. e[1] = "final"
      BY <1>2, <2>2 DEF DeliversLast
    <3>3. Closes(queue[r], Closed(queue[r], e), e)
      BY <1>2, <1>4, ClosedCloses
    <3> QED
      BY <1>2, <1>3, <1>6, <3>1, <3>2, <3>3, OneEnds
  <2> QED
    BY <2>1, <2>2
<1>8. PendingLoses({}) /\ ActiveLoses({r})
  <2>1. IdsOf({r}) = {i}
    BY <1>3 DEF IdsOf
  <2> QED
    BY <1>5, <2>1 DEF PendingLoses, ActiveLoses, DeliversLast
<1>9. QED
  BY <1>3, <1>7, <1>8 DEF Losing

(* A delivery, in each case.                                               *)
LEMMA DeliverKeeps ==
  ASSUME RequestsInv, NEW t \in Loops, Deliver(t)
  PROVE  RequestsInv'
<1>1. PICK i, e, r :
        /\ Delivers(t, i, e, r)
        /\ DeliversNothing(t, i) \/ DeliversToken(t, i, e, r) \/ DeliversLast(t, i, e, r)
  BY DeliverIs
<1>2. LoopTypeOK /\ OutsOK /\ OutsOK' /\ stream \in [Reqs -> Streams] /\ UNCHANGED lifeVars
  BY <1>1, Types, FirstOut DEF Delivers
<1>3. CASE DeliversNothing(t, i)
  <2>1. UNCHANGED <<queueVars, requestVars, clientVars>> /\ UNCHANGED engine
    BY <1>1, <1>3 DEF Delivers, DeliversNothing, queueVars
  <2>2. LoopTypeOK'
    BY <1>2, <1>3, <2>1, StagesAre, LoopMoves DEF DeliversNothing
  <2> QED
    BY <1>2, <2>1, <2>2, StillKeeps
<1>4. CASE DeliversToken(t, i, e, r)
  BY <1>1, <1>4, TokenKeeps
<1>5. CASE DeliversLast(t, i, e, r)
  <2>1. /\ Losing({}, {r}) /\ {r} \in SUBSET Running /\ FieldsOK'
        /\ {} \in SUBSET Waiting
    BY <1>1, <1>5, LastEnds
  <2>2. stream' \in [Reqs -> Streams] /\ got' = got
    BY <1>1, <1>2 DEF Delivers, clientVars
  <2>3. LoopTypeOK'
    BY <1>2, <1>5, StagesAre, LoopMoves DEF DeliversLast
  <2> QED
    BY <1>2, <2>1, <2>2, <2>3, EndsKeep
<1>6. QED
  BY <1>1, <1>3, <1>4, <1>5

-----------------------------------------------------------------------------
(* Steps of clients and operators                                          *)

(* create_task.                                                            *)
LEMMA NewTaskFacts ==
  ASSUME LoopTypeOK, NewTask
  PROVE  /\ shutdown' = FALSE /\ task' \in Loops /\ loop[task'] = "done"
         /\ loop' = [loop EXCEPT ![task'] = "new"]
         /\ loop' \in [Loops -> Stages]
<1> DEFINE fresh == {t \in Loops : loop[t] = "done" /\ \A o \in Operators : oper'[o][2] # t}
<1>1. /\ fresh # {} /\ shutdown' = FALSE /\ task' = Min(fresh)
      /\ loop' = [loop EXCEPT ![Min(fresh)] = "new"]
  BY DEF NewTask
<1>2. fresh \in SUBSET Nat /\ \A t \in fresh : t \in Loops /\ loop[t] = "done"
  BY Constants
<1> HIDE DEF fresh
<1>3. Min(fresh) \in fresh
  BY <1>1, <1>2, SmallestOf
<1>4. task' \in Loops /\ loop[task'] = "done" /\ loop' = [loop EXCEPT ![task'] = "new"]
  BY <1>1, <1>2, <1>3
<1>5. loop' \in [Loops -> Stages]
  BY <1>4, StagesAre DEF LoopTypeOK
<1>6. QED
  BY <1>1, <1>4, <1>5

(* start.                                                                  *)
LEMMA StartKeepsTypes ==
  ASSUME LoopTypeOK, Start, UNCHANGED <<fatal, draining, oper, engine>>
  PROVE  LoopTypeOK'
<1>1. CASE fatal
  BY <1>1 DEF Start, LoopTypeOK
<1>2. CASE ~fatal /\ ~Ended(task)
  BY <1>2 DEF Start, LoopTypeOK
<1>3. CASE ~fatal /\ Ended(task)
  <2>1. NewTask /\ up' = TRUE
    BY <1>3 DEF Start
  <2> QED
    BY <2>1, NewTaskFacts DEF LoopTypeOK
<1>4. QED
  BY <1>1, <1>2, <1>3

(* purge_prefix_cache starts the loop only.                                *)
LEMMA PurgeKeeps ==
  ASSUME RequestsInv, PurgePrefixCache
  PROVE  RequestsInv'
<1>1. /\ UNCHANGED <<queueVars, requestVars, clientVars>> /\ UNCHANGED outs
      /\ UNCHANGED <<fatal, draining, oper, engine>> /\ Start
  BY DEF PurgePrefixCache
<1>2. LoopTypeOK' /\ OutsOK'
  BY <1>1, Types, StartKeepsTypes DEF OutsOK
<1>3. QED
  BY <1>1, <1>2, StillKeeps

(* Operators up to the await.                                              *)
LEMMA OperatorKeeps ==
  ASSUME RequestsInv, SetDraining \/ \E o \in Operators : Restart(o) \/ Shutdown(o)
  PROVE  RequestsInv'
<1>1. LoopTypeOK /\ OutsOK
  BY Types
<1>2. CASE SetDraining
  <2>1. /\ UNCHANGED <<queueVars, requestVars, clientVars>> /\ UNCHANGED outs
        /\ LoopTypeOK'
    BY <1>1, <1>2 DEF SetDraining, LoopTypeOK, loopVars
  <2> QED
    BY <1>1, <2>1, StillKeeps DEF OutsOK
<1>3. CASE \E o \in Operators : Restart(o) \/ Shutdown(o)
  <2>1. PICK o \in Operators, what \in {"restart", "shutdown"} : Stop(o, what)
    BY <1>3 DEF Restart, Shutdown
  <2>2. /\ UNCHANGED <<queueVars, requestVars, clientVars>> /\ UNCHANGED outs
        /\ shutdown' = TRUE
        /\ oper' = [oper EXCEPT ![o] = <<what, IF Ended(task) THEN 0 ELSE task>>]
        /\ UNCHANGED <<engine, up, fatal, draining, task, loop>>
    BY <2>1 DEF Stop, loopVars
  <2>3. LoopTypeOK'
    BY <1>1, <2>2 DEF LoopTypeOK
  <2> QED
    BY <1>1, <2>2, <2>3, StillKeeps DEF OutsOK
<1>4. QED
  BY <1>2, <1>3

(* Operators after the await.                                              *)
LEMMA StopReturnsKeeps ==
  ASSUME RequestsInv, NEW o \in Operators, StopReturns(o)
  PROVE  RequestsInv'
<1>1. LoopTypeOK /\ OutsOK
  BY Types
<1>2. /\ UNCHANGED <<queueVars, requestVars, clientVars>> /\ UNCHANGED outs
      /\ UNCHANGED draining /\ engine' = << >>
      /\ oper' = [oper EXCEPT ![o] = <<"none", 0>>]
  BY DEF StopReturns
<1>3. /\ DOMAIN engine' \subseteq Reqs /\ IsFiniteSet(DOMAIN engine')
      /\ engine' \in [DOMAIN engine' -> Nat \cup {-1}]
  BY <1>2, NoTable
<1>4. oper' \in [Operators -> {"none", "restart", "shutdown"} \X (Loops \cup {0})]
  BY <1>1, <1>2 DEF LoopTypeOK
<1>5. LoopTypeOK'
  <2>1. CASE UNCHANGED loop
    BY <1>1, <1>2, <1>3, <1>4, <2>1, NewTaskFacts DEF StopReturns, LoopTypeOK
  <2>2. CASE up' = TRUE /\ fatal' = FALSE /\ NewTask
    BY <1>1, <1>2, <1>3, <1>4, <2>2, NewTaskFacts DEF LoopTypeOK
  <2> QED
    BY <2>1, <2>2 DEF StopReturns
<1>6. QED
  BY <1>1, <1>2, <1>5, StillKeeps DEF OutsOK

(* cancel, and a consumer who goes away.                                   *)
LEMMA AbortKeeps ==
  ASSUME RequestsInv, NEW i \in DOMAIN pendingById \cup DOMAIN active, AbortId(i),
         finished' = [q \in Reqs |-> finished[q] \/ q \in Aborted(i)],
         got' = got, stream' \in [Reqs -> Streams],
         \A q \in Reqs : \/ stream'[q] = stream[q]
                         \/ Id[q] = i /\ q \in Alive /\ stream'[q] = "left",
         UNCHANGED lifeVars, UNCHANGED loopVars
  PROVE  RequestsInv'
<1>1. LoopTypeOK /\ OutsOK
  BY Types
<1>2. /\ \E L \in SUBSET Waiting, M \in SUBSET Running :
           Losing(L, M) /\ (engine' = engine \/ \E R \in SUBSET Reqs : engine' = Without(engine, R))
      /\ FieldsOK'
  BY AbortEnds
<1>3. PICK L \in SUBSET Waiting, M \in SUBSET Running :
        Losing(L, M) /\ (UNCHANGED engine \/ \E R : engine' = Without(engine, R))
  BY <1>2
<1>4. /\ DOMAIN engine' \subseteq Reqs /\ IsFiniteSet(DOMAIN engine')
      /\ engine' \in [DOMAIN engine' -> Nat \cup {-1}]
  <2>1. CASE UNCHANGED engine
    BY <1>1, <2>1 DEF LoopTypeOK
  <2>2. CASE \E R : engine' = Without(engine, R)
    <3>1. PICK R : engine' = Without(engine, R)
      BY <2>2
    <3>2. /\ DOMAIN Without(engine, R) \subseteq Reqs /\ IsFiniteSet(DOMAIN Without(engine, R))
          /\ Without(engine, R) \in [DOMAIN Without(engine, R) -> Nat \cup {-1}]
      BY <1>1, EngineWithout
    <3> QED
      BY <3>1, <3>2
  <2> QED
    BY <1>3, <2>1, <2>2
<1>5. LoopTypeOK' /\ OutsOK'
  BY <1>1, <1>4 DEF LoopTypeOK, OutsOK, lifeVars, loopVars
<1>6. QED
  BY <1>2, <1>3, <1>5, EndsKeep

(* POST /cancel.                                                           *)
LEMMA CancelKeeps ==
  ASSUME RequestsInv, NEW i \in Ids, Cancel(i)
  PROVE  RequestsInv'
<1>1. /\ i \in DOMAIN pendingById \cup DOMAIN active /\ AbortId(i)
      /\ finished' = [q \in Reqs |-> finished[q] \/ q \in Aborted(i)]
      /\ UNCHANGED lifeVars /\ UNCHANGED loopVars /\ UNCHANGED <<stream, got>>
  BY DEF Cancel, clientVars
<1>2. stream' \in [Reqs -> Streams]
  BY <1>1, Types
<1>3. QED
  BY <1>1, <1>2, AbortKeeps

(* A consumer takes an event.                                              *)
LEMMA ReceiveKeeps ==
  ASSUME RequestsInv, NEW r \in Reqs, Receive(r)
  PROVE  RequestsInv'
<1>1. RequestTypeOK /\ RecordTypeOK /\ LoopTypeOK /\ OutsOK /\ OutcomeInv(r)
  BY Types
<1>2. OutcomeInv(r)' /\ finished' = finished
  BY <1>1, ReceivingKeeps
<1>3. PICK e : e = Head(queue[r])
  OBVIOUS
<1>4. /\ stream[r] = "open" /\ queue[r] # << >>
      /\ queue' = [queue EXCEPT ![r] = Tail(@)]
      /\ stream' = [stream EXCEPT ![r] = IF e[1] = "token" THEN "open" ELSE e[1]]
      /\ got' = [got EXCEPT ![r] = IF e[1] \in {"token", "final"} THEN e[2] ELSE @]
      /\ UNCHANGED queueVars
      /\ UNCHANGED <<cancelled, counted, engine>> /\ UNCHANGED lifeVars /\ UNCHANGED loopVars
  BY <1>3 DEF Receive
<1>5. e \in Events /\ Tail(queue[r]) \in Seq(Events)
  BY <1>1, <1>3, <1>4, RequestTypes, TailFacts
<1>6. \A q \in Reqs \ {r} : RequestStays(q)
  BY <1>1, <1>2, <1>4 DEF RequestStays, RecordTypeOK
<1>7. RecordTypeOK'
  <2>1. queue' \in [Reqs -> Seq(Events)]
    BY <1>1, <1>4, <1>5 DEF RecordTypeOK
  <2>2. stream' \in [Reqs -> Streams]
    <3>1. (IF e[1] = "token" THEN "open" ELSE e[1]) \in Streams
      BY <1>5, Kinds DEF Streams
    <3> QED
      BY <1>1, <1>4, <3>1 DEF RecordTypeOK
  <2>3. got' \in [Reqs -> Nat]
    <3>1. e[1] \in {"token", "final"} => e[2] \in Nat
      <4>1. e \in Outputs \/ e = STOP \/ e = Timeout \/ e = Error
        BY <1>5 DEF Events
      <4> QED
        BY <4>1, Kinds
    <3> QED
      BY <1>1, <1>4, <3>1 DEF RecordTypeOK
  <2> QED
    BY <1>1, <1>2, <1>4, <2>1, <2>2, <2>3 DEF RecordTypeOK, loopVars
<1>8. LoopTypeOK'
  BY <1>1, <1>4 DEF LoopTypeOK, lifeVars, loopVars
<1>9. QED
  BY <1>2, <1>4, <1>6, <1>7, <1>8, OneChangeKeeps

(* A consumer goes away.                                                   *)
LEMMA LeaveKeeps ==
  ASSUME RequestsInv, NEW r \in Reqs, Leave(r)
  PROVE  RequestsInv'
<1>1. /\ RequestTypeOK /\ RecordTypeOK /\ LoopTypeOK /\ OutsOK /\ TablesInv /\ OutcomeInv(r)
      /\ stream \in [Reqs -> Streams] /\ Alive = Waiting \cup Running
  BY Types
<1>2. /\ stream[r] = "open" /\ stream' = [stream EXCEPT ![r] = "left"]
      /\ got' = got /\ UNCHANGED lifeVars /\ UNCHANGED loopVars
  BY DEF Leave
<1>3. stream' \in [Reqs -> Streams]
  BY <1>1, <1>2 DEF Streams
<1>4. CASE finished[r]
  <2>1. UNCHANGED queueVars /\ UNCHANGED requestVars /\ UNCHANGED engine
    BY <1>4 DEF Leave
  <2>2. UNCHANGED <<queue, cancelled, finished, counted>>
    BY <2>1 DEF requestVars
  <2>3. \A q \in Reqs \ {r} : RequestStays(q)
    BY <1>1, <1>2, <2>2 DEF RequestStays
  <2>4. OutcomeInv(r)'
    <3>1. counted[r] # << >> /\ stream'[r] = "left"
      BY <1>1, <1>2, <1>4 DEF OutcomeInv
    <3>2. EndedAs(r, "left")'
      BY <2>2, <3>1 DEF EndedAs
    <3>3. \A kind : EndedAs(r, kind)' <=> EndedAs(r, kind)
      BY <2>2 DEF EndedAs
    <3>4. Waiting' = Waiting /\ Alive' = Alive
      BY <2>1 DEF queueVars, Waiting, Running, Alive
    <3>5. r \notin Waiting
      BY <1>1, <3>1 DEF OutcomeInv
    <3>6. \A k \in DOMAIN queue'[r] : EndedAs(r, queue[r][k][1])'
      BY <1>1, <2>2 DEF OutcomeInv, EndedAs
    <3> QED
      BY <1>1, <1>2, <2>2, <3>1, <3>2, <3>4, <3>5, <3>6 DEF OutcomeInv
  <2>5. RecordTypeOK'
    BY <1>1, <1>2, <1>3, <2>2 DEF RecordTypeOK, loopVars
  <2>6. LoopTypeOK'
    BY <1>1, <1>2, <2>1 DEF LoopTypeOK, lifeVars, loopVars
  <2> QED
    BY <2>1, <2>3, <2>4, <2>5, <2>6, OneChangeKeeps
<1>5. CASE ~finished[r]
  <2>1. /\ AbortId(Id[r])
        /\ finished' = [q \in Reqs |-> finished[q] \/ q \in Aborted(Id[r])]
    BY <1>5 DEF Leave
  <2>2. r \in Alive
    BY <1>1, <1>2, <1>5 DEF OutcomeInv
  <2>3. Id[r] \in DOMAIN pendingById \cup DOMAIN active
    BY <1>1, <2>2, TablesGive
  <2>4. \A q \in Reqs : \/ stream'[q] = stream[q]
                        \/ Id[q] = Id[r] /\ q \in Alive /\ stream'[q] = "left"
    BY <1>1, <1>2, <2>2
  <2> QED
    BY <1>2, <1>3, <2>1, <2>3, <2>4, AbortKeeps
<1>6. QED
  BY <1>4, <1>5

(* add_request, in its two outcomes.                                       *)
AddExpires(L) ==
  /\ L \in SUBSET Waiting
  /\ EndAll(L, Timeout, "timed_out")
  /\ UNCHANGED <<active, engine, fatal, draining, oper, outs, got>>
  /\ Start
AddAccepts(r, L) ==
  /\ Accepts(r, Waiting \ L)
  /\ pending' = Enqueued(PendingWithout(L), r)
  /\ pendingById' = [i \in (DOMAIN pendingById \ IdsOf(L)) \cup {Id[r]} |->
                       IF i = Id[r] THEN r ELSE pendingById[i]]
  /\ stream' = [stream EXCEPT ![r] = "open"]
AddRejects(L) ==
  /\ pending' = PendingWithout(L)
  /\ pendingById' = Without(pendingById, IdsOf(L))
  /\ UNCHANGED stream

(* add_request is one of the two.                                          *)
LEMMA AddRequestIs ==
  ASSUME NEW r \in Reqs, AddRequest(r)
  PROVE  stream[r] = "new" /\ \E L : AddExpires(L) /\ (AddAccepts(r, L) \/ AddRejects(L))
<1>1. stream[r] = "new" /\ UNCHANGED oper /\ Start
      /\ UNCHANGED <<active, engine, fatal, draining, outs, got>>
  BY DEF AddRequest
<1>2. PICK L \in SUBSET ToSet(pending) :
        /\ EndAll(L, Timeout, "timed_out")
        /\ IF Accepts(r, ToSet(pending) \ L)
           THEN /\ pending' = Enqueued(PendingWithout(L), r)
                /\ pendingById' = [i \in (DOMAIN pendingById \ IdsOf(L)) \cup {Id[r]} |->
                                     IF i = Id[r] THEN r ELSE pendingById[i]]
                /\ stream' = [stream EXCEPT ![r] = "open"]
           ELSE /\ pending' = PendingWithout(L)
                /\ pendingById' = Without(pendingById, IdsOf(L))
                /\ UNCHANGED stream
  BY DEF AddRequest
<1>3. AddExpires(L)
  BY <1>1, <1>2 DEF AddExpires, Waiting
<1>4. AddAccepts(r, L) \/ AddRejects(L)
  BY <1>2 DEF AddAccepts, AddRejects, Waiting
<1>5. QED
  BY <1>1, <1>3, <1>4

(* The tables when r is accepted.                                          *)
LEMMA AcceptanceFacts ==
  ASSUME RequestsInv, NEW r \in Reqs, r \notin Alive, NEW L \in SUBSET Waiting,
         AddAccepts(r, L), UNCHANGED active
  PROVE  /\ TableTypeOK' /\ TablesInv' /\ ByPriority(pending)' /\ BudgetsHold'
         /\ Waiting' = (Waiting \ L) \cup {r} /\ Running' = Running
<1>1. /\ TableTypeOK /\ RequestTypeOK /\ TablesInv /\ ByPriority(pending)
      /\ Alive \subseteq Reqs /\ Alive = Waiting \cup Running
  BY Types
<1>2. PICK p, g : p = PendingWithout(L) /\ g = Without(pendingById, IdsOf(L))
  OBVIOUS
<1>3. /\ p \in Seq(Reqs) /\ IsInjective(p) /\ ByPriority(p)
      /\ ToSet(p) = Waiting \ L
      /\ DOMAIN g \subseteq DOMAIN pendingById
      /\ g \in [DOMAIN g -> Reqs]
      /\ \A i \in DOMAIN g : g[i] = pendingById[i]
      /\ Range(g) = Waiting \ L
      /\ DOMAIN g = DOMAIN pendingById \ IdsOf(L)
  BY <1>1, <1>2, PendingLeft
<1>4. /\ Accepts(r, Waiting \ L) /\ pending' = Enqueued(p, r)
      /\ pendingById' = [i \in DOMAIN g \cup {Id[r]} |-> IF i = Id[r] THEN r ELSE g[i]]
  BY <1>2, <1>3 DEF AddAccepts
<1>5. /\ pending' \in Seq(Reqs) /\ IsInjective(pending') /\ ByPriority(pending')
      /\ ToSet(pending') = (Waiting \ L) \cup {r}
  <2>1. r \in Reqs \ ToSet(p)
    BY <1>1, <1>3
  <2> QED
    BY <1>3, <1>4, <2>1, EnqueuedFacts
<1>6. Id[r] \notin DOMAIN g /\ Id[r] \notin DOMAIN active
  <2>1. Id[r] \notin IdsOf(Waiting \ L) \cup DOMAIN active
    BY <1>4 DEF Accepts
  <2>2. \A i \in DOMAIN g : i \in IdsOf(Waiting \ L)
    <3> SUFFICES ASSUME NEW i \in DOMAIN g PROVE i \in IdsOf(Waiting \ L)
      OBVIOUS
    <3>1. Id[g[i]] = i /\ g[i] \in Waiting \ L
      BY <1>1, <1>3 DEF TablesInv, Range
    <3> QED
      BY <3>1 DEF IdsOf
  <2> QED
    BY <2>1, <2>2
<1>7. /\ DOMAIN pendingById' = DOMAIN g \cup {Id[r]} /\ DOMAIN pendingById' \subseteq Ids
      /\ pendingById' \in [DOMAIN pendingById' -> Reqs]
      /\ pendingById'[Id[r]] = r /\ \A i \in DOMAIN g : pendingById'[i] = g[i]
      /\ Range(pendingById') = (Waiting \ L) \cup {r}
  <2>1. DOMAIN g \subseteq Ids
    BY <1>1, <1>3 DEF TableTypeOK
  <2>2. \A h : h = [i \in DOMAIN g \cup {Id[r]} |-> IF i = Id[r] THEN r ELSE g[i]] =>
          /\ DOMAIN h = DOMAIN g \cup {Id[r]} /\ DOMAIN h \subseteq Ids
          /\ h \in [DOMAIN h -> Reqs]
          /\ h[Id[r]] = r /\ \A i \in DOMAIN g : h[i] = g[i]
          /\ Range(h) = Range(g) \cup {r}
    BY <1>3, <1>6, <2>1, WithOneFacts
  <2> QED
    BY <1>3, <1>4, <2>2
<1>8. Waiting' = (Waiting \ L) \cup {r} /\ Running' = Running
  BY <1>5 DEF Waiting, Running
<1>9. TableTypeOK'
  BY <1>1, <1>5, <1>7 DEF TableTypeOK
<1>10. TablesInv'
  <2>1. Waiting' = Range(pendingById')
    BY <1>7, <1>8
  <2>2. DOMAIN pendingById' \cap DOMAIN active' = {}
    BY <1>1, <1>3, <1>6, <1>7 DEF TablesInv
  <2>3. \A i \in DOMAIN pendingById' : Id[pendingById'[i]] = i
    BY <1>1, <1>3, <1>7 DEF TablesInv
  <2>4. \A i \in DOMAIN active' : Id[active'[i]] = i
    BY <1>1 DEF TablesInv
  <2> QED
    BY <2>1, <2>2, <2>3, <2>4 DEF TablesInv
<1>11. BudgetsHold'
  <2>1. PendingBudget(Waiting) /\ ActiveBudget(Running)
    BY TwoBudgets DEF RequestsInv
  <2>2. Waiting \ L \in SUBSET Reqs /\ Waiting \ L \in SUBSET Waiting
        /\ IsFiniteSet(Waiting) /\ r \in Reqs \ (Waiting \ L)
    BY <1>1, TablesGive
  <2>3. IsFiniteSet(Waiting \ L) /\ PendingBudget(Waiting \ L)
    BY <1>1, <2>1, <2>2, BudgetsShrink, FS_Subset
  <2>4. PendingBudget((Waiting \ L) \cup {r})
    BY <1>4, <2>2, <2>3, AcceptedFits
  <2>5. (PendingBudget(Waiting) /\ ActiveBudget(Running))'
    BY <1>8, <2>1, <2>4 DEF PendingBudget, ActiveBudget
  <2>6. (BudgetsHold <=> PendingBudget(Waiting) /\ ActiveBudget(Running))'
    BY TwoBudgets, PTL
  <2> QED
    BY <2>5, <2>6
<1>12. QED
  BY <1>5, <1>8, <1>9, <1>10, <1>11 DEF ByPriority

(* add_request, in both outcomes.                                          *)
LEMMA AddRequestKeeps ==
  ASSUME RequestsInv, NEW r \in Reqs, AddRequest(r)
  PROVE  RequestsInv'
<1>1. /\ RequestTypeOK /\ RecordTypeOK /\ LoopTypeOK /\ OutsOK
      /\ stream \in [Reqs -> Streams] /\ Alive = Waiting \cup Running
      /\ \A q \in Reqs : OutcomeInv(q)
  BY Types
<1>2. PICK L : AddExpires(L) /\ (AddAccepts(r, L) \/ AddRejects(L))
  BY AddRequestIs
<1>3. /\ stream[r] = "new" /\ L \in SUBSET Waiting /\ L \in SUBSET Alive
      /\ EndAll(L, Timeout, "timed_out") /\ UNCHANGED active /\ UNCHANGED outs /\ got' = got
  BY <1>1, <1>2, AddRequestIs DEF AddExpires
<1>4. LoopTypeOK' /\ OutsOK'
  BY <1>1, <1>2, StartKeepsTypes DEF AddExpires, OutsOK
<1>5. CASE AddRejects(L)
  <2>1. UNCHANGED clientVars
    BY <1>3, <1>5 DEF AddRejects, clientVars
  <2>2. PendingLoses(L) /\ ActiveLoses({}) /\ L \cup {} = L /\ {} \in SUBSET Running
    BY <1>3, <1>5 DEF AddRejects, PendingLoses, ActiveLoses
  <2> QED
    BY <1>3, <1>4, <2>1, <2>2, ExpiryKeeps
<1>6. CASE AddAccepts(r, L)
  <2>1. r \notin Alive
    BY <1>1, <1>3 DEF OutcomeInv
  <2>2. /\ TableTypeOK' /\ TablesInv' /\ ByPriority(pending)' /\ BudgetsHold'
        /\ Waiting' = (Waiting \ L) \cup {r} /\ Running' = Running
    BY <1>3, <1>6, <2>1, AcceptanceFacts
  <2>3. stream' = [stream EXCEPT ![r] = "open"]
    BY <1>6 DEF AddAccepts
  <2>4. /\ \A q \in L : RequestEnds(q)
        /\ \A q \in Reqs \ L : FieldsStay(q)
        /\ FieldsOK'
    <3>1. Timeout \in Events /\ "timed_out" \in Outcomes
      BY Kinds DEF Outcomes
    <3>2. \A q \in L : stream'[q] = stream[q]
      BY <1>1, <1>3, <2>1, <2>3
    <3> QED
      BY <1>3, <3>1, <3>2, EndAllTogether
  <2>5. \A q \in Reqs : OutcomeInv(q)'
    <3> SUFFICES ASSUME NEW q \in Reqs PROVE OutcomeInv(q)'
      OBVIOUS
    <3>0. OutcomeInv(q)
      BY <1>1
    <3>1. CASE q = r
      <4>1. stream'[r] = "open" /\ FieldsStay(r) /\ got'[r] = got[r] /\ r \in Waiting'
        BY <1>1, <1>3, <2>1, <2>2, <2>3, <2>4
      <4> QED
        BY <1>3, <3>0, <3>1, <4>1, JoiningKeeps DEF FieldsStay
    <3>2. CASE q \in L
      <4>1. RequestEnds(q) /\ q \in Alive /\ q \notin Alive' /\ q \notin Waiting'
        <5>1. q \in Waiting /\ q # r /\ q \notin Running
          BY <1>1, <1>3, <2>1, <3>2, Types, TablesGive
        <5> QED
          BY <1>1, <2>2, <2>4, <3>2, <5>1 DEF Alive
      <4> QED
        BY <1>1, <3>0, <4>1, EndingKeeps
    <3>3. CASE q # r /\ q \notin L
      <4>1. RequestStays(q)
        BY <1>1, <1>3, <2>3, <2>4, <3>3 DEF FieldsStay, RequestStays
      <4>2. (q \in Alive' <=> q \in Alive) /\ (q \in Waiting' => q \in Waiting)
        BY <2>2, <3>3 DEF Alive
      <4> QED
        BY <3>0, <4>1, <4>2, StayingKeeps
    <3> QED
      BY <3>1, <3>2, <3>3
  <2>6. RecordTypeOK'
    <3>1. stream' \in [Reqs -> Streams]
      BY <1>1, <2>3 DEF Streams
    <3> QED
      BY <1>1, <1>3, <1>4, <2>4, <3>1 DEF RecordTypeOK, FieldsOK, OutsOK
  <2> QED
    BY <1>4, <2>2, <2>5, <2>6 DEF RequestsInv, TypeOK, RequestTypeOK
<1>7. QED
  BY <1>2, <1>5, <1>6

-----------------------------------------------------------------------------
(***************************************************************************)
(* What holds of the requests, in every behaviour                          *)
(***************************************************************************)

(* At first there is no request.                                           *)
LEMMA InitRequests == Init => RequestsInv
<1> SUFFICES ASSUME Init PROVE RequestsInv
  OBVIOUS
<1>1. /\ pending = << >> /\ pendingById = << >> /\ active = << >> /\ engine = << >>
      /\ queue = [r \in Reqs |-> << >>]
      /\ cancelled = [r \in Reqs |-> FALSE] /\ finished = [r \in Reqs |-> FALSE]
      /\ counted = [r \in Reqs |-> << >>]
      /\ up = TRUE /\ fatal = FALSE /\ draining = FALSE /\ shutdown = FALSE /\ task = 1
      /\ loop = [t \in Loops |-> IF t = 1 THEN "new" ELSE "done"]
      /\ outs = [t \in Loops |-> << >>] /\ oper = [o \in Operators |-> <<"none", 0>>]
      /\ stream = [r \in Reqs |-> "new"] /\ got = [r \in Reqs |-> 0]
  BY DEF Init
<1>2. Waiting = {} /\ Running = {} /\ Alive = {}
  BY <1>1, NoTable DEF Waiting, Running, Alive
<1>3. TableTypeOK
  <2>1. /\ DOMAIN << >> \subseteq Ids /\ << >> \in [DOMAIN << >> -> Reqs]
        /\ IsFiniteSet(Range(<< >>)) /\ << >> \in Seq(Reqs) /\ IsInjective(<< >>)
    BY NoTable
  <2> QED
    BY <1>1, <2>1 DEF TableTypeOK
<1>4. RecordTypeOK
  BY <1>1 DEF RecordTypeOK, Streams
<1>5. LoopTypeOK
  <2>1. DOMAIN engine = {} /\ IsFiniteSet(DOMAIN engine)
    BY <1>1, NoTable
  <2>2. engine \in [DOMAIN engine -> Nat \cup {-1}] /\ DOMAIN engine \subseteq Reqs
    BY <1>1, <2>1
  <2>3. loop \in [Loops -> Stages]
    BY <1>1, StagesAre
  <2>4. oper \in [Operators -> {"none", "restart", "shutdown"} \X (Loops \cup {0})]
    BY <1>1
  <2> QED
    BY <1>1, <2>1, <2>2, <2>3, <2>4, Constants DEF LoopTypeOK
<1>6. TablesInv
  <2>1. DOMAIN pendingById = {} /\ DOMAIN active = {} /\ Range(pendingById) = {}
    BY <1>1, NoTable
  <2> QED
    BY <1>2, <2>1 DEF TablesInv
<1>7. ASSUME NEW r \in Reqs PROVE OutcomeInv(r)
  <2>1. /\ queue[r] = << >> /\ counted[r] = << >> /\ stream[r] = "new" /\ got[r] = 0
        /\ finished[r] = FALSE /\ ~cancelled[r]
    BY <1>1
  <2>2. ~(Len(counted[r]) > 1) /\ DOMAIN queue[r] = {}
    BY <2>1, NoTable
  <2>3. r \notin Waiting /\ r \notin Alive
    BY <1>2
  <2> QED
    BY <2>1, <2>2, <2>3 DEF OutcomeInv
<1>8. BudgetsHold
  <2>1. Cardinality({}) = 0 /\ \A f : Total(f, {}) = 0
    <3>1. \A f : UNION {{r} \X (1..f[r]) : r \in {}} = {}
      OBVIOUS
    <3> QED
      BY <3>1, FS_EmptySet DEF Total
  <2>2. PendingBudget({}) /\ ActiveBudget({})
    BY <2>1, Constants DEF PendingBudget, ActiveBudget
  <2> QED
    BY <1>2, <2>2, TwoBudgets
<1>9. ByPriority(pending)
  BY <1>1 DEF ByPriority
<1>10. QED
  BY <1>3, <1>4, <1>5, <1>6, <1>7, <1>8, <1>9 DEF RequestsInv, TypeOK, RequestTypeOK

(* Every step keeps the invariant of the requests.                         *)
LEMMA NextRequests == RequestsInv /\ [Next]_vars => RequestsInv'
<1> SUFFICES ASSUME RequestsInv, [Next]_vars PROVE RequestsInv'
  OBVIOUS
<1>1. ASSUME NEW t \in Loops, RunLoop(t) PROVE RequestsInv'
  <2>1. CASE LoopEnds(t) \/ LoopIdles(t)
    BY <2>1, QuietTurnKeeps
  <2>2. CASE LoopExpires(t) \/ DrainExpires(t) \/ DrainEnds(t) \/ LoopTurns(t)
    BY <2>2, ExpiringTurnKeeps
  <2>3. CASE DrainAdmits(t)
    BY <2>3, DrainAdmitsKeeps
  <2>4. CASE Step(t)
    BY <2>4, StepKeeps
  <2>5. CASE LoopFails(t)
    BY <2>5, LoopFailsKeeps
  <2>6. CASE Deliver(t)
    BY <2>6, DeliverKeeps
  <2> QED
    BY <1>1, <2>1, <2>2, <2>3, <2>4, <2>5, <2>6 DEF RunLoop
<1>2. ASSUME NEW r \in Reqs, AddRequest(r) \/ Receive(r) \/ Leave(r) PROVE RequestsInv'
  BY <1>2, AddRequestKeeps, ReceiveKeeps, LeaveKeeps
<1>3. ASSUME NEW i \in Ids, Cancel(i) PROVE RequestsInv'
  BY <1>3, CancelKeeps
<1>4. CASE PurgePrefixCache
  BY <1>4, PurgeKeeps
<1>5. CASE SetDraining \/ \E o \in Operators : Restart(o) \/ Shutdown(o)
  BY <1>5, OperatorKeeps
<1>6. ASSUME NEW o \in Operators, StopReturns(o) PROVE RequestsInv'
  BY <1>6, StopReturnsKeeps
<1>7. CASE UNCHANGED vars
  <2>1. /\ UNCHANGED <<queueVars, requestVars, clientVars>>
        /\ UNCHANGED <<lifeVars, loopVars, engine>>
    BY <1>7 DEF vars
  <2>2. LoopTypeOK' /\ OutsOK'
    BY <2>1, Types DEF LoopTypeOK, OutsOK, lifeVars, loopVars
  <2> QED
    BY <2>1, <2>2, StillKeeps
<1>8. QED
  BY <1>1, <1>2, <1>3, <1>4, <1>5, <1>6, <1>7 DEF Next

(* What holds of the requests, however the loops and operators take turns. *)
THEOREM RequestsInvariance == Spec => []RequestsInv
<1>1. Init => RequestsInv
  BY InitRequests
<1>2. RequestsInv /\ [Next]_vars => RequestsInv'
  BY NextRequests
<1>3. QED
  BY <1>1, <1>2, PTL DEF Spec

(* The variables have their types.                                         *)
THEOREM TypeCorrect == Spec => []TypeOK
<1>1. RequestsInv => TypeOK
  BY DEF RequestsInv
<1>2. QED
  BY <1>1, RequestsInvariance, PTL

(* Every end of a request is decided once, counted so, and told its        *)
(* consumer, even if restarts race.                                        *)
THEOREM EndsAreDecidedOnce == Spec => []OutcomeDecidedOnce
<1>1. RequestsInv => OutcomeDecidedOnce
  <2> SUFFICES ASSUME RequestsInv, NEW r \in Reqs
               PROVE  /\ (stream[r] # "new" /\ counted[r] = << >>)
                           <=> r \in ToSet(pending) \cup Range(active)
                      /\ finished[r] = (counted[r] # << >>)
                      /\ Len(counted[r]) > 1 =>
                           counted[r] \in {<<"timed_out", "cancelled">>, <<"failed", "cancelled">>}
                      /\ stream[r] = "final" => counted[r] = <<"finished">>
                      /\ stream[r] = "timeout" => counted[r] = <<"timed_out">>
                      /\ stream[r] = "error" => counted[r] = <<"failed">>
                      /\ STOP \in ToSet(queue[r]) => finished[r]
                      /\ stream[r] = "open" /\ finished[r]
                           => \E k \in DOMAIN queue[r] : queue[r][k][1] # "token"
    BY DEF OutcomeDecidedOnce
  <2>1. OutcomeInv(r)
    BY Types
  <2>2. \A kind \in {"final", "timeout", "error"} : stream[r] = kind => EndedAs(r, kind)
    BY <2>1 DEF OutcomeInv
  <2>3. STOP \in ToSet(queue[r]) => finished[r]
    <3> SUFFICES ASSUME STOP \in ToSet(queue[r]) PROVE finished[r]
      OBVIOUS
    <3>1. PICK k \in DOMAIN queue[r] : queue[r][k] = STOP
      BY DEF ToSet
    <3>2. EndedAs(r, STOP[1])
      BY <2>1, <3>1 DEF OutcomeInv
    <3> QED
      BY <2>1, <3>2, Kinds DEF EndedAs, OutcomeInv
  <2> QED
    BY <2>1, <2>2, <2>3 DEF OutcomeInv, EndedAs, Alive, Waiting, Running
<1>2. QED
  BY <1>1, RequestsInvariance, PTL

(* No budget is ever exceeded.                                             *)
THEOREM BudgetsAreKept == Spec => []BudgetsHold
<1>1. RequestsInv => BudgetsHold
  BY DEF RequestsInv
<1>2. QED
  BY <1>1, RequestsInvariance, PTL

(* Only _drain_pending lets a request into the engine.                     *)
LEMMA OnlyDrainAdmits ==
  ASSUME RequestsInv, Next, NEW r \in Running' \ Running
  PROVE  \E t \in Loops : DrainAdmits(t)
<1>1. \A f, S : Range(Without(f, S)) \subseteq Range(f)
  BY DEF Without, Restrict, Range
<1>2. /\ active' # active
      /\ \A S : active' # Without(active, S)
      /\ active' # << >>
  BY <1>1, NoTable DEF Running
<1>3. ASSUME NEW t \in Loops, RunLoop(t) PROVE DrainAdmits(t)
  <2>1. ~LoopEnds(t) /\ ~LoopIdles(t) /\ ~Step(t)
    BY <1>2 DEF LoopEnds, LoopIdles, Step, queueVars
  <2>2. ~LoopExpires(t) /\ ~DrainExpires(t) /\ ~DrainEnds(t) /\ ~LoopTurns(t)
    BY <1>2 DEF LoopExpires, DrainExpires, DrainEnds, LoopTurns, ExpireActive
  <2>3. ~LoopFails(t) /\ ~Deliver(t)
    BY <1>2 DEF LoopFails, Deliver
  <2> QED
    BY <1>3, <2>1, <2>2, <2>3 DEF RunLoop
<1>4. ASSUME NEW q \in Reqs, AddRequest(q) \/ Receive(q) PROVE FALSE
  BY <1>2, <1>4 DEF AddRequest, Receive, queueVars
<1>5. ASSUME NEW i, AbortId(i) PROVE FALSE
  BY <1>2, <1>5 DEF AbortId, queueVars
<1>6. ASSUME NEW q \in Reqs, Leave(q) PROVE FALSE
  BY <1>2, <1>5, <1>6 DEF Leave, queueVars
<1>7. ASSUME NEW i \in Ids, Cancel(i) PROVE FALSE
  BY <1>5, <1>7 DEF Cancel
<1>8. ~PurgePrefixCache /\ ~SetDraining
  BY <1>2 DEF PurgePrefixCache, SetDraining, queueVars
<1>9. ASSUME NEW o \in Operators, Restart(o) \/ Shutdown(o) \/ StopReturns(o) PROVE FALSE
  BY <1>2, <1>9 DEF Restart, Shutdown, Stop, StopReturns, queueVars
<1>10. QED
  BY <1>3, <1>4, <1>6, <1>7, <1>8, <1>9 DEF Next

(* A request overtakes one of higher priority only if that one does not    *)
(* fit.                                                                    *)
THEOREM PrioritiesAreKept == Spec => HigherPriorityFirst
<1>1. RequestsInv /\ [Next]_vars =>
        [\A r \in Range(active') \ Range(active), q \in ToSet(pending') :
           Priority[q] > Priority[r] => ~CanAdmitActive(q)]_vars
  <2> SUFFICES ASSUME RequestsInv, Next,
                      NEW r \in Range(active') \ Range(active), NEW q \in ToSet(pending'),
                      Priority[q] > Priority[r], CanAdmitActive(q)
               PROVE  FALSE
    OBVIOUS
  <2>1. PICK t \in Loops : DrainAdmits(t)
    BY OnlyDrainAdmits DEF Running
  <2>2. PICK s : s = pending[Min(Admissible)]
    OBVIOUS
  <2>3. /\ s \in Waiting /\ s \in Reqs /\ CanAdmitActive(s)
        /\ Min(Admissible) \in DOMAIN pending
        /\ \A k \in Admissible : Min(Admissible) <= k
    BY <2>1, <2>2, NextAdmitted DEF DrainAdmits
  <2>4. r = s /\ Waiting' = Waiting \ {s}
    <3>1. /\ pending' = PendingWithout({s}) /\ pendingById' = Without(pendingById, {Id[s]})
          /\ \/ active' = [i \in DOMAIN active \cup {Id[s]} |-> IF i = Id[s] THEN s ELSE active[i]]
             \/ UNCHANGED active
      BY <2>1, <2>2 DEF DrainAdmits
    <3>2. active' = [i \in DOMAIN active \cup {Id[s]} |-> IF i = Id[s] THEN s ELSE active[i]]
      BY <3>1
    <3>3. Waiting' = Waiting \ {s} /\ Running' = Running \cup {s}
      BY <2>3, <3>1, <3>2, AdmissionFacts
    <3> QED
      BY <3>3 DEF Running
  <2>5. q \in Waiting /\ q # s
    BY <2>4 DEF Waiting
  <2>6. PICK k \in DOMAIN pending : pending[k] = q
    BY <2>5 DEF Waiting, ToSet
  <2>7. k \in Admissible /\ Min(Admissible) <= k /\ k # Min(Admissible)
    BY <2>2, <2>3, <2>5, <2>6 DEF Admissible
  <2>8. DOMAIN pending \subseteq Nat
    BY Types, MembersOf DEF TableTypeOK
  <2>9. Priority[s] >= Priority[q]
    <3>1. Min(Admissible) < k
      BY <2>3, <2>6, <2>7, <2>8
    <3> QED
      BY <2>2, <2>3, <2>6, <3>1, Types DEF ByPriority
  <2>10. Priority[s] \in Int /\ Priority[q] \in Int
    BY <2>3, <2>5, Types, Constants
  <2> QED
    BY <2>4, <2>9, <2>10
<1>2. QED
  BY <1>1, RequestsInvariance, PTL DEF Spec, HigherPriorityFirst

-----------------------------------------------------------------------------
(***************************************************************************)
(* One loop works at a time, unless restarts race                          *)
(***************************************************************************)
NoOperator == \A o \in Operators : oper[o][1] = "none"
SameLife == UNCHANGED <<up, fatal, shutdown, task, oper>>

(* A loop that keeps the event loop has no operator waiting for it.        *)
LEMMA BusyLoop ==
  ASSUME LoopInv, NEW t \in Loops, loop[t] \notin Parting \/ ~shutdown
  PROVE  NoOperator
BY DEF LoopInv, OperatorInv, NoOperator

(* When the task has ended, all loops have, and nothing is undelivered.    *)
LEMMA EndedIsDone ==
  ASSUME LoopInv, Ended(task)
  PROVE  AllDone
BY Constants DEF LoopInv, OneLoop, Ended, AllDone

(* Outputs exist only between a step and the next turn.                    *)
LEMMA NothingOut ==
  ASSUME LoopInv, NEW t \in Loops, loop[t] \notin {"deliver", "out"}, loop[t] # "done" \/ AllDone
  PROVE  \A s \in Loops : outs[s] = << >>
BY DEF LoopInv, OneLoop, AllDone

(* Requests come to their ends, and that is all.                           *)
LEMMA LoopStays ==
  ASSUME LoopInv, SameLife, UNCHANGED <<loop, outs>>, DOMAIN active' \subseteq DOMAIN active,
         NoOperator \/ \A r \in Reqs : stream'[r] = "open" => stream[r] = "open"
  PROVE  LoopInv'
<1>1. /\ up' = up /\ fatal' = fatal /\ shutdown' = shutdown /\ task' = task
      /\ oper' = oper /\ loop' = loop /\ outs' = outs
  BY DEF SameLife
<1>2. OneLoop'
  BY <1>1 DEF LoopInv, OneLoop
<1>3. OperatorInv'
  BY <1>1 DEF LoopInv, OperatorInv, AllDone, NoOperator
<1>4. QED
  BY <1>2, <1>3 DEF LoopInv

(* A loop moves on to s.                                                   *)
LEMMA LoopGoesOn ==
  ASSUME LoopTypeOK, LoopInv, SameLife, NEW t \in Loops, NEW s \in Stages,
         loop' = [loop EXCEPT ![t] = s], loop[t] # "done",
         (s \in Parting /\ DOMAIN active' \subseteq DOMAIN active) \/ NoOperator,
         \A u \in Loops \ {t} : outs'[u] = outs[u],
         outs'[t] # << >> => s \in {"deliver", "out"},
         UNCHANGED stream
  PROVE  LoopInv'
<1>1. /\ up' = up /\ fatal' = fatal /\ shutdown' = shutdown /\ task' = task
      /\ oper' = oper /\ stream' = stream
  BY DEF SameLife
<1>2. loop'[t] = s /\ \A u \in Loops \ {t} : loop'[u] = loop[u]
  BY DEF LoopTypeOK
<1>3. OneLoop'
  BY <1>1, <1>2 DEF LoopInv, OneLoop
<1>4. ASSUME NEW o \in Operators, oper'[o][1] # "none"
      PROVE  /\ \A p \in Operators : oper'[p][1] # "none" => p = o
             /\ oper'[o][2] \in {0, task'} /\ (oper'[o][2] = 0 => AllDone')
             /\ shutdown' /\ DOMAIN active' = {}
             /\ \A u \in Loops : loop'[u] \in Parting
             /\ oper'[o][1] = "shutdown" => \A r \in Reqs : stream'[r] # "open"
  <2>1. ~NoOperator /\ s \in Parting /\ DOMAIN active' \subseteq DOMAIN active
    BY <1>1, <1>4 DEF NoOperator
  <2>2. /\ \A p \in Operators : oper[p][1] # "none" => p = o
        /\ oper[o][2] \in {0, task} /\ (oper[o][2] = 0 => AllDone)
        /\ shutdown /\ DOMAIN active = {}
        /\ \A u \in Loops : loop[u] \in Parting
        /\ oper[o][1] = "shutdown" => \A r \in Reqs : stream[r] # "open"
    BY <1>1, <1>4 DEF LoopInv, OperatorInv
  <2>3. oper[o][2] # 0
    BY <2>2 DEF AllDone
  <2>4. \A u \in Loops : loop'[u] \in Parting
    BY <1>2, <2>1, <2>2
  <2> QED
    BY <1>1, <2>1, <2>2, <2>3, <2>4
<1>5. OperatorInv'
  BY <1>4 DEF OperatorInv
<1>6. QED
  BY <1>3, <1>5 DEF LoopInv

(* A new loop starts when there is no operator and the old one is done.    *)
LEMMA LoopStarts ==
  ASSUME LoopTypeOK, LoopInv, AllDone, NewTask, up' = TRUE, fatal' = FALSE,
         \A o \in Operators : oper'[o][1] = "none", UNCHANGED outs
  PROVE  LoopInv'
<1>1. /\ shutdown' = FALSE /\ task' \in Loops /\ loop[task'] = "done"
      /\ loop' = [loop EXCEPT ![task'] = "new"]
  BY NewTaskFacts
<1>2. loop'[task'] = "new" /\ \A t \in Loops : t # task' => loop'[t] = "done"
  BY <1>1 DEF LoopTypeOK, AllDone
<1>3. \A t \in Loops : outs'[t] = << >>
  BY DEF LoopInv, OneLoop, AllDone
<1>4. OneLoop'
  BY <1>2, <1>3 DEF OneLoop
<1>5. OperatorInv'
  BY DEF OperatorInv
<1>6. QED
  BY <1>4, <1>5 DEF LoopInv

(* start, called by a client.                                              *)
LEMMA StartsLoop ==
  ASSUME LoopTypeOK, LoopInv, ~Racing, Free, Calm, Start, UNCHANGED <<fatal, oper, outs>>,
         UNCHANGED active, \/ \A r \in Reqs : stream'[r] = "open" => stream[r] = "open"
                           \/ \A o \in Operators : oper[o][1] # "shutdown"
  PROVE  LoopInv'
<1>1. CASE fatal \/ (~Ended(task) /\ up)
  <2>1. SameLife /\ UNCHANGED loop
    BY <1>1 DEF Start, SameLife, LoopTypeOK
  <2>2. up' = up /\ fatal' = fatal /\ shutdown' = shutdown /\ task' = task
        /\ oper' = oper /\ loop' = loop /\ outs' = outs /\ active' = active
    BY <2>1 DEF SameLife
  <2>3. OneLoop'
    BY <2>2 DEF LoopInv, OneLoop
  <2>4. OperatorInv'
    BY <2>2 DEF LoopInv, OperatorInv, AllDone
  <2> QED
    BY <2>3, <2>4 DEF LoopInv
<1>2. ~Ended(task) => up
  BY DEF LoopInv, OneLoop, Ended, LoopTypeOK
<1>3. CASE ~fatal /\ Ended(task)
  <2>1. AllDone
    BY <1>3, EndedIsDone
  <2>2. NoOperator
    <3> SUFFICES ASSUME NEW o \in Operators, oper[o][1] # "none" PROVE FALSE
      BY DEF NoOperator
    <3>1. oper[o][2] = task
      BY DEF LoopInv, OperatorInv, Free
    <3>2. Resumes(o)
      BY <1>3, <3>1 DEF Resumes
    <3> QED
      BY <3>2 DEF Calm
  <2>3. NewTask /\ up' = TRUE /\ fatal' = FALSE
    BY <1>3 DEF Start, LoopTypeOK
  <2> QED
    BY <2>1, <2>2, <2>3, LoopStarts DEF NoOperator
<1>4. QED
  BY <1>1, <1>2, <1>3

(* A loop that wakes up or goes on at a stage.                             *)
LEMMA WakesUp ==
  /\ \A t : At(t, "top", {"new", "idle"}) => loop[t] \in {"top", "new", "idle"}
  /\ \A t : At(t, "deliver", {"out"}) => loop[t] \in {"deliver", "out"}
BY DEF At

(* The loop in one of its quiet turns, and in those that expire requests.  *)
LEMMA TurnKeepsLoop ==
  ASSUME RequestsInv, LoopInv, NEW t \in Loops,
         \/ LoopEnds(t) \/ LoopIdles(t)
         \/ LoopExpires(t) \/ DrainExpires(t) \/ DrainEnds(t) \/ LoopTurns(t)
  PROVE  LoopInv'
<1>1. /\ LoopTypeOK /\ RequestTypeOK /\ TablesInv
      /\ \A u \in Loops : outs[u] # << >> => loop[u] \in {"deliver", "out"}
  BY Types DEF LoopInv, OneLoop
<1>2. UNCHANGED lifeVars /\ UNCHANGED outs /\ UNCHANGED stream
  BY DEF LoopEnds, LoopIdles, LoopExpires, DrainExpires, DrainEnds, LoopTurns, clientVars
<1>3. SameLife
  BY <1>2 DEF SameLife, lifeVars
<1>4. DOMAIN active' \subseteq DOMAIN active
  <2>1. CASE UNCHANGED active
    BY <2>1
  <2>2. CASE \E M \in SUBSET Running : ActiveLoses(M)
    BY <1>1, <2>2, ActiveShrinks
  <2>3. UNCHANGED active \/ \E M \in SUBSET Running : ActiveLoses(M)
    BY DEF LoopEnds, LoopIdles, LoopExpires, DrainExpires, DrainEnds, LoopTurns, ExpireActive,
           Running, ActiveLoses, queueVars
  <2> QED
    BY <2>1, <2>2, <2>3
<1>5. CASE LoopEnds(t)
  <2>1. loop[t] \in {"top", "new", "idle"} /\ loop' = [loop EXCEPT ![t] = "done"]
    BY <1>5, WakesUp DEF LoopEnds
  <2>2. outs'[t] = << >> /\ \A u \in Loops : outs'[u] = outs[u]
    BY <1>1, <1>2, <2>1
  <2>3. "done" \in Stages /\ "done" \in Parting
    BY StagesAre DEF Parting
  <2> QED
    BY <1>1, <1>2, <1>3, <1>4, <2>1, <2>2, <2>3, LoopGoesOn
<1>6. CASE LoopTurns(t)
  <2>1. loop[t] \in {"deliver", "out"} /\ loop' = [loop EXCEPT ![t] = "top"] /\ outs[t] = << >>
    BY <1>6, WakesUp DEF LoopTurns
  <2>2. "top" \in Stages /\ "top" \in Parting
    BY StagesAre DEF Parting
  <2> QED
    BY <1>1, <1>2, <1>3, <1>4, <2>1, <2>2, LoopGoesOn
<1>7. CASE LoopIdles(t) \/ LoopExpires(t) \/ DrainExpires(t) \/ DrainEnds(t)
  <2>1. PICK s \in {"idle", "drain", "admit", "step"} : loop' = [loop EXCEPT ![t] = s]
    BY <1>7 DEF LoopIdles, LoopExpires, DrainExpires, DrainEnds
  <2>2. loop[t] \in {"step", "drain", "admit"} \/ (loop[t] \in {"top", "new", "idle"} /\ ~shutdown)
    BY <1>7, WakesUp DEF LoopIdles, LoopExpires, DrainExpires, DrainEnds, Quits
  <2>3. NoOperator
    BY <2>2, BusyLoop DEF Parting
  <2>4. outs'[t] = << >> /\ s \in Stages /\ loop[t] # "done"
    BY <1>1, <1>2, <2>1, <2>2, StagesAre
  <2> QED
    BY <1>1, <1>2, <1>3, <2>1, <2>3, <2>4, LoopGoesOn
<1>8. QED
  BY <1>5, <1>6, <1>7

(* The loop where it admits a request.                                     *)
LEMMA AdmitKeepsLoop ==
  ASSUME RequestsInv, LoopInv, NEW t \in Loops, DrainAdmits(t)
  PROVE  LoopInv'
<1>1. /\ LoopTypeOK /\ \A u \in Loops : outs[u] # << >> => loop[u] \in {"deliver", "out"}
  BY Types DEF LoopInv, OneLoop
<1>2. /\ UNCHANGED lifeVars /\ UNCHANGED outs /\ UNCHANGED stream
      /\ loop[t] = "admit" /\ loop' = [loop EXCEPT ![t] = "drain"]
  BY DEF DrainAdmits, clientVars
<1>3. SameLife /\ NoOperator
  BY <1>2, BusyLoop DEF SameLife, lifeVars, Parting
<1>4. outs'[t] = << >> /\ "drain" \in Stages
  BY <1>1, <1>2, StagesAre
<1>5. QED
  BY <1>1, <1>2, <1>3, <1>4, LoopGoesOn

(* The loop where it steps the engine.                                     *)
LEMMA StepKeepsLoop ==
  ASSUME RequestsInv, LoopInv, NEW t \in Loops, Step(t)
  PROVE  LoopInv'
<1>1. LoopTypeOK /\ OutsOK
  BY Types
<1>2. PICK B, E, F, order : Produced(t, B, E, F, order)
  BY StepProduces
<1>3. /\ loop[t] = "step" /\ loop' = [loop EXCEPT ![t] = "deliver"]
      /\ UNCHANGED lifeVars /\ UNCHANGED stream
  BY StepProduces DEF clientVars
<1>4. \A u \in Loops \ {t} : outs'[u] = outs[u]
  BY <1>1, <1>2 DEF Produced, PutOut, OutsOK
<1>5. SameLife /\ NoOperator /\ "deliver" \in Stages
  BY <1>3, BusyLoop, StagesAre DEF SameLife, lifeVars, Parting
<1>6. QED
  BY <1>1, <1>3, <1>4, <1>5, LoopGoesOn

(* The loop where it delivers.                                             *)
LEMMA DeliverKeepsLoop ==
  ASSUME RequestsInv, LoopInv, NEW t \in Loops, Deliver(t)
  PROVE  LoopInv'
<1>1. LoopTypeOK /\ OutsOK /\ RequestTypeOK /\ TablesInv
  BY Types
<1>2. PICK i, e, r :
        /\ Delivers(t, i, e, r)
        /\ DeliversNothing(t, i) \/ DeliversToken(t, i, e, r) \/ DeliversLast(t, i, e, r)
  BY DeliverIs
<1>3. UNCHANGED lifeVars /\ UNCHANGED stream /\ \A u \in Loops \ {t} : outs'[u] = outs[u]
  BY <1>1, <1>2, FirstOut DEF Delivers, clientVars
<1>4. loop[t] \in {"deliver", "out"}
  BY WakesUp DEF Deliver
<1>5. PICK s \in {"deliver", "out"} : loop' = [loop EXCEPT ![t] = s]
  BY <1>2 DEF DeliversNothing, DeliversToken, DeliversLast
<1>6. DOMAIN active' \subseteq DOMAIN active
  <2>1. CASE DeliversLast(t, i, e, r)
    BY <1>1, <1>2, <2>1, LastEnds, ActiveShrinks DEF Losing
  <2>2. CASE DeliversNothing(t, i) \/ DeliversToken(t, i, e, r)
    BY <2>2 DEF DeliversNothing, DeliversToken
  <2> QED
    BY <1>2, <2>1, <2>2
<1>7. SameLife /\ s \in Stages /\ s \in Parting
  BY <1>3, <1>5, StagesAre DEF SameLife, lifeVars, Parting
<1>8. QED
  BY <1>1, <1>3, <1>4, <1>5, <1>6, <1>7, LoopGoesOn

(* The loop where the engine fails: it was alone, and ends.                *)
LEMMA FailureKeepsLoop ==
  ASSUME RequestsInv, LoopInv, NEW t \in Loops, LoopFails(t)
  PROVE  LoopInv'
<1>1. LoopTypeOK /\ OneLoop
  BY Types DEF LoopInv
<1>2. /\ loop[t] \in {"step", "drain"} /\ fatal' = TRUE /\ active' = << >>
      /\ loop' = [loop EXCEPT ![t] = "done"] /\ UNCHANGED <<up, task, oper, outs>>
  BY DEF LoopFails
<1>3. NoOperator
  BY <1>2, BusyLoop DEF Parting
<1>4. \A u \in Loops : loop'[u] = "done"
  BY <1>1, <1>2 DEF OneLoop, LoopTypeOK
<1>5. \A u \in Loops : outs'[u] = << >>
  BY <1>1, <1>2 DEF OneLoop
<1>6. OneLoop'
  BY <1>2, <1>4, <1>5, NoTable DEF OneLoop
<1>7. OperatorInv'
  BY <1>2, <1>3 DEF OperatorInv, NoOperator
<1>8. QED
  BY <1>6, <1>7 DEF LoopInv

(* Clients.                                                                *)
LEMMA ClientKeepsLoop ==
  ASSUME RequestsInv, LoopInv, ~Racing,
         \/ \E r \in Reqs : AddRequest(r) \/ Receive(r) \/ Leave(r)
         \/ \E i \in Ids : Cancel(i)
         \/ PurgePrefixCache
  PROVE  LoopInv'
<1>1. /\ LoopTypeOK /\ RequestTypeOK /\ RecordTypeOK /\ TablesInv /\ stream \in [Reqs -> Streams]
      /\ Alive = Waiting \cup Running
  BY Types
<1>2. ASSUME NEW r \in Reqs, AddRequest(r) PROVE LoopInv'
  BY <1>1, <1>2, StartsLoop DEF AddRequest
<1>3. CASE PurgePrefixCache
  <2>1. /\ Free /\ Calm /\ Start /\ UNCHANGED <<fatal, oper, outs, active, stream>>
    BY <1>3 DEF PurgePrefixCache, queueVars, clientVars
  <2> QED
    BY <1>1, <2>1, StartsLoop
<1>4. ASSUME NEW i, AbortId(i) PROVE DOMAIN active' \subseteq DOMAIN active
  <2>1. CASE UNCHANGED active
    BY <2>1
  <2>2. CASE active' = Without(active, {i})
    BY <2>2 DEF Without, Restrict
  <2> QED
    BY <1>4, <2>1, <2>2 DEF AbortId, queueVars
<1>5. ASSUME NEW i \in Ids, Cancel(i) PROVE LoopInv'
  <2>1. SameLife /\ UNCHANGED <<loop, outs>> /\ UNCHANGED stream /\ AbortId(i)
    BY <1>5 DEF Cancel, SameLife, lifeVars, loopVars, clientVars
  <2> QED
    BY <1>4, <2>1, LoopStays
<1>6. ASSUME NEW r \in Reqs, Receive(r) PROVE LoopInv'
  <2>1. /\ SameLife /\ UNCHANGED <<loop, outs>> /\ UNCHANGED active /\ stream[r] = "open"
    BY <1>6 DEF Receive, SameLife, lifeVars, loopVars, queueVars
  <2>2. \A q \in Reqs \ {r} : stream'[q] = stream[q]
    BY <1>1, <1>6 DEF Receive
  <2> QED
    BY <2>1, <2>2, LoopStays
<1>7. ASSUME NEW r \in Reqs, Leave(r) PROVE LoopInv'
  <2>1. /\ SameLife /\ UNCHANGED <<loop, outs>> /\ stream' = [stream EXCEPT ![r] = "left"]
    BY <1>7 DEF Leave, SameLife, lifeVars, loopVars
  <2>2. \A q \in Reqs : stream'[q] = "open" => stream[q] = "open"
    BY <1>1, <2>1
  <2>3. DOMAIN active' \subseteq DOMAIN active
    BY <1>4, <1>7 DEF Leave, queueVars
  <2> QED
    BY <2>1, <2>2, <2>3, LoopStays
<1>8. QED
  BY <1>2, <1>3, <1>5, <1>6, <1>7

(* Operators: nothing is active when one begins to wait for the loop, ...  *)
LEMMA StopKeepsLoop ==
  ASSUME RequestsInv, LoopInv, ~Racing, NEW o \in Operators, Restart(o) \/ Shutdown(o)
  PROVE  LoopInv'
<1>1. /\ LoopTypeOK /\ OneLoop /\ RequestTypeOK /\ TablesInv /\ \A r \in Reqs : OutcomeInv(r)
      /\ Alive = Waiting \cup Running /\ Alive \subseteq Reqs
  BY Types DEF LoopInv
<1>2. PICK what \in {"restart", "shutdown"} :
        Stop(o, what) /\ (what = "shutdown" => \A r \in Reqs : stream[r] # "open")
  BY DEF Restart, Shutdown
<1>3. /\ Free /\ NoOperator /\ shutdown' = TRUE
      /\ oper' = [oper EXCEPT ![o] = <<what, IF Ended(task) THEN 0 ELSE task>>]
      /\ UNCHANGED <<active, up, fatal, task, loop, outs, stream>>
  BY <1>2 DEF Stop, Alone, NoOperator, queueVars, loopVars, clientVars
<1>4. DOMAIN active = {}
  <2>1. CASE Restart(o)
    BY <2>1 DEF Restart, InFlight
  <2>2. CASE Shutdown(o)
    <3> SUFFICES ASSUME NEW i \in DOMAIN active PROVE FALSE
      OBVIOUS
    <3>1. active[i] \in Alive /\ active[i] \in Reqs
      BY <1>1 DEF Running, Range
    <3>2. stream[active[i]] = "open"
      BY <1>1, <3>1, AliveIsOpen
    <3> QED
      BY <2>2, <3>1, <3>2 DEF Shutdown
  <2> QED
    BY <2>1, <2>2
<1>5. \A t \in Loops : loop[t] \in Parting
  BY <1>3 DEF Free, Suspended, Parting
<1>6. OneLoop'
  BY <1>1, <1>3 DEF OneLoop
<1>7. /\ \A p \in Operators : oper'[p][1] # "none" => p = o
      /\ oper'[o] = <<what, IF Ended(task) THEN 0 ELSE task>>
  BY <1>1, <1>3 DEF NoOperator, LoopTypeOK
<1>8. /\ oper'[o][1] = what /\ oper'[o][2] \in {0, task}
      /\ oper'[o][2] = 0 => Ended(task)
  <2>1. Ended(task) \/ (oper'[o][2] = task /\ task # 0)
    BY <1>7 DEF Ended
  <2> QED
    BY <1>7, <2>1
<1>9. oper'[o][2] = 0 => AllDone'
  BY <1>3, <1>8, EndedIsDone DEF AllDone
<1>10. OperatorInv'
  BY <1>2, <1>3, <1>4, <1>5, <1>7, <1>8, <1>9 DEF OperatorInv
<1>11. QED
  BY <1>6, <1>10 DEF LoopInv

(* ... and none is when it has ended.                                      *)
LEMMA ReturnFacts ==
  ASSUME LoopTypeOK, LoopInv, NEW o \in Operators, StopReturns(o)
  PROVE  /\ AllDone /\ DOMAIN active = {} /\ \A t \in Loops : outs[t] = << >>
         /\ \A p \in Operators : oper'[p][1] = "none"
<1>1. /\ oper[o][1] # "none" /\ Ended(oper[o][2])
      /\ oper' = [oper EXCEPT ![o] = <<"none", 0>>]
  BY DEF StopReturns, Resumes
<1>2. /\ \A p \in Operators : oper[p][1] # "none" => p = o
      /\ oper[o][2] \in {0, task} /\ (oper[o][2] = 0 => AllDone)
      /\ DOMAIN active = {}
  BY <1>1 DEF LoopInv, OperatorInv
<1>3. AllDone
  BY <1>1, <1>2, EndedIsDone
<1>4. \A t \in Loops : outs[t] = << >>
  BY <1>3 DEF LoopInv, OneLoop, AllDone
<1>5. \A p \in Operators : oper'[p][1] = "none"
  BY <1>1, <1>2 DEF LoopTypeOK
<1>6. QED
  BY <1>2, <1>3, <1>4, <1>5

(* The operator ends its call, perhaps with a new loop.                    *)
LEMMA ReturnKeepsLoop ==
  ASSUME RequestsInv, LoopInv, NEW o \in Operators, StopReturns(o)
  PROVE  LoopInv'
<1>1. LoopTypeOK
  BY Types
<1>2. /\ AllDone /\ DOMAIN active = {} /\ \A t \in Loops : outs[t] = << >>
      /\ \A p \in Operators : oper'[p][1] = "none"
  BY <1>1, ReturnFacts
<1>3. UNCHANGED active /\ UNCHANGED outs
  BY DEF StopReturns, queueVars
<1>4. CASE UNCHANGED loop
  BY <1>2, <1>3, <1>4 DEF LoopInv, OneLoop, OperatorInv, AllDone
<1>5. CASE up' = TRUE /\ fatal' = FALSE /\ NewTask
  BY <1>1, <1>2, <1>3, <1>5, LoopStarts
<1>6. QED
  BY <1>4, <1>5 DEF StopReturns

(* Every step keeps one loop at a time.                                    *)
LEMMA NextLoop ==
  ASSUME RequestsInv, LoopInv, ~Racing, [Next]_vars
  PROVE  LoopInv'
<1>1. ASSUME NEW t \in Loops, RunLoop(t) PROVE LoopInv'
  BY <1>1, TurnKeepsLoop, AdmitKeepsLoop, StepKeepsLoop, DeliverKeepsLoop, FailureKeepsLoop
     DEF RunLoop
<1>2. CASE SetDraining \/ UNCHANGED vars
  <2>1. SameLife /\ UNCHANGED <<loop, outs>> /\ UNCHANGED active /\ UNCHANGED stream
    BY <1>2 DEF SetDraining, SameLife, vars, queueVars, lifeVars, loopVars, clientVars
  <2> QED
    BY <2>1, LoopStays
<1>3. QED
  BY <1>1, <1>2, ClientKeepsLoop, StopKeepsLoop, ReturnKeepsLoop DEF Next

(* At first there is one loop.                                             *)
LEMMA InitLoop == Init => LoopInv
<1> SUFFICES ASSUME Init PROVE LoopInv
  OBVIOUS
<1>1. /\ active = << >> /\ up = TRUE /\ fatal = FALSE /\ task = 1
      /\ loop = [t \in Loops |-> IF t = 1 THEN "new" ELSE "done"]
      /\ outs = [t \in Loops |-> << >>] /\ oper = [o \in Operators |-> <<"none", 0>>]
  BY DEF Init
<1>2. OneLoop
  BY <1>1, NoTable DEF OneLoop
<1>3. OperatorInv
  BY <1>1 DEF OperatorInv
<1>4. QED
  BY <1>2, <1>3 DEF LoopInv

-----------------------------------------------------------------------------
(***************************************************************************)
(* Tokens keep their order on the way to the consumers                     *)
(***************************************************************************)
(* TokensInOrder at r.                                                     *)
InOrder(r) == stream[r] = "open" =>
  \A k \in DOMAIN queue[r] :
    /\ queue[r][k][1] = "token" => queue[r][k][2] = got[r] + k
    /\ queue[r][k][1] = "final" /\ MaxTokens[r] > 0 => queue[r][k][2] = got[r] + k

(* TokensInOrder, request by request; now, ...                             *)
LEMMA OrderIs == TokensInOrder <=> \A r \in Reqs : InOrder(r)
BY DEF TokensInOrder, InOrder

(* ... and after a step.                                                   *)
LEMMA OrderNext ==
  ASSUME \A r \in Reqs : InOrder(r)'
  PROVE  TokensInOrder'
BY DEF TokensInOrder, InOrder

(* The engine on r.                                                        *)
SameProgress(r) ==
  /\ Delivered(r)' = Delivered(r)
  /\ r \in DOMAIN engine' <=> r \in DOMAIN engine
  /\ r \in DOMAIN engine => engine'[r] = engine[r]

(* r gets no token, and if its queue changes, it is closed.                *)
QuietQueue(r) ==
  /\ got'[r] = got[r]
  /\ stream'[r] = "open" => stream[r] = "open" \/ queue'[r] = << >>
  /\ \/ queue'[r] = queue[r]
     \/ \E e \in Events : e[1] \notin {"token", "final"} /\ Closes(queue[r], queue'[r], e)

(* Then its tokens stay in order.                                          *)
LEMMA QuietOrder ==
  ASSUME NEW r \in Reqs, InOrder(r), QuietQueue(r)
  PROVE  InOrder(r)'
<1> SUFFICES ASSUME stream'[r] = "open", NEW k \in DOMAIN queue'[r]
             PROVE  /\ queue'[r][k][1] = "token" => queue'[r][k][2] = got'[r] + k
                    /\ queue'[r][k][1] = "final" /\ MaxTokens[r] > 0
                         => queue'[r][k][2] = got'[r] + k
  BY DEF InOrder
<1>1. CASE queue'[r][k][1] \notin {"token", "final"}
  BY <1>1
<1>2. CASE k \in DOMAIN queue[r] /\ queue'[r][k] = queue[r][k]
  <2>1. stream[r] = "open"
    <3>1. queue'[r] # << >>
      BY NoTable
    <3> QED
      BY <3>1 DEF QuietQueue
  <2> QED
    BY <1>2, <2>1 DEF InOrder, QuietQueue
<1>3. \/ queue'[r][k][1] \notin {"token", "final"}
      \/ k \in DOMAIN queue[r] /\ queue'[r][k] = queue[r][k]
  <2>1. CASE queue'[r] = queue[r]
    BY <2>1
  <2>2. CASE \E e \in Events : e[1] \notin {"token", "final"} /\ Closes(queue[r], queue'[r], e)
    BY <2>2, Kinds DEF Closes
  <2> QED
    BY <2>1, <2>2 DEF QuietQueue
<1>4. QED
  BY <1>1, <1>2, <1>3

(* What is on its way for r stays so.                                      *)
LEMMA ProgressStays ==
  ASSUME NEW r \in Reqs, ProgressInv(r), SameProgress(r), UNCHANGED outs
  PROVE  ProgressInv(r)'
<1>1. Settled(r) => Settled(r)'
  BY DEF Settled, SameProgress
<1>2. \A e : InHand(r, e) => InHand(r, e)'
  BY DEF InHand, SameProgress
<1>3. \A t, k : OnTheWay(t, k, r)' <=> OnTheWay(t, k, r)
  BY DEF OnTheWay
<1>4. outs' = outs
  OBVIOUS
<1>5. ASSUME NEW t \in Loops, NEW k \in DOMAIN outs'[t], OnTheWay(t, k, r)'
      PROVE  /\ InHand(r, outs[t][k][2])'
             /\ \A s \in Loops : \A l \in DOMAIN outs'[s] : OnTheWay(s, l, r)' => s = t /\ l = k
  <2>1. OnTheWay(t, k, r) /\ k \in DOMAIN outs[t]
    BY <1>3, <1>4, <1>5
  <2>2. InHand(r, outs[t][k][2])
    BY <2>1 DEF ProgressInv
  <2>3. PICK e : e = outs[t][k][2]
    OBVIOUS
  <2>4. InHand(r, e)'
    BY <1>2, <2>2, <2>3
  <2> QED
    BY <1>3, <1>4, <2>1, <2>2, <2>3, <2>4 DEF ProgressInv, InHand, Delivered, SameProgress
<1>6. QED
  BY <1>1, <1>3, <1>4, <1>5 DEF ProgressInv

(* Nobody gets a token, nor is admitted.                                   *)
LEMMA QuietlyKeeps ==
  ASSUME RequestTypeOK, TablesInv, TokensInv, UNCHANGED outs, Running' \subseteq Running,
         \A r \in Reqs : QuietQueue(r),
         \A r \in Running' : queue'[r] = queue[r],
         \A r \in Running' : /\ r \in DOMAIN engine' <=> r \in DOMAIN engine
                             /\ r \in DOMAIN engine => engine'[r] = engine[r],
         ~fatal' => DOMAIN engine' \subseteq Running'
  PROVE  TokensInv'
<1>1. \A r \in Running' : ProgressInv(r)'
  <2> SUFFICES ASSUME NEW r \in Running' PROVE ProgressInv(r)'
    OBVIOUS
  <2>1. r \in Reqs /\ ProgressInv(r)
    BY TablesGive DEF TokensInv
  <2>2. SameProgress(r)
    BY <2>1 DEF SameProgress, Delivered, QuietQueue
  <2> QED
    BY <2>1, <2>2, ProgressStays
<1>2. \A r \in Reqs : InOrder(r)'
  BY OrderIs, QuietOrder DEF TokensInv
<1>3. TokensInOrder'
  BY <1>2, OrderNext
<1>4. QED
  BY <1>1, <1>3 DEF TokensInv

(* _timeout_request and _fail_request are quiet.                           *)
LEMMA EndAllIsQuiet ==
  ASSUME RequestTypeOK, NEW R, NEW e \in {Timeout, Error}, NEW outcome, EndAll(R, e, outcome),
         got' = got, NEW r \in Reqs,
         stream'[r] = "open" => stream[r] = "open" \/ queue'[r] = << >>
  PROVE  QuietQueue(r) /\ (r \notin R => queue'[r] = queue[r])
<1>1. queue[r] \in Seq(Events) /\ e \in Events /\ e[1] \notin {"token", "final"}
  BY RequestTypes, Kinds
<1>2. queue'[r] = IF r \in R THEN Closed(queue[r], e) ELSE queue[r]
  BY DEF EndAll
<1>3. Closes(queue[r], Closed(queue[r], e), e)
  BY <1>1, ClosedCloses
<1>4. QED
  BY <1>1, <1>2, <1>3 DEF QuietQueue

(* Steps that leave the requests and the engine alone.                     *)
LEMMA StillTokens ==
  ASSUME RequestTypeOK, TablesInv, TokensInv,
         UNCHANGED <<active, queue, got, stream, engine, outs, fatal>>
  PROVE  TokensInv'
<1>1. Running' = Running /\ \A r \in Reqs : QuietQueue(r)
  BY DEF Running, QuietQueue
<1>2. QED
  BY <1>1, QuietlyKeeps DEF TokensInv

(* The loop, when requests expire.                                         *)
LEMMA ExpiryTokens ==
  ASSUME RequestsInv, LoopInv, TokensInv, NEW L \in SUBSET Waiting, NEW M \in SUBSET Running,
         ActiveLoses(M), EndAll(L \cup M, Timeout, "timed_out"),
         UNCHANGED <<outs, fatal, stream, got>>,
         engine' = Without(engine, M) \/ (M = {} /\ UNCHANGED engine)
  PROVE  TokensInv'
<1>1. /\ RequestTypeOK /\ TablesInv /\ LoopTypeOK /\ Running \subseteq Reqs
      /\ Waiting \cap Running = {}
  BY Types, TablesGive
<1>2. Running' = Running \ M
  BY <1>1, ActiveShrinks
<1>3. \A r \in Reqs : QuietQueue(r) /\ (r \notin L \cup M => queue'[r] = queue[r])
  BY <1>1, EndAllIsQuiet
<1>4. /\ DOMAIN engine' = DOMAIN engine \ M
      /\ \A r \in DOMAIN engine' : engine'[r] = engine[r]
  <2>1. CASE engine' = Without(engine, M)
    BY <1>1, <2>1, EngineWithout
  <2>2. CASE M = {} /\ UNCHANGED engine
    BY <2>2
  <2> QED
    BY <2>1, <2>2
<1>5. QED
  BY <1>1, <1>2, <1>3, <1>4, QuietlyKeeps DEF TokensInv

(* The loop between admissions, steps and deliveries.                      *)
LEMMA TurnTokens ==
  ASSUME RequestsInv, LoopInv, TokensInv, NEW t \in Loops,
         \/ LoopEnds(t) \/ LoopIdles(t)
         \/ LoopExpires(t) \/ DrainExpires(t) \/ DrainEnds(t) \/ LoopTurns(t)
  PROVE  TokensInv'
<1>1. RequestTypeOK /\ TablesInv
  BY Types
<1>2. UNCHANGED <<outs, fatal, stream, got>>
  BY DEF LoopEnds, LoopIdles, LoopExpires, DrainExpires, DrainEnds, LoopTurns, lifeVars, clientVars
<1>3. CASE LoopEnds(t) \/ LoopIdles(t)
  <2>1. UNCHANGED <<active, queue, engine>>
    BY <1>3 DEF LoopEnds, LoopIdles, queueVars, requestVars
  <2>2. UNCHANGED <<active, queue, got, stream, engine, outs, fatal>>
    BY <1>2, <2>1
  <2> QED
    BY <1>1, <2>2, StillTokens
<1>4. CASE LoopExpires(t)
  <2>1. PICK L \in SUBSET Waiting, M \in SUBSET Running :
          /\ ActiveLoses(M) /\ EndAll(L \cup M, Timeout, "timed_out")
          /\ engine' = Without(engine, M)
    BY <1>4 DEF LoopExpires, Waiting, Running, ActiveLoses
  <2> QED
    BY <1>2, <2>1, ExpiryTokens
<1>5. CASE DrainExpires(t)
  <2>1. PICK L \in SUBSET Waiting : EndAll(L, Timeout, "timed_out")
    BY <1>5 DEF DrainExpires, ExpirePending, Waiting
  <2>2. ActiveLoses({}) /\ UNCHANGED engine /\ L \cup {} = L /\ {} \in SUBSET Running
    BY <1>5 DEF DrainExpires, ActiveLoses
  <2> QED
    BY <1>2, <2>1, <2>2, ExpiryTokens
<1>6. CASE DrainEnds(t) \/ LoopTurns(t)
  <2>1. PICK M \in SUBSET Running :
          /\ ActiveLoses(M) /\ EndAll(M, Timeout, "timed_out")
          /\ engine' = Without(engine, M)
    BY <1>6 DEF DrainEnds, LoopTurns, ExpireActive, Running, ActiveLoses
  <2>2. {} \in SUBSET Waiting /\ EndAll({} \cup M, Timeout, "timed_out")
    <3>1. {} \cup M = M
      OBVIOUS
    <3> QED
      BY <2>1, <3>1
  <2> QED
    BY <1>2, <2>1, <2>2, ExpiryTokens, Zenon
<1>7. QED
  BY <1>3, <1>4, <1>5, <1>6

(* The loop when the engine fails.                                         *)
LEMMA FailureTokens ==
  ASSUME RequestsInv, LoopInv, TokensInv, NEW t \in Loops, LoopFails(t)
  PROVE  TokensInv'
<1>1. RequestTypeOK /\ TablesInv
  BY Types
<1>2. /\ fatal' = TRUE /\ active' = << >> /\ UNCHANGED <<outs, stream, got>>
      /\ EndAll(Range(active) \cup ToSet(pending), Error, "failed")
  BY DEF LoopFails, clientVars
<1>3. Running' = {}
  BY <1>2, NoTable DEF Running
<1>4. \A r \in Reqs : QuietQueue(r)
  BY <1>1, <1>2, EndAllIsQuiet
<1>5. QED
  BY <1>1, <1>2, <1>3, <1>4, QuietlyKeeps

(* Clients.                                                                *)
LEMMA AddTokens ==
  ASSUME RequestsInv, LoopInv, TokensInv, NEW r \in Reqs, AddRequest(r)
  PROVE  TokensInv'
<1>1. /\ RequestTypeOK /\ TablesInv /\ stream \in [Reqs -> Streams] /\ Alive = Waiting \cup Running
      /\ \A q \in Reqs : OutcomeInv(q)
      /\ Running \subseteq Reqs /\ Waiting \cap Running = {}
  BY Types, TablesGive
<1>2. PICK L : AddExpires(L) /\ (AddAccepts(r, L) \/ AddRejects(L))
  BY AddRequestIs
<1>3. /\ stream[r] = "new" /\ L \in SUBSET Waiting
      /\ EndAll(L, Timeout, "timed_out") /\ UNCHANGED <<active, engine, fatal, outs, got>>
  BY <1>2, AddRequestIs DEF AddExpires
<1>4. r \notin L /\ queue[r] = << >>
  BY <1>1, <1>3 DEF OutcomeInv, Alive
<1>5. queue'[r] = << >>
  BY <1>3, <1>4 DEF EndAll
<1>6. \A q \in Reqs \ {r} : stream'[q] = stream[q]
  BY <1>1, <1>2 DEF AddAccepts, AddRejects
<1>7. \A q \in Reqs : QuietQueue(q) /\ (q \notin L => queue'[q] = queue[q])
  BY <1>1, <1>3, <1>5, <1>6, EndAllIsQuiet
<1>8. Running' = Running
  BY <1>3 DEF Running
<1>9. QED
  BY <1>1, <1>3, <1>7, <1>8, QuietlyKeeps DEF TokensInv

(* cancel, and a consumer who goes away.                                   *)
LEMMA AbortTokens ==
  ASSUME RequestsInv, LoopInv, TokensInv,
         NEW i \in DOMAIN pendingById \cup DOMAIN active, AbortId(i),
         UNCHANGED <<outs, fatal, got>>, \A q \in Reqs : stream'[q] = "open" => stream[q] = "open"
  PROVE  TokensInv'
<1>1. /\ RequestTypeOK /\ RecordTypeOK /\ TablesInv /\ LoopTypeOK /\ Running \subseteq Reqs
      /\ Waiting \subseteq Reqs /\ Waiting \cap Running = {}
  BY Types, TablesGive
<1>0. PICK s : s = IF i \in DOMAIN pendingById THEN pendingById[i] ELSE active[i]
  OBVIOUS
<1>2. /\ i \in DOMAIN pendingById => s \in Waiting
      /\ i \notin DOMAIN pendingById => s \in Running
      /\ Id[s] = i
  BY <1>0, <1>1 DEF TablesInv, Range, Running
<1>3. /\ queue' = [queue EXCEPT ![s] = Stopped(@)]
      /\ i \in DOMAIN pendingById => UNCHANGED <<active, engine>>
      /\ i \notin DOMAIN pendingById =>
           engine' = Without(engine, {s}) /\ active' = Without(active, {i})
  BY <1>0 DEF AbortId
<1>4. \A q \in Reqs : QuietQueue(q) /\ (q # s => queue'[q] = queue[q])
  <2> SUFFICES ASSUME NEW q \in Reqs PROVE QuietQueue(q) /\ (q # s => queue'[q] = queue[q])
    OBVIOUS
  <2>1. queue[q] \in Seq(Events) /\ queue'[q] = IF q = s THEN Stopped(queue[q]) ELSE queue[q]
    BY <1>1, <1>3, RequestTypes DEF RecordTypeOK
  <2>2. /\ Closes(queue[q], Stopped(queue[q]), STOP)
        /\ STOP \in Events /\ STOP[1] \notin {"token", "final"}
    BY <2>1, StoppedCloses, Kinds
  <2> QED
    BY <2>1, <2>2 DEF QuietQueue
<1>5. CASE i \in DOMAIN pendingById
  <2>1. Running' = Running /\ s \notin Running
    BY <1>1, <1>2, <1>3, <1>5 DEF Running
  <2> QED
    BY <1>1, <1>3, <1>4, <1>5, <2>1, QuietlyKeeps DEF TokensInv
<1>6. CASE i \notin DOMAIN pendingById
  <2>1. ActiveLoses({s}) /\ {s} \in SUBSET Running
    <3>1. IdsOf({s}) = {i}
      BY <1>2 DEF IdsOf
    <3> QED
      BY <1>2, <1>3, <1>6, <3>1 DEF ActiveLoses
  <2>2. Running' = Running \ {s}
    BY <1>1, <2>1, ActiveShrinks
  <2>3. /\ DOMAIN engine' = DOMAIN engine \ {s}
        /\ \A q \in DOMAIN engine' : engine'[q] = engine[q]
    <3>1. engine' = Without(engine, {s})
      BY <1>3, <1>6
    <3> QED
      BY <1>1, <3>1, EngineWithout
  <2> QED
    BY <1>1, <1>4, <2>2, <2>3, QuietlyKeeps DEF TokensInv
<1>7. QED
  BY <1>5, <1>6

(* POST /cancel.                                                           *)
LEMMA CancelTokens ==
  ASSUME RequestsInv, LoopInv, TokensInv, NEW i \in Ids, Cancel(i)
  PROVE  TokensInv'
<1>1. /\ i \in DOMAIN pendingById \cup DOMAIN active /\ AbortId(i)
      /\ UNCHANGED <<outs, fatal, got, stream>>
  BY DEF Cancel, lifeVars, loopVars, clientVars
<1>2. QED
  BY <1>1, AbortTokens

(* A consumer goes away.                                                   *)
LEMMA LeaveTokens ==
  ASSUME RequestsInv, LoopInv, TokensInv, NEW r \in Reqs, Leave(r)
  PROVE  TokensInv'
<1>1. /\ RequestTypeOK /\ TablesInv /\ OutcomeInv(r) /\ stream \in [Reqs -> Streams]
      /\ Alive = Waiting \cup Running
  BY Types
<1>2. /\ stream[r] = "open" /\ stream' = [stream EXCEPT ![r] = "left"]
      /\ UNCHANGED <<outs, fatal, got>>
  BY DEF Leave, lifeVars, loopVars
<1>3. \A q \in Reqs : stream'[q] = "open" => stream[q] = "open"
  BY <1>1, <1>2
<1>4. CASE finished[r]
  <2>1. UNCHANGED <<active, queue, engine>>
    BY <1>4 DEF Leave, queueVars, requestVars
  <2>2. Running' = Running /\ \A q \in Reqs : QuietQueue(q)
    BY <1>2, <1>3, <2>1 DEF Running, QuietQueue
  <2> QED
    BY <1>1, <1>2, <2>1, <2>2, QuietlyKeeps DEF TokensInv
<1>5. CASE ~finished[r]
  <2>1. AbortId(Id[r]) /\ r \in Alive
    BY <1>1, <1>2, <1>5 DEF Leave, OutcomeInv
  <2>2. Id[r] \in DOMAIN pendingById \cup DOMAIN active
    BY <1>1, <2>1, TablesGive
  <2> QED
    BY <1>2, <1>3, <2>1, <2>2, AbortTokens
<1>6. QED
  BY <1>4, <1>5

(* Operators.                                                              *)
LEMMA ReturnTokens ==
  ASSUME RequestsInv, LoopInv, TokensInv, NEW o \in Operators, StopReturns(o)
  PROVE  TokensInv'
<1>1. RequestTypeOK /\ TablesInv /\ LoopTypeOK
  BY Types
<1>2. DOMAIN active = {} /\ engine' = << >> /\ UNCHANGED <<active, queue, got, stream, outs>>
  BY <1>1, ReturnFacts DEF StopReturns, queueVars, requestVars, clientVars
<1>3. Running' = {} /\ Running = {} /\ DOMAIN engine' = {}
  BY <1>2, NoTable DEF Running, Range
<1>4. \A r \in Reqs : QuietQueue(r)
  BY <1>2 DEF QuietQueue
<1>5. QED
  BY <1>1, <1>2, <1>3, <1>4, QuietlyKeeps

(* Clients and operators that touch neither requests nor the engine.       *)
LEMMA RestTokens ==
  ASSUME RequestsInv, LoopInv, TokensInv,
         \/ PurgePrefixCache \/ SetDraining \/ UNCHANGED vars
         \/ \E o \in Operators : Restart(o) \/ Shutdown(o)
  PROVE  TokensInv'
<1>1. RequestTypeOK /\ TablesInv
  BY Types
<1>2. UNCHANGED <<active, queue, got, stream, engine, outs, fatal>>
  BY DEF PurgePrefixCache, SetDraining, Restart, Shutdown, Stop, vars, queueVars, requestVars,
         lifeVars, loopVars, clientVars
<1>3. QED
  BY <1>1, <1>2, StillTokens

(* What a request has been delivered is a number.                          *)
LEMMA DeliveredIsNat ==
  ASSUME RequestTypeOK, NEW r \in Reqs
  PROVE  Delivered(r) \in Nat
BY RequestTypes DEF Delivered

(* When nothing is out, every running request is settled.                  *)
LEMMA AllSettled ==
  ASSUME TokensInv, \A s \in Loops : outs[s] = << >>, NEW r \in Running
  PROVE  Settled(r)
<1>1. \A s \in Loops : \A k : ~OnTheWay(s, k, r)
  BY NoTable DEF OnTheWay
<1>2. ProgressInv(r)
  BY DEF TokensInv
<1>3. QED
  BY <1>1, <1>2 DEF ProgressInv

(* A request comes into the engine with nothing delivered.                 *)
LEMMA AdmitTokens ==
  ASSUME RequestsInv, LoopInv, TokensInv, NEW t \in Loops, DrainAdmits(t)
  PROVE  TokensInv'
<1>0. PICK r : r = pending[Min(Admissible)]
  OBVIOUS
<1>1. /\ Admissible # {} /\ loop[t] = "admit"
      /\ pending' = PendingWithout({r})
      /\ pendingById' = Without(pendingById, {Id[r]})
      /\ \/ /\ engine' = [q \in DOMAIN engine \cup {r} |-> IF q = r THEN -1 ELSE engine[q]]
            /\ active' = [i \in DOMAIN active \cup {Id[r]} |->
                            IF i = Id[r] THEN r ELSE active[i]]
            /\ UNCHANGED requestVars
         \/ EndAll({r}, Error, "failed") /\ UNCHANGED <<engine, active>>
      /\ UNCHANGED <<outs, fatal, stream, got>>
  BY <1>0 DEF DrainAdmits, lifeVars, clientVars
<1>2. r \in Waiting /\ r \in Reqs /\ CanAdmitActive(r)
  BY <1>0, <1>1, NextAdmitted
<1>3. /\ RequestTypeOK /\ TablesInv /\ LoopTypeOK /\ OutcomeInv(r)
      /\ Waiting \cap Running = {} /\ Running \subseteq Reqs
  BY <1>2, Types, TablesGive
<1>4. CASE EndAll({r}, Error, "failed") /\ UNCHANGED <<engine, active>>
  <2>1. Running' = Running
    BY <1>4 DEF Running
  <2>2. \A q \in Reqs : QuietQueue(q) /\ (q # r => queue'[q] = queue[q])
    BY <1>1, <1>3, <1>4, EndAllIsQuiet
  <2>3. r \notin Running'
    BY <1>2, <1>3, <2>1
  <2> QED
    BY <1>1, <1>3, <1>4, <2>1, <2>2, <2>3, QuietlyKeeps DEF TokensInv
<1>5. CASE /\ engine' = [q \in DOMAIN engine \cup {r} |-> IF q = r THEN -1 ELSE engine[q]]
           /\ active' = [i \in DOMAIN active \cup {Id[r]} |->
                           IF i = Id[r] THEN r ELSE active[i]]
           /\ UNCHANGED requestVars
  <2>1. Running' = Running \cup {r}
    BY <1>1, <1>2, <1>5, AdmissionFacts
  <2>2. /\ DOMAIN engine' = DOMAIN engine \cup {r} /\ engine'[r] = -1
        /\ \A q \in DOMAIN engine \ {r} : engine'[q] = engine[q]
    BY <1>5
  <2>3. UNCHANGED <<queue, got, stream, outs, fatal>>
    BY <1>1, <1>5 DEF requestVars
  <2>4. ProgressInv(r)'
    <3>1. Delivered(r) = 0
      <4>1. queue[r] = << >> /\ got[r] = 0
        BY <1>2, <1>3 DEF OutcomeInv
      <4> QED
        BY <4>1 DEF Delivered
    <3>2. Settled(r)'
      BY <2>2, <2>3, <3>1 DEF Settled, Delivered
    <3>3. \A s \in Loops : outs'[s] = << >>
      BY <1>1, <2>3, NothingOut
    <3>4. \A s \in Loops : \A k : ~OnTheWay(s, k, r)'
      BY <3>3, NoTable DEF OnTheWay
    <3> QED
      BY <3>2, <3>4 DEF ProgressInv
  <2>5. \A q \in Running : ProgressInv(q)'
    <3> SUFFICES ASSUME NEW q \in Running PROVE ProgressInv(q)'
      OBVIOUS
    <3>1. q \in Reqs /\ q # r /\ ProgressInv(q)
      BY <1>2, <1>3 DEF TokensInv
    <3>2. SameProgress(q)
      BY <2>2, <2>3, <3>1 DEF SameProgress, Delivered
    <3> QED
      BY <2>3, <3>1, <3>2, ProgressStays
  <2>6. TokensInOrder'
    BY <2>3 DEF TokensInv, TokensInOrder
  <2> QED
    BY <2>1, <2>2, <2>3, <2>4, <2>5, <2>6 DEF TokensInv
<1>6. QED
  BY <1>1, <1>4, <1>5

(* One step of the engine: each output goes one beyond what is delivered.  *)
LEMMA StepTokens ==
  ASSUME RequestsInv, LoopInv, TokensInv, NEW t \in Loops, Step(t)
  PROVE  TokensInv'
<1>1. /\ RequestTypeOK /\ TablesInv /\ LoopTypeOK /\ OutsOK /\ Running \subseteq Reqs
      /\ \A r \in Running : active[Id[r]] = r
  BY Types, TablesGive
<1>2. PICK B, E, F, order : Produced(t, B, E, F, order)
  BY StepProduces
<1>3. loop[t] = "step" /\ UNCHANGED <<active, queue, got, stream, fatal>>
  BY StepProduces DEF queueVars, requestVars, lifeVars, clientVars
<1>4. ~fatal /\ DOMAIN engine \subseteq Running
  BY <1>3 DEF LoopInv, OneLoop, TokensInv
<1>5. \A s \in Loops : outs[s] = << >>
  BY <1>3, NothingOut
<1>6. /\ \A k \in DOMAIN order : order[k] \in E /\ order[k] \in Reqs
      /\ \A r \in E : \E k \in DOMAIN order : order[k] = r
      /\ \A k, l \in DOMAIN order : order[k] = order[l] => k = l
      /\ DOMAIN outs'[t] = DOMAIN order
      /\ \A k \in DOMAIN order :
           /\ outs'[t][k][1] = Id[order[k]]
           /\ outs'[t][k][2] = IF order[k] \in F THEN Final(NextToken(order[k]))
                               ELSE Token(NextToken(order[k]))
      /\ \A r \in DOMAIN engine : NextToken(r) \in Nat
      /\ DOMAIN engine' = DOMAIN engine \ F
  <2>0. LoopTypeOK /\ OutsOK
    BY <1>1
  <2>1. /\ \A r \in DOMAIN engine : NextToken(r) \in Nat /\ r \in Reqs
        /\ DOMAIN order = 1..Cardinality(E) /\ Cardinality(E) \in Nat
        /\ \A k \in DOMAIN order : order[k] \in E /\ order[k] \in Reqs
        /\ \A r \in E : \E k \in DOMAIN order : order[k] = r
        /\ \A k, l \in DOMAIN order : order[k] = order[l] => k = l
        /\ outs'[t] \in Seq(Ids \X Outputs) /\ DOMAIN outs'[t] = DOMAIN order
        /\ \A k \in DOMAIN order :
             /\ outs'[t][k][1] = Id[order[k]]
             /\ outs'[t][k][2] = IF order[k] \in F THEN Final(NextToken(order[k]))
                                 ELSE Token(NextToken(order[k]))
        /\ OutsOK'
        /\ DOMAIN engine' = DOMAIN engine \ F /\ DOMAIN engine' \subseteq Reqs
        /\ IsFiniteSet(DOMAIN engine')
        /\ engine' \in [DOMAIN engine' -> Nat \cup {-1}]
    BY <1>2, <2>0, ProducedFacts, Zenon
  <2> QED
    BY <2>1, Zenon
<1>7. /\ B \subseteq DOMAIN engine /\ E \subseteq B /\ F \subseteq E
      /\ \A r \in B \ E : engine[r] = -1
      /\ \A r \in E \ F : NextToken(r) < MaxTokens[r]
      /\ engine' = [r \in DOMAIN engine \ F |->
           IF r \in E THEN NextToken(r) ELSE IF r \in B THEN 0 ELSE engine[r]]
  BY <1>2 DEF Produced, Computed
<1>8. \A s \in Loops \ {t} : outs'[s] = << >>
  BY <1>1, <1>2, <1>5 DEF Produced, PutOut, OutsOK
<1>9. Running' = Running
  BY <1>3 DEF Running
<1>10. ASSUME NEW r \in Running, NEW s \in Loops, NEW l, OnTheWay(s, l, r)'
       PROVE  s = t /\ l \in DOMAIN order /\ order[l] = r
  <2>1. s = t /\ l \in DOMAIN order
    BY <1>6, <1>8, <1>10, NoTable DEF OnTheWay
  <2>2. Id[order[l]] = Id[r] /\ order[l] \in Running
    BY <1>4, <1>6, <1>7, <1>10, <2>1 DEF OnTheWay
  <2> QED
    BY <1>1, <2>1, <2>2
<1>11. ASSUME NEW r \in Running PROVE ProgressInv(r)'
  <2>1. /\ r \in Reqs /\ Settled(r) /\ Delivered(r) \in Nat /\ MaxTokens[r] \in Nat
        /\ Delivered(r)' = Delivered(r)
    BY <1>1, <1>3, <1>5, AllSettled, DeliveredIsNat, Constants DEF Delivered
  <2>2. r \in DOMAIN engine
        /\ (engine[r] = Delivered(r) \/ (engine[r] = -1 /\ Delivered(r) = 0))
    BY <2>1 DEF Settled
  <2>3. CASE r \in E
    <3>1. PICK k \in DOMAIN order : order[k] = r
      BY <1>6, <2>3
    <3>2. MaxTokens[r] > 0 => NextToken(r) = Delivered(r) + 1
      BY <2>1, <2>2 DEF NextToken
    <3>3. outs'[t][k][2] = IF r \in F THEN Final(NextToken(r)) ELSE Token(NextToken(r))
      BY <1>6, <3>1
    <3>4. PICK e : e = IF r \in F THEN Final(NextToken(r)) ELSE Token(NextToken(r))
      OBVIOUS
    <3>5. NextToken(r) \in Nat
      BY <1>6, <2>2
    <3>6. /\ e[2] = NextToken(r)
          /\ e[1] = IF r \in F THEN "final" ELSE "token"
      BY <3>4, <3>5, Kinds
    <3>7. r \notin F => /\ r \in DOMAIN engine' /\ engine'[r] = NextToken(r)
                        /\ MaxTokens[r] > 0
      BY <1>7, <2>1, <2>2, <2>3, <3>5
    <3>8. r \in F => r \notin DOMAIN engine'
      BY <1>6
    <3>9. InHand(r, e)'
      BY <2>1, <3>2, <3>6, <3>7, <3>8 DEF InHand
    <3>10. k \in DOMAIN outs'[t] /\ OnTheWay(t, k, r)'
      BY <1>6, <3>1 DEF OnTheWay
    <3>11. \A s \in Loops : \A l : OnTheWay(s, l, r)' => s = t /\ l = k
      BY <1>6, <1>10, <3>1
    <3>12. outs'[t][k][2] = e
      BY <3>3, <3>4
    <3>13. \A s \in Loops : \A l \in DOMAIN outs'[s] : OnTheWay(s, l, r)' =>
             /\ InHand(r, outs[s][l][2])'
             /\ \A u \in Loops : \A m \in DOMAIN outs'[u] : OnTheWay(u, m, r)' => u = s /\ m = l
      <4> SUFFICES ASSUME NEW s \in Loops, NEW l \in DOMAIN outs'[s], OnTheWay(s, l, r)'
                   PROVE  /\ InHand(r, outs[s][l][2])'
                          /\ \A u \in Loops : \A m \in DOMAIN outs'[u] :
                               OnTheWay(u, m, r)' => u = s /\ m = l
        OBVIOUS
      <4>1. s = t /\ l = k
        BY <3>11
      <4> QED
        BY <3>9, <3>11, <3>12, <4>1 DEF InHand
    <3> QED
      BY <3>10, <3>13 DEF ProgressInv
  <2>4. CASE r \notin E
    <3>1. \A s \in Loops : \A l : ~OnTheWay(s, l, r)'
      BY <1>6, <1>10, <2>4
    <3>2. r \in DOMAIN engine' /\ engine'[r] = IF r \in B THEN 0 ELSE engine[r]
      BY <1>7, <2>2, <2>4
    <3>3. r \in B => Delivered(r) = 0
      BY <1>7, <2>1, <2>2, <2>4
    <3>4. Settled(r)'
      BY <2>1, <2>2, <3>2, <3>3 DEF Settled
    <3> QED
      BY <3>1, <3>4 DEF ProgressInv
  <2> QED
    BY <2>3, <2>4
<1>12. TokensInOrder'
  BY <1>3 DEF TokensInv, TokensInOrder
<1>13. QED
  BY <1>4, <1>6, <1>9, <1>11, <1>12 DEF TokensInv

(* Another output than one of r is taken away.                             *)
LEMMA ProgressShifts ==
  ASSUME OutsOK, NEW t \in Loops, NEW i, NEW e, NEW x, Delivers(t, i, e, x),
         NEW r \in Reqs, Id[r] # i, ProgressInv(r), SameProgress(r)
  PROVE  ProgressInv(r)'
<1>1. /\ outs'[t] = Tail(outs[t]) /\ \A s \in Loops \ {t} : outs'[s] = outs[s]
      /\ \A k \in DOMAIN outs'[t] : k + 1 \in DOMAIN outs[t] /\ outs'[t][k] = outs[t][k + 1]
      /\ \A k \in DOMAIN outs[t] :
           k = 1 \/ (k - 1 \in DOMAIN outs'[t] /\ outs'[t][k - 1] = outs[t][k])
      /\ outs[t][1][1] = i
  BY FirstOut DEF Delivers
<1>2. \A s \in Loops : DOMAIN outs[s] \subseteq Nat /\ DOMAIN outs'[s] \subseteq Nat
  <2>1. OutsOK'
    BY FirstOut
  <2>2. \A q \in Seq(Ids \X Outputs) : DOMAIN q \subseteq Nat
    BY LenProperties
  <2> QED
    BY <2>1, <2>2 DEF OutsOK
<1>3. Settled(r) => Settled(r)'
  BY DEF Settled, SameProgress
<1>4. \A f : InHand(r, f) => InHand(r, f)'
  BY DEF InHand, SameProgress
<1> DEFINE old(s, k) == IF s = t THEN k + 1 ELSE k
<1>5. ASSUME NEW s \in Loops, NEW k, OnTheWay(s, k, r)'
      PROVE  OnTheWay(s, old(s, k), r) /\ outs[s][old(s, k)] = outs'[s][k] /\ k \in Nat
  BY <1>1, <1>2, <1>5 DEF OnTheWay
<1>6. ASSUME NEW s \in Loops, NEW k, OnTheWay(s, k, r)
      PROVE  \E l : OnTheWay(s, l, r)'
  <2>1. CASE s # t
    BY <1>1, <1>6, <2>1 DEF OnTheWay
  <2>2. CASE s = t
    <3>1. k # 1
      BY <1>1, <1>6, <2>2 DEF OnTheWay
    <3>2. OnTheWay(s, k - 1, r)'
      BY <1>1, <1>6, <2>2, <3>1 DEF OnTheWay
    <3> QED
      BY <3>2
  <2> QED
    BY <2>1, <2>2
<1>7. Settled(r)' \/ \E s \in Loops : \E k \in DOMAIN outs'[s] : OnTheWay(s, k, r)'
  BY <1>3, <1>6 DEF ProgressInv, OnTheWay
<1>8. ASSUME NEW s \in Loops, NEW k \in DOMAIN outs'[s], OnTheWay(s, k, r)'
      PROVE  /\ InHand(r, outs[s][k][2])'
             /\ \A u \in Loops : \A l \in DOMAIN outs'[u] : OnTheWay(u, l, r)' => u = s /\ l = k
  <2>1. /\ OnTheWay(s, old(s, k), r) /\ outs[s][old(s, k)] = outs'[s][k] /\ k \in Nat
        /\ old(s, k) \in DOMAIN outs[s]
    BY <1>5, <1>8 DEF OnTheWay
  <2>2. InHand(r, outs[s][old(s, k)][2])
    BY <2>1 DEF ProgressInv
  <2>3. PICK f : f = outs'[s][k][2]
    OBVIOUS
  <2>4. InHand(r, f)'
    BY <1>4, <2>1, <2>2, <2>3
  <2>5. ASSUME NEW u \in Loops, NEW l \in DOMAIN outs'[u], OnTheWay(u, l, r)'
        PROVE  u = s /\ l = k
    <3>1. OnTheWay(u, old(u, l), r) /\ l \in Nat /\ old(u, l) \in DOMAIN outs[u]
      BY <1>5, <2>5 DEF OnTheWay
    <3>2. u = s /\ old(u, l) = old(s, k)
      BY <2>1, <3>1 DEF ProgressInv
    <3> QED
      BY <2>1, <3>1, <3>2
  <2> QED
    BY <2>3, <2>4, <2>5 DEF InHand
<1>9. QED
  BY <1>7, <1>8 DEF ProgressInv

(* A delivery to s.                                                        *)
LEMMA DeliveryFacts ==
  ASSUME RequestsInv, LoopInv, TokensInv, NEW t \in Loops, Deliver(t), NEW i, NEW e, NEW s,
         Delivers(t, i, e, s), i \in DOMAIN active, s = active[i]
  PROVE  /\ s \in Running /\ s \in Reqs /\ Id[s] = i
         /\ \A r \in Running : r # s => Id[r] # i
         /\ e \in Outputs /\ InHand(s, e)
         /\ \A u \in Loops : \A k : OnTheWay(u, k, s) => u = t /\ k = 1
<1>1. RequestTypeOK /\ TablesInv /\ OutsOK
  BY Types
<1>2. s \in Running /\ s \in Reqs /\ Id[s] = i /\ \A r \in Running : r # s => Id[r] # i
  BY <1>1, TablesGive DEF Running, Range, TablesInv
<1>3. e \in Outputs /\ 1 \in DOMAIN outs[t]
  BY <1>1, FirstOut
<1>4. outs[t][1][1] = i /\ outs[t][1][2] = e
  BY DEF Delivers
<1>5. OnTheWay(t, 1, s)
  BY <1>2, <1>3, <1>4 DEF OnTheWay
<1>6. ProgressInv(s)
  BY <1>2 DEF TokensInv
<1>7. InHand(s, e)
  BY <1>3, <1>4, <1>5, <1>6 DEF ProgressInv
<1>8. \A u \in Loops : \A k : OnTheWay(u, k, s) => u = t /\ k = 1
  BY <1>3, <1>5, <1>6 DEF ProgressInv, OnTheWay
<1>9. QED
  BY <1>2, <1>3, <1>7, <1>8

(* A token arrives: the request is settled again.                          *)
LEMMA TokenTokens ==
  ASSUME RequestsInv, LoopInv, TokensInv, NEW t \in Loops, Deliver(t), NEW i, NEW e, NEW s,
         Delivers(t, i, e, s), DeliversToken(t, i, e, s)
  PROVE  TokensInv'
<1>1. /\ RequestTypeOK /\ RecordTypeOK /\ TablesInv /\ OutsOK /\ Running \subseteq Reqs
  BY Types, TablesGive
<1>2. /\ s \in Running /\ s \in Reqs /\ Id[s] = i
      /\ \A r \in Running : r # s => Id[r] # i
      /\ e \in Outputs /\ InHand(s, e)
      /\ \A u \in Loops : \A k : OnTheWay(u, k, s) => u = t /\ k = 1
  BY DeliveryFacts DEF DeliversToken
<1>3. /\ e[1] = "token" /\ queue' = [queue EXCEPT ![s] = Append(@, e)]
      /\ UNCHANGED <<active, engine, stream, got, fatal>>
  BY DEF Delivers, DeliversToken, lifeVars, clientVars
<1>4. e \in Events /\ queue[s] \in Seq(Events)
  BY <1>1, <1>2, Kinds, RequestTypes
<1>5. /\ queue'[s] = Append(queue[s], e)
      /\ \A r \in Reqs \ {s} : queue'[r] = queue[r]
  BY <1>1, <1>2, <1>3 DEF RecordTypeOK
<1>6. /\ Len(queue'[s]) = Len(queue[s]) + 1 /\ DOMAIN queue'[s] = 1..Len(queue[s]) + 1
      /\ \A k \in 1..Len(queue[s]) : queue'[s][k] = queue[s][k]
      /\ queue'[s][Len(queue[s]) + 1] = e /\ DOMAIN queue[s] = 1..Len(queue[s])
      /\ Len(queue[s]) \in Nat /\ got[s] \in Nat
  BY <1>1, <1>2, <1>4, <1>5, AppendFacts, RequestTypes
<1>7. /\ s \in DOMAIN engine /\ engine[s] = e[2] /\ MaxTokens[s] > 0
      /\ e[2] = got[s] + Len(queue[s]) + 1
  BY <1>2, <1>3, <1>6 DEF InHand, Delivered
<1>8. ProgressInv(s)'
  <2>1. Delivered(s)' = engine[s]
    <3>1. Delivered(s)' = got[s] + (Len(queue[s]) + 1)
      BY <1>3, <1>6 DEF Delivered
    <3> QED
      BY <1>6, <1>7, <3>1
  <2>2. Settled(s)'
    BY <1>3, <1>7, <2>1 DEF Settled
  <2>3. \A u \in Loops : \A k : ~OnTheWay(u, k, s)'
    <3> SUFFICES ASSUME NEW u \in Loops, NEW k, OnTheWay(u, k, s)' PROVE FALSE
      OBVIOUS
    <3>1. /\ outs'[t] = Tail(outs[t]) /\ \A x \in Loops \ {t} : outs'[x] = outs[x]
          /\ \A l \in DOMAIN outs'[t] : l + 1 \in DOMAIN outs[t] /\ outs'[t][l] = outs[t][l + 1]
      BY <1>1, FirstOut
    <3>2. CASE u # t
      BY <1>2, <3>1, <3>2 DEF OnTheWay
    <3>3. CASE u = t
      <4>1. OnTheWay(t, k + 1, s) /\ k \in DOMAIN outs'[t]
        BY <3>1, <3>3 DEF OnTheWay
      <4>2. k \in Nat /\ k >= 1
        <5>1. OutsOK'
          BY <1>1, FirstOut
        <5>2. \A q \in Seq(Ids \X Outputs) : DOMAIN q = 1..Len(q) /\ Len(q) \in Nat
          BY LenProperties
        <5> QED
          BY <4>1, <5>1, <5>2 DEF OutsOK
      <4> QED
        BY <1>2, <4>1, <4>2
    <3> QED
      BY <3>2, <3>3
  <2> QED
    BY <2>2, <2>3 DEF ProgressInv
<1>9. \A r \in Running : r # s => ProgressInv(r)'
  <2> SUFFICES ASSUME NEW r \in Running, r # s PROVE ProgressInv(r)'
    OBVIOUS
  <2>1. r \in Reqs /\ Id[r] # i /\ ProgressInv(r)
    BY <1>1, <1>2 DEF TokensInv
  <2>2. SameProgress(r)
    BY <1>3, <1>5, <2>1 DEF SameProgress, Delivered
  <2> QED
    BY <1>1, <2>1, <2>2, ProgressShifts
<1>10. \A r \in Reqs : InOrder(r)'
  <2> SUFFICES ASSUME NEW r \in Reqs PROVE InOrder(r)'
    OBVIOUS
  <2>1. InOrder(r)
    BY OrderIs DEF TokensInv
  <2>2. CASE r # s
    BY <1>3, <1>5, <2>1, <2>2 DEF InOrder
  <2>3. CASE r = s
    BY <1>3, <1>6, <1>7, <2>1, <2>3 DEF InOrder
  <2> QED
    BY <2>2, <2>3
<1>11. TokensInOrder'
  BY <1>10, OrderNext
<1>12. Running' = Running
  BY <1>3 DEF Running
<1>13. QED
  BY <1>3, <1>8, <1>9, <1>11, <1>12 DEF TokensInv

(* The last output arrives, or the queue is full: the request is gone.     *)
LEMMA LastTokens ==
  ASSUME RequestsInv, LoopInv, TokensInv, NEW t \in Loops, Deliver(t), NEW i, NEW e, NEW s,
         Delivers(t, i, e, s), DeliversLast(t, i, e, s)
  PROVE  TokensInv'
<1>1. /\ RequestTypeOK /\ RecordTypeOK /\ TablesInv /\ LoopTypeOK /\ OutsOK
      /\ Running \subseteq Reqs
  BY Types, TablesGive
<1>2. /\ s \in Running /\ s \in Reqs /\ Id[s] = i
      /\ \A r \in Running : r # s => Id[r] # i
      /\ e \in Outputs /\ InHand(s, e)
  BY DeliveryFacts DEF DeliversLast
<1>3. /\ ~(e[1] = "token" /\ ~Full(s))
      /\ queue' = [queue EXCEPT ![s] = IF Full(s) THEN <<STOP>> ELSE Closed(@, e)]
      /\ engine' = Without(engine, {s}) /\ UNCHANGED <<stream, got, fatal>>
  BY DEF Delivers, DeliversLast, lifeVars, clientVars
<1>4. e \in Events /\ queue[s] \in Seq(Events) /\ e[1] \in {"token", "final"}
  BY <1>1, <1>2, Kinds, RequestTypes
<1>5. /\ queue'[s] = IF Full(s) THEN <<STOP>> ELSE Closed(queue[s], e)
      /\ \A r \in Reqs \ {s} : queue'[r] = queue[r]
  BY <1>1, <1>2, <1>3 DEF RecordTypeOK
<1>6. Running' = Running \ {s}
  BY <1>1, LastEnds, ActiveShrinks DEF Losing
<1>7. /\ DOMAIN engine' = DOMAIN engine \ {s}
      /\ \A r \in DOMAIN engine' : engine'[r] = engine[r]
  <2>1. engine' = Without(engine, {s})
    BY <1>3
  <2> QED
    BY <1>1, <2>1, EngineWithout
<1>8. \A r \in Running' : ProgressInv(r)'
  <2> SUFFICES ASSUME NEW r \in Running' PROVE ProgressInv(r)'
    OBVIOUS
  <2>1. r \in Reqs /\ r # s /\ Id[r] # i /\ ProgressInv(r)
    BY <1>1, <1>2, <1>6 DEF TokensInv
  <2>2. SameProgress(r)
    BY <1>3, <1>5, <1>7, <2>1 DEF SameProgress, Delivered
  <2> QED
    BY <1>1, <2>1, <2>2, ProgressShifts
<1>9. InOrder(s)'
  <2>1. InOrder(s)
    BY <1>2, OrderIs DEF TokensInv
  <2>2. CASE Full(s)
    <3>1. Closes(queue[s], <<STOP>>, STOP) /\ STOP \in Events /\ STOP[1] \notin {"token", "final"}
      BY StopAlone, Kinds DEF Closes
    <3>2. QuietQueue(s)
      BY <1>3, <1>5, <2>2, <3>1 DEF QuietQueue
    <3> QED
      BY <1>2, <2>1, <3>2, QuietOrder
  <2>3. CASE ~Full(s)
    <3>1. e[1] = "final" /\ queue'[s] = Closed(queue[s], e)
      BY <1>3, <1>4, <1>5, <2>3
    <3>2. Closes(queue[s], queue'[s], e)
      BY <1>4, <3>1, ClosedCloses
    <3>3. MaxTokens[s] > 0 => e[2] = got[s] + (Len(queue[s]) + 1)
      <4>1. got[s] \in Nat /\ Len(queue[s]) \in Nat
        BY <1>1, <1>2, RequestTypes
      <4> QED
        BY <1>2, <4>1 DEF InHand, Delivered
    <3> SUFFICES ASSUME stream'[s] = "open", NEW k \in DOMAIN queue'[s]
                 PROVE  /\ queue'[s][k][1] = "token" => queue'[s][k][2] = got'[s] + k
                        /\ queue'[s][k][1] = "final" /\ MaxTokens[s] > 0 =>
                             queue'[s][k][2] = got'[s] + k
      BY DEF InOrder
    <3>4. CASE queue'[s][k] = STOP
      BY <3>4, Kinds
    <3>5. CASE k \in DOMAIN queue[s] /\ queue'[s][k] = queue[s][k]
      BY <1>3, <2>1, <3>5 DEF InOrder
    <3>6. CASE k = Len(queue[s]) + 1 /\ queue'[s][k] = e
      BY <1>3, <3>1, <3>3, <3>6
    <3> QED
      BY <3>2, <3>4, <3>5, <3>6 DEF Closes
  <2> QED
    BY <2>2, <2>3
<1>10. \A r \in Reqs : InOrder(r)'
  <2> SUFFICES ASSUME NEW r \in Reqs, r # s PROVE InOrder(r)'
    BY <1>9
  <2>1. InOrder(r)
    BY OrderIs DEF TokensInv
  <2> QED
    BY <1>3, <1>5, <2>1 DEF InOrder
<1>11. TokensInOrder'
  BY <1>10, OrderNext
<1>12. QED
  BY <1>3, <1>6, <1>7, <1>8, <1>11 DEF TokensInv

(* A delivery, in each case.                                               *)
LEMMA DeliverTokens ==
  ASSUME RequestsInv, LoopInv, TokensInv, NEW t \in Loops, Deliver(t)
  PROVE  TokensInv'
<1>1. PICK i, e, s :
        /\ Delivers(t, i, e, s)
        /\ DeliversNothing(t, i) \/ DeliversToken(t, i, e, s) \/ DeliversLast(t, i, e, s)
  BY DeliverIs
<1>2. CASE DeliversNothing(t, i)
  <2>1. /\ OutsOK /\ RequestTypeOK /\ TablesInv /\ Running \subseteq Reqs
        /\ \A r \in Running : Id[r] # i
    BY <1>2, Types, TablesGive DEF DeliversNothing
  <2>2. UNCHANGED <<active, engine, queue, got, stream, fatal>>
    BY <1>1, <1>2 DEF Delivers, DeliversNothing, requestVars, lifeVars, clientVars
  <2>3. \A r \in Running : ProgressInv(r)'
    <3> SUFFICES ASSUME NEW r \in Running PROVE ProgressInv(r)'
      OBVIOUS
    <3>1. r \in Reqs /\ Id[r] # i /\ ProgressInv(r) /\ SameProgress(r)
      BY <2>1, <2>2 DEF TokensInv, SameProgress, Delivered
    <3> QED
      BY <1>1, <2>1, <3>1, ProgressShifts
  <2>4. TokensInOrder' /\ Running' = Running
    BY <2>2 DEF TokensInv, TokensInOrder, Running
  <2> QED
    BY <2>2, <2>3, <2>4 DEF TokensInv
<1>3. QED
  BY <1>1, <1>2, TokenTokens, LastTokens

(* A consumer takes an event.                                              *)
LEMMA ReceiveTokens ==
  ASSUME RequestsInv, LoopInv, TokensInv, NEW r \in Reqs, Receive(r)
  PROVE  TokensInv'
<1>1. /\ RequestTypeOK /\ RecordTypeOK /\ TablesInv /\ OutcomeInv(r) /\ Running \subseteq Reqs
      /\ Alive = Waiting \cup Running
  BY Types, TablesGive
<1>2. PICK e : e = Head(queue[r])
  OBVIOUS
<1>3. /\ stream[r] = "open" /\ queue[r] # << >>
      /\ queue' = [queue EXCEPT ![r] = Tail(@)]
      /\ stream' = [stream EXCEPT ![r] = IF e[1] = "token" THEN "open" ELSE e[1]]
      /\ got' = [got EXCEPT ![r] = IF e[1] \in {"token", "final"} THEN e[2] ELSE @]
      /\ UNCHANGED <<active, engine, outs, fatal>>
  BY <1>2 DEF Receive, queueVars, lifeVars, loopVars
<1>4. /\ e \in Events /\ e = queue[r][1] /\ 1 \in DOMAIN queue[r]
      /\ Len(Tail(queue[r])) = Len(queue[r]) - 1 /\ Len(queue[r]) \in Nat
      /\ \A k \in DOMAIN Tail(queue[r]) :
           k + 1 \in DOMAIN queue[r] /\ Tail(queue[r])[k] = queue[r][k + 1]
      /\ got[r] \in Nat
  BY <1>1, <1>2, <1>3, RequestTypes, TailFacts
<1>5. /\ queue'[r] = Tail(queue[r])
      /\ stream'[r] = IF e[1] = "token" THEN "open" ELSE e[1]
      /\ got'[r] = IF e[1] \in {"token", "final"} THEN e[2] ELSE got[r]
      /\ \A q \in Reqs \ {r} : queue'[q] = queue[q] /\ stream'[q] = stream[q] /\ got'[q] = got[q]
  BY <1>1, <1>3 DEF RecordTypeOK
<1>6. e[1] = "token" => e[2] = got[r] + 1
  BY <1>3, <1>4 DEF TokensInv, TokensInOrder
<1>7. \A q \in Running : ProgressInv(q)'
  <2> SUFFICES ASSUME NEW q \in Running PROVE ProgressInv(q)'
    OBVIOUS
  <2>1. q \in Reqs /\ ProgressInv(q)
    BY <1>1 DEF TokensInv
  <2>2. Delivered(q)' = Delivered(q)
    <3>1. CASE q # r
      BY <1>5, <2>1, <3>1 DEF Delivered
    <3>2. CASE q = r
      <4>1. e[1] = "token"
        BY <1>1, <1>4, <3>2, AliveIsOpen
      <4>2. got'[r] = got[r] + 1 /\ Len(queue'[r]) = Len(queue[r]) - 1
        BY <1>4, <1>5, <1>6, <4>1
      <4> QED
        <5>1. \A a, b \in Nat : (a + 1) + (b - 1) = a + b
          OBVIOUS
        <5>2. /\ Delivered(r)' = (got[r] + 1) + (Len(queue[r]) - 1)
              /\ Delivered(r) = got[r] + Len(queue[r])
          BY <4>2 DEF Delivered
        <5> QED
          BY <1>4, <3>2, <5>1, <5>2
    <3> QED
      BY <3>1, <3>2
  <2>3. SameProgress(q)
    BY <1>3, <2>2 DEF SameProgress
  <2> QED
    BY <1>3, <2>1, <2>3, ProgressStays
<1>8. \A q \in Reqs : InOrder(q)'
  <2> SUFFICES ASSUME NEW q \in Reqs PROVE InOrder(q)'
    OBVIOUS
  <2>1. InOrder(q)
    BY OrderIs DEF TokensInv
  <2>2. CASE q # r
    BY <1>5, <2>1, <2>2 DEF InOrder
  <2>3. CASE q = r
    <3> SUFFICES ASSUME stream'[r] = "open", NEW k \in DOMAIN queue'[r]
                 PROVE  /\ queue'[r][k][1] = "token" => queue'[r][k][2] = got'[r] + k
                        /\ queue'[r][k][1] = "final" /\ MaxTokens[r] > 0 =>
                             queue'[r][k][2] = got'[r] + k
      BY <2>3 DEF InOrder
    <3>1. e[1] = "token"
      BY <1>4, <1>5, Kinds
    <3>2. got'[r] = got[r] + 1
      BY <1>5, <1>6, <3>1
    <3>3. k + 1 \in DOMAIN queue[r] /\ queue'[r][k] = queue[r][k + 1]
      BY <1>4, <1>5
    <3>4. k \in Nat
      <4>1. DOMAIN Tail(queue[r]) \subseteq Nat
        <5>1. Tail(queue[r]) \in Seq(Events)
          BY <1>1, <1>3, RequestTypes, TailFacts
        <5> QED
          BY <5>1, LenProperties
      <4> QED
        BY <1>5, <4>1
    <3>5. got[r] + (k + 1) = got'[r] + k
      BY <1>4, <3>2, <3>4
    <3> QED
      BY <1>3, <2>1, <2>3, <3>3, <3>5 DEF InOrder
  <2> QED
    BY <2>2, <2>3
<1>9. TokensInOrder'
  BY <1>8, OrderNext
<1>10. Running' = Running
  BY <1>3 DEF Running
<1>11. QED
  BY <1>3, <1>7, <1>9, <1>10 DEF TokensInv

(* Every step keeps the order of tokens.                                   *)
LEMMA NextTokens ==
  ASSUME RequestsInv, LoopInv, TokensInv, [Next]_vars
  PROVE  TokensInv'
<1>1. ASSUME NEW t \in Loops, RunLoop(t) PROVE TokensInv'
  BY <1>1, TurnTokens, AdmitTokens, StepTokens, DeliverTokens, FailureTokens DEF RunLoop
<1>2. ASSUME NEW r \in Reqs, AddRequest(r) \/ Receive(r) \/ Leave(r) PROVE TokensInv'
  BY <1>2, AddTokens, ReceiveTokens, LeaveTokens
<1>3. QED
  BY <1>1, <1>2, CancelTokens, ReturnTokens, RestTokens DEF Next

(* At first there is no token.                                             *)
LEMMA InitTokens == Init => TokensInv
<1> SUFFICES ASSUME Init PROVE TokensInv
  OBVIOUS
<1>1. /\ active = << >> /\ engine = << >> /\ stream = [r \in Reqs |-> "new"]
  BY DEF Init
<1>2. Running = {} /\ DOMAIN engine = {}
  BY <1>1, NoTable DEF Running
<1>3. TokensInOrder
  BY <1>1 DEF TokensInOrder
<1>4. QED
  BY <1>2, <1>3 DEF TokensInv

(* One loop works at a time, the engine works for the active requests, and *)
(* tokens keep their order, as long as restarts do not race.               *)
THEOREM Invariance ==
  ASSUME ~Racing
  PROVE  Spec => []IInv
<1>1. Init => IInv
  BY InitRequests, InitLoop, InitTokens DEF IInv
<1>2. IInv /\ [Next]_vars => IInv'
  BY NextRequests, NextLoop, NextTokens DEF IInv
<1>3. QED
  BY <1>1, <1>2, PTL DEF Spec

-----------------------------------------------------------------------------
(* A table holds as many requests as it has ids.                           *)
LEMMA OneIdEach ==
  ASSUME RequestTypeOK, TablesInv
  PROVE  Cardinality(DOMAIN pendingById) = Len(pending)
<1>1. /\ IsFiniteSet(Waiting) /\ Cardinality(Waiting) = Len(pending)
      /\ \A r \in Waiting : Id[r] \in DOMAIN pendingById /\ pendingById[Id[r]] = r
      /\ \A i \in DOMAIN pendingById : pendingById[i] \in Waiting /\ Id[pendingById[i]] = i
  BY TablesGive DEF TablesInv, Range
<1> DEFINE f == [r \in Waiting |-> Id[r]]
<1>2. f \in Bijection(Waiting, DOMAIN pendingById)
  BY <1>1 DEF Bijection, Injection, Surjection, IsInjective
<1>3. ExistsBijection(Waiting, DOMAIN pendingById)
  BY <1>2 DEF ExistsBijection
<1>4. QED
  BY <1>1, <1>3, FS_Bijection

(* A request that was accepted is in exactly one place, and the engine     *)
(* works for the active requests and no other, or has put out their last   *)
(* output.                                                                 *)
THEOREM OnePlaceEach ==
  ASSUME ~Racing
  PROVE  Spec => []OnePlacePerRequest
<1>1. IInv => OnePlacePerRequest
  <2> SUFFICES ASSUME IInv PROVE OnePlacePerRequest
    OBVIOUS
  <2>1. /\ RequestsInv /\ LoopInv /\ TokensInv /\ RequestTypeOK /\ TablesInv /\ OutsOK
        /\ Alive \subseteq Reqs /\ Alive = Waiting \cup Running
        /\ \A r \in Reqs : OutcomeInv(r)
    BY Types DEF IInv
  <2>2. Len(pending) = Cardinality(DOMAIN pendingById)
    BY <2>1, OneIdEach
  <2>3. \A r \in Alive : ~cancelled[r]
    BY <2>1, AliveIsOpen
  <2>4. ASSUME NEW r \in Running \ DOMAIN engine
        PROVE  \E t \in Loops : \E k \in DOMAIN outs[t] :
                 outs[t][k][1] = Id[r] /\ outs[t][k][2][1] = "final"
    <3>1. ProgressInv(r) /\ ~Settled(r)
      BY <2>1, <2>4 DEF TokensInv, Settled
    <3>0. PICK t \in Loops : \E k \in DOMAIN outs[t] : OnTheWay(t, k, r)
      BY <3>1 DEF ProgressInv
    <3>2. PICK k \in DOMAIN outs[t] : OnTheWay(t, k, r)
      BY <3>0
    <3>3. InHand(r, outs[t][k][2])
      BY <3>1, <3>2 DEF ProgressInv
    <3>4. outs[t][k][2][1] \in {"token", "final"}
      <4>1. outs[t][k] \in Ids \X Outputs
        BY <2>1, <3>2, ElementOfSeq, LenProperties DEF OutsOK
      <4> QED
        BY <4>1, Kinds
    <3> QED
      BY <2>4, <3>2, <3>3, <3>4 DEF InHand, OnTheWay
  <2> QED
    BY <2>1, <2>2, <2>3, <2>4 DEF OnePlacePerRequest, TablesInv, TokensInv, Waiting, Running, Alive
<1>2. QED
  BY <1>1, Invariance, PTL

(* A consumer receives the tokens of its request in order and without gaps *)
(* until the stream ends.                                                  *)
THEOREM TokensKeepTheirOrder ==
  ASSUME ~Racing
  PROVE  Spec => []TokensInOrder
<1>1. IInv => TokensInOrder
  BY DEF IInv, TokensInv
<1>2. QED
  BY <1>1, Invariance, PTL

(* Restart and shutdown take the engine down only when nothing is active.  *)
THEOREM RestartsLoseNothing ==
  ASSUME ~Racing
  PROVE  Spec => RestartLosesNothing
<1>1. IInv /\ [Next]_vars =>
        [(\E o \in Operators : oper[o][1] # "none" /\ oper'[o][1] = "none")
           => DOMAIN active = {}]_vars
  BY DEF IInv, LoopInv, OperatorInv
<1>2. QED
  BY <1>1, Invariance, PTL DEF Spec, RestartLosesNothing

==============================================================================
