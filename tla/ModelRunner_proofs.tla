------------------------- MODULE ModelRunner_proofs -------------------------
(***************************************************************************)
(* Theorems about ModelRunner, for every number of ranks, every model its  *)
(* constructors accept and every bound on the calls.                       *)
(*                                                                         *)
(* The processes (WorkerGroup): a worker runs what rank 0 runs, call by    *)
(* call, and nobody looks at memory that is not there.  The invariants are *)
(* not inductive.  What is says, for each place of rank 0, where a worker  *)
(* can be: while the slot may be written all workers have cleared their    *)
(* event and joined every gather (Settled); from the moment its event is   *)
(* set until rank 0 has gathered, a worker is somewhere between its        *)
(* wake-up and the gather of this very call (Serving).                     *)
(*                                                                         *)
(* The weights (TensorParallel): the ranks compute together what one would *)
(* (ShardsMakeTheModel).  The invariant says of every tensor that has been *)
(* loaded that the share of each rank is in its place (Placed); a load     *)
(* keeps it because the ways to cut a tensor agree (ShareOf) and parts of  *)
(* a packed parameter do not overlap (Places).  That the layers then       *)
(* multiply the right rows is arithmetic: a group of query heads is never  *)
(* cut (GroupsStayTogether).                                               *)
(***************************************************************************)
EXTENDS ModelRunner, Integers, TLAPS, FiniteSetTheorems

-----------------------------------------------------------------------------
(* The processes                                                           *)

(* Not yet told that the memory exists. *)
Unstarted(w) ==
  /\ pcw[w] \in {"starting", "ready"}
  /\ ~event[w]
  /\ joined[w] = 0

(* Done with every call so far. *)
Settled(w) ==
  /\ pcw[w] \in {"attaching", "waiting"}
  /\ ~event[w]
  /\ joined[w] = calls

(* Its event is set and the call not yet read. *)
Notified(w) ==
  /\ pcw[w] \in {"attaching", "waiting", "reading"}
  /\ event[w]
  /\ joined[w] + 1 = calls

(* It has read the call that rank 0 has written. *)
Holding(w) ==
  /\ pcw[w] \in {"clearing", "calling"}
  /\ pcw[w] = "calling" => ~event[w]
  /\ msg[w] = <<calls, method>>
  /\ joined[w] + 1 = calls

(* It has joined the gather, or closed the memory, of this call. *)
Served(w) ==
  /\ ~event[w]
  /\ \/ method = "run" /\ pcw[w] = "waiting" /\ joined[w] = calls
     \/ method = "exit" /\ pcw[w] = "closed"

(* Somewhere between its wake-up and the end of this call. *)
Serving(w) == Notified(w) \/ Holding(w) \/ Served(w)

(* One call behind, and its event not yet set. *)
Asleep(w) ==
  /\ pcw[w] \in {"attaching", "waiting"}
  /\ ~event[w]
  /\ joined[w] + 1 = calls

(* Where w can be for each place of rank 0. *)
Phase(w) ==
  /\ pc0 \in {"starting", "created"} => Unstarted(w)
  /\ pc0 \in {"idle", "writing"} => Settled(w)
  /\ pc0 = "waking" => IF w \in asleep THEN Asleep(w) ELSE Serving(w)
  /\ pc0 \in {"gathering", "closing"} => Serving(w)
  /\ pc0 \in {"unlinking", "joining", "stopped"} => pcw[w] \in {"leaving", "gone"}

(* What the memory holds for each place of rank 0. *)
Slot ==
  /\ pc0 \in {"starting", "created"} => calls = 0
  /\ pc0 \in {"writing", "waking"} => method \in Methods
  /\ pc0 = "gathering" => method = "run"
  /\ pc0 = "closing" => method = "exit"
  /\ pc0 \in {"waking", "gathering", "closing"} => shm = <<calls, method>> /\ calls # 0
  /\ pc0 \in {"created", "idle", "writing"} => shm # Absent

(* The inductive invariant. *)
IInv == TypeOK /\ Slot /\ \A w \in Workers : Phase(w)

-----------------------------------------------------------------------------
(* The invariant gives what the runs check.                                *)
LEMMA InvariantImplies == IInv => FollowsRankZero /\ MemoryOutlivesItsUse
<1> SUFFICES ASSUME IInv PROVE FollowsRankZero /\ MemoryOutlivesItsUse
  OBVIOUS
<1>1. FollowsRankZero
  <2> SUFFICES ASSUME NEW w \in Workers, pcw[w] \in {"clearing", "calling"}
               PROVE  msg[w] = <<joined[w] + 1, method>> /\ msg[w][1] = calls
    BY DEF FollowsRankZero
  <2>1. Phase(w) /\ TypeOK
    BY DEF IInv
  <2>2. pc0 \in {"waking", "gathering", "closing"} /\ Holding(w)
    BY <2>1 DEF Phase, Unstarted, Settled, Serving, Notified, Served, Asleep, TypeOK
  <2>3. QED BY <2>2 DEF Holding
<1>2. ASSUME NEW w \in Workers, pcw[w] \in {"attaching", "waiting", "reading"}
      PROVE  shm # Absent
  <2>1. Phase(w) /\ TypeOK /\ Slot
    BY DEF IInv
  <2>2. pc0 \in {"idle", "writing", "waking", "gathering", "closing"}
    BY <2>1, <1>2 DEF Phase, Unstarted, TypeOK
  <2>3. CASE pc0 \in {"idle", "writing"}
    BY <2>1, <2>3 DEF Slot
  <2>4. CASE pc0 \in {"waking", "gathering", "closing"}
    BY <2>1, <2>4 DEF Slot, Absent
  <2>5. QED BY <2>2, <2>3, <2>4
<1>3. ASSUME NEW w \in Workers, pc0 \in {"unlinking", "joining", "stopped"}
      PROVE  pcw[w] \in {"leaving", "gone"}
  BY <1>3 DEF IInv, Phase
<1>4. QED BY <1>1, <1>2, <1>3 DEF MemoryOutlivesItsUse

(* All processes start with no call made. *)
LEMMA InitEstablishes == Init => IInv
BY DEF Init, IInv, TypeOK, Slot, Phase, Unstarted, Methods, Slots, Absent, Torn

-----------------------------------------------------------------------------
(* Steps of rank 0                                                         *)

(* Up to the barrier there is no call. *)
LEMMA StartSteps ==
  ASSUME IInv, CreateMemory \/ StartBarrier
  PROVE  IInv'
<1>1. CASE CreateMemory
  BY <1>1 DEF CreateMemory, rank0Vars, workerVars, IInv, TypeOK, Slot, Phase,
     Unstarted, Slots, Absent
<1>2. CASE StartBarrier
  BY <1>2 DEF StartBarrier, Barrier, All, IInv, TypeOK, Slot, Phase, Unstarted, Settled
<1>3. QED BY <1>1, <1>2

(* Rank 0 writes while every worker is settled. *)
LEMMA WriteSteps ==
  ASSUME IInv, (\E m \in Methods : Call(m)) \/ WriteData \/ WriteTooLong
  PROVE  IInv'
<1>1. ASSUME NEW m \in Methods, Call(m) PROVE IInv'
  BY <1>1 DEF Call, workerVars, IInv, TypeOK, Slot, Phase, Settled, Slots, Methods,
     Absent, Torn
<1>2. CASE WriteData
  <2>1. TypeOK' /\ Slot'
    BY <1>2 DEF WriteData, workerVars, IInv, TypeOK, Slot, Slots, Methods
  <2>2. ASSUME NEW w \in Workers PROVE Phase(w)'
    BY <1>2, <2>2 DEF WriteData, workerVars, IInv, TypeOK, Phase, Settled, Asleep
  <2>3. QED BY <2>1, <2>2 DEF IInv
<1>3. CASE WriteTooLong
  BY <1>3 DEF WriteTooLong, workerVars, IInv, TypeOK, Slot, Phase, Settled
<1>4. QED BY <1>1, <1>2, <1>3

(* The worker that is woken has been asleep until then. *)
LEMMA WakeStep ==
  ASSUME IInv, NEW v \in Workers, Wake(v)
  PROVE  IInv'
<1>1. TypeOK' /\ Slot'
  BY DEF Wake, workerVars, IInv, TypeOK, Slot, Methods
<1>2. ASSUME NEW w \in Workers PROVE Phase(w)'
  <2>1. Phase(w) /\ TypeOK /\ pc0 = "waking" /\ v \in asleep /\ UNCHANGED <<calls, method, pcw, msg, joined>>
    BY DEF Wake, workerVars, IInv
  <2>2. CASE w = v
    <3>1. Asleep(w)
      BY <2>1, <2>2 DEF Phase
    <3>2. Notified(w)'
      BY <2>1, <2>2, <3>1 DEF Asleep, Notified, Wake, TypeOK
    <3>3. QED BY <2>1, <2>2, <3>2 DEF Phase, Serving, Wake
  <2>3. CASE w # v /\ w \in asleep
    <3>1. Asleep(w)' /\ pc0' = "waking" /\ w \in asleep'
      BY <2>1, <2>3 DEF Phase, Asleep, Wake, TypeOK
    <3>2. QED BY <3>1 DEF Phase
  <2>4. CASE w # v /\ w \notin asleep
    <3>1. Serving(w) /\ event'[w] = event[w]
      BY <2>1, <2>4 DEF Phase, Wake, TypeOK
    <3>2. Serving(w)'
      BY <3>1, <2>1 DEF Serving, Notified, Holding, Served
    <3>3. w \notin asleep' /\ pc0' \in {"waking", "gathering", "closing"}
      BY <2>4 DEF Wake
    <3>4. QED BY <3>2, <3>3 DEF Phase
  <2>5. QED BY <2>2, <2>3, <2>4
<1>3. QED BY <1>1, <1>2 DEF IInv

(* The gather needs every worker, so all are settled after it. *)
LEMMA GatherStep ==
  ASSUME IInv, FinishRun
  PROVE  IInv'
<1>1. TypeOK' /\ Slot'
  BY DEF FinishRun, workerVars, IInv, TypeOK, Slot, Methods, Absent
<1>2. ASSUME NEW w \in Workers PROVE Phase(w)'
  <2>1. Serving(w) /\ joined[w] >= calls /\ joined[w] \in Nat /\ calls \in Nat /\ method = "run"
    BY DEF FinishRun, Gathered, IInv, Phase, TypeOK, Slot
  <2>2. Served(w)
    BY <2>1 DEF Serving, Notified, Holding
  <2>3. QED BY <2>1, <2>2 DEF FinishRun, workerVars, Served, Phase, Settled
<1>3. QED BY <1>1, <1>2 DEF IInv

(* After the barrier of the exit no worker uses the memory. *)
LEMMA ExitSteps ==
  ASSUME IInv, ExitBarrier \/ Unlink \/ JoinProcesses
  PROVE  IInv'
<1>1. CASE ExitBarrier
  BY <1>1 DEF ExitBarrier, Barrier, All, IInv, TypeOK, Slot, Phase
<1>2. CASE Unlink
  BY <1>2 DEF Unlink, workerVars, IInv, TypeOK, Slot, Slots, Phase
<1>3. CASE JoinProcesses
  BY <1>3 DEF JoinProcesses, workerVars, IInv, TypeOK, Slot, Phase
<1>4. QED BY <1>1, <1>2, <1>3

-----------------------------------------------------------------------------
(* Steps of a worker.  Rank 0 and the other workers stay where they are.   *)

(* The step of one worker leaves the phase of another. *)
LEMMA OthersStay ==
  ASSUME IInv, NEW v \in Workers, NEW w \in Workers, w # v, UNCHANGED rank0Vars,
         pcw'[w] = pcw[w], event'[w] = event[w], msg'[w] = msg[w], joined'[w] = joined[w]
  PROVE  Phase(w)'
BY DEF IInv, rank0Vars, Phase, Unstarted, Settled, Asleep, Serving, Notified, Holding, Served

(* A worker stays in its phase whatever it does next. *)
LEMMA WorkerStep ==
  ASSUME IInv, NEW v \in Workers, Worker(v)
  PROVE  IInv'
<1>1. TypeOK'
  <2>1. TypeOK
    BY DEF IInv
  <2>2. CASE ReadyToAttach(v) \/ Attach(v) \/ Awake(v) \/ Leave(v)
    BY <2>1, <2>2 DEF ReadyToAttach, Attach, Awake, Leave, TypeOK, rank0Vars
  <2>3. CASE Read(v)
    BY <2>1, <2>3 DEF Read, TypeOK, rank0Vars
  <2>4. CASE Clear(v)
    BY <2>1, <2>4 DEF Clear, TypeOK, rank0Vars
  <2>5. CASE Execute(v)
    BY <2>1, <2>5 DEF Execute, TypeOK, rank0Vars
  <2>6. QED BY <2>2, <2>3, <2>4, <2>5 DEF Worker
<1>2. Slot'
  BY DEF Worker, ReadyToAttach, Attach, Awake, Read, Clear, Execute, Leave, IInv,
     Slot, rank0Vars
<1>3. UNCHANGED rank0Vars
  BY DEF Worker, ReadyToAttach, Attach, Awake, Read, Clear, Execute, Leave
<1>4. ASSUME NEW w \in Workers PROVE Phase(w)'
  <2>1. CASE w # v
    <3>1. pcw'[w] = pcw[w] /\ event'[w] = event[w] /\ msg'[w] = msg[w] /\ joined'[w] = joined[w]
      BY <2>1 DEF Worker, ReadyToAttach, Attach, Awake, Read, Clear, Execute, Leave,
         IInv, TypeOK
    <3>2. QED BY <1>3, <2>1, <3>1, OthersStay
  <2>2. CASE w = v
    <3>1. Phase(v) /\ TypeOK /\ Slot
      BY DEF IInv
    <3>2. CASE ReadyToAttach(v)
      BY <2>2, <3>1, <3>2 DEF ReadyToAttach, rank0Vars, Phase, Unstarted, Settled,
         Asleep, Serving, Notified, Holding, Served, TypeOK
    <3>3. CASE Attach(v)
      BY <2>2, <3>1, <3>3 DEF Attach, rank0Vars, Phase, Unstarted, Settled,
         Asleep, Serving, Notified, Holding, Served, TypeOK
    <3>4. CASE Awake(v)
      BY <2>2, <3>1, <3>4 DEF Awake, rank0Vars, Phase, Unstarted, Settled,
         Asleep, Serving, Notified, Holding, Served, TypeOK
    <3>5. CASE Read(v)
      BY <2>2, <3>1, <3>5 DEF Read, rank0Vars, Phase, Unstarted, Settled,
         Asleep, Serving, Notified, Holding, Served, TypeOK, Slot
    <3>6. CASE Clear(v)
      BY <2>2, <3>1, <3>6 DEF Clear, rank0Vars, Phase, Unstarted, Settled,
         Asleep, Serving, Notified, Holding, Served, TypeOK
    <3>7. CASE Execute(v)
      BY <2>2, <3>1, <3>7 DEF Execute, rank0Vars, Phase, Unstarted, Settled,
         Asleep, Serving, Notified, Holding, Served, TypeOK
    <3>8. CASE Leave(v)
      BY <2>2, <3>1, <3>8 DEF Leave, rank0Vars, Phase, Unstarted, Settled,
         Asleep, Serving, Notified, Holding, Served, TypeOK
    <3>9. QED BY <3>2, <3>3, <3>4, <3>5, <3>6, <3>7, <3>8 DEF Worker
  <2>3. QED BY <2>1, <2>2
<1>5. QED BY <1>1, <1>2, <1>4 DEF IInv

-----------------------------------------------------------------------------
(* Each step has a lemma above. *)
LEMMA NextPreserves == IInv /\ [Next]_vars => IInv'
<1> SUFFICES ASSUME IInv, [Next]_vars PROVE IInv'
  OBVIOUS
<1>1. CASE StartBarrier \/ CreateMemory
  BY <1>1, StartSteps
<1>2. CASE (\E m \in {"run", "exit"} : Call(m)) \/ WriteData \/ WriteTooLong
  BY <1>2, WriteSteps DEF Methods
<1>3. CASE \E w \in Workers : Wake(w)
  BY <1>3, WakeStep
<1>4. CASE FinishRun
  BY <1>4, GatherStep
<1>5. CASE ExitBarrier \/ Unlink \/ JoinProcesses
  BY <1>5, ExitSteps
<1>6. CASE \E w \in Workers : Worker(w)
  BY <1>6, WorkerStep
<1>7. CASE UNCHANGED vars
  BY <1>7 DEF vars, rank0Vars, workerVars, IInv, TypeOK, Slot, Phase, Unstarted, Settled,
     Asleep, Serving, Notified, Holding, Served
<1>8. QED BY <1>1, <1>2, <1>3, <1>4, <1>5, <1>6, <1>7 DEF Next, Rank0, Caller

(* So the invariant holds. *)
LEMMA Invariance == Spec => []IInv
<1>1. QED BY InitEstablishes, NextPreserves, PTL DEF Spec

(* Every worker runs exactly the calls of rank 0, in order and once: the   *)
(* gather at the end of each run is enough to keep one slot and one event  *)
(* per worker safe, however many workers there are and however slow.       *)
THEOREM WorkersFollow == Spec => []FollowsRankZero
<1>1. IInv => FollowsRankZero
  BY InvariantImplies
<1>2. QED BY <1>1, Invariance, PTL

(* Nobody attaches to memory that is not there, and it is not removed      *)
(* under a worker that still reads it.                                     *)
THEOREM MemoryIsThere == Spec => []MemoryOutlivesItsUse
<1>1. IInv => MemoryOutlivesItsUse
  BY InvariantImplies
<1>2. QED BY <1>1, Invariance, PTL

(* The state of the processes keeps its types.                             *)
THEOREM TypeCorrect == Spec => []TypeOK
<1>1. IInv => TypeOK
  BY DEF IInv
<1>2. QED BY <1>1, Invariance, PTL

-----------------------------------------------------------------------------
(* Division                                                                *)

(* A larger factor gives a larger product. *)
LEMMA ProductGrows ==
  ASSUME NEW b \in Nat \ {0}, NEW x \in Int, NEW y \in Int, x < y
  PROVE  b * x + b <= b * y /\ b * x \in Int /\ b * y \in Int
<1>1. b * x + b = b * (x + 1)
  OBVIOUS
<1>2. PICK d \in Nat : y = (x + 1) + d
  <2>1. y - (x + 1) \in Nat /\ y = (x + 1) + (y - (x + 1))
    OBVIOUS
  <2> QED
    BY <2>1
<1>3. b * y = b * (x + 1) + b * d /\ b * d >= 0
  BY <1>2
<1> QED
  BY <1>1, <1>3

(* What division and remainder are. *)
LEMMA Division ==
  ASSUME NEW a \in Int, NEW b \in Nat \ {0}
  PROVE  /\ a \div b \in Int /\ a % b \in 0..b - 1
         /\ a = b * (a \div b) + (a % b)
OBVIOUS

(* Whoever satisfies the equation of a division is its quotient and remainder. *)
LEMMA DivisionIsUnique ==
  ASSUME NEW a \in Int, NEW b \in Nat \ {0}, NEW q \in Int, NEW r \in 0..b - 1, a = b * q + r
  PROVE  a \div b = q /\ a % b = r
<1>1. /\ a \div b \in Int /\ a % b \in 0..b - 1
      /\ a = b * (a \div b) + (a % b)
  BY Division
<1> DEFINE p == a \div b
           s == a % b
<1>2. p \in Int /\ s \in 0..b - 1 /\ a = b * p + s
  BY <1>1
<1> HIDE DEF p, s
<1>3. ~(p < q)
  <2> SUFFICES ASSUME p < q PROVE FALSE
    OBVIOUS
  <2>1. b * p + b <= b * q /\ b * p \in Int /\ b * q \in Int
    BY <1>2, ProductGrows
  <2> QED
    BY <1>2, <2>1
<1>4. ~(q < p)
  <2> SUFFICES ASSUME q < p PROVE FALSE
    OBVIOUS
  <2>1. b * q + b <= b * p /\ b * p \in Int /\ b * q \in Int
    BY <1>2, ProductGrows
  <2> QED
    BY <1>2, <2>1
<1>5. p = q
  BY <1>2, <1>3, <1>4
<1>6. s = r
  <2>1. b * q \in Int
    OBVIOUS
  <2> QED
    BY <1>2, <1>5, <2>1
<1> QED
  BY <1>5, <1>6 DEF p, s

(* A division that leaves nothing. *)
LEMMA Quotients ==
  ASSUME NEW a \in Nat \ {0}, NEW b \in Nat \ {0}, a % b = 0
  PROVE  a \div b \in Nat \ {0} /\ a = b * (a \div b)
<1>1. /\ a \div b \in Int /\ a % b \in 0..b - 1
      /\ a = b * (a \div b) + (a % b)
  BY Division
<1> DEFINE q == a \div b
<1>2. q \in Int /\ a = b * q
  BY <1>1
<1> HIDE DEF q
<1>3. q > 0
  <2> SUFFICES ASSUME q < 0 + 1 PROVE FALSE
    BY <1>2
  <2>1. b * q + b <= b * 1
    <3>1. CASE q < 1
      BY <1>2, <3>1, ProductGrows
    <3> QED
      BY <1>2, <3>1
  <2> QED
    BY <1>2, <2>1
<1> QED
  BY <1>2, <1>3 DEF q

(* What the constructors accept *)
SizesOK == shape \in Shapes /\ Divides(shape)

(* What the sizes of an accepted shape have to do with each other. *)
LEMMA Sizes ==
  ASSUME SizesOK
  PROVE  /\ TpSize \in Nat \ {0}
         /\ {shape.heads, shape.kvHeads, shape.dim, shape.inner, shape.vocab} \subseteq Nat \ {0}
         /\ shape.tied \in BOOLEAN
         /\ LocalHeads \in Nat \ {0} /\ shape.heads = TpSize * LocalHeads
         /\ LocalKvHeads \in Nat \ {0} /\ shape.kvHeads = TpSize * LocalKvHeads
         /\ shape.inner \div TpSize \in Nat \ {0} /\ shape.inner = TpSize * (shape.inner \div TpSize)
         /\ shape.vocab \div TpSize \in Nat \ {0} /\ shape.vocab = TpSize * (shape.vocab \div TpSize)
<1>1. /\ TpSize \in Nat \ {0}
      /\ shape.heads \in Nat \ {0} /\ shape.kvHeads \in Nat \ {0} /\ shape.dim \in Nat \ {0}
      /\ shape.inner \in Nat \ {0} /\ shape.vocab \in Nat \ {0}
      /\ shape.tied \in BOOLEAN
  BY TpSizeAssumption, ShapesAssumption DEF SizesOK
<1>2. /\ shape.heads % TpSize = 0 /\ shape.kvHeads % TpSize = 0
      /\ shape.inner % TpSize = 0 /\ shape.vocab % TpSize = 0
  BY DEF SizesOK, Divides
<1>3. LocalHeads \in Nat \ {0} /\ shape.heads = TpSize * LocalHeads
  BY <1>1, <1>2, Quotients DEF LocalHeads
<1>4. LocalKvHeads \in Nat \ {0} /\ shape.kvHeads = TpSize * LocalKvHeads
  BY <1>1, <1>2, Quotients DEF LocalKvHeads
<1>5. shape.inner \div TpSize \in Nat \ {0} /\ shape.inner = TpSize * (shape.inner \div TpSize)
  BY <1>1, <1>2, Quotients
<1>6. shape.vocab \div TpSize \in Nat \ {0} /\ shape.vocab = TpSize * (shape.vocab \div TpSize)
  BY <1>1, <1>2, Quotients
<1> QED
  BY <1>1, <1>3, <1>4, <1>5, <1>6

(* A multiple divides without a remainder. *)
LEMMA Multiples ==
  ASSUME NEW b \in Nat \ {0}, NEW w \in Nat \ {0}
  PROVE  /\ b * w \in Nat \ {0} /\ (b * w) \div b = w
         /\ CeilDiv(b * w, b) = w
<1>1. b * w \in Int /\ b * w = b * w + 0
  OBVIOUS
<1>2. b * w > 0
  <2>1. b * 0 + b <= b * w
    BY ProductGrows
  <2> QED
    BY <1>1, <2>1
<1>3. (b * w) \div b = w
  BY <1>1, DivisionIsUnique
<1>4. b * w + b - 1 = b * w + (b - 1) /\ b - 1 \in 0..b - 1 /\ b * w + b - 1 \in Int
  BY <1>1
<1>5. (b * w + b - 1) \div b = w
  BY <1>4, DivisionIsUnique
<1> QED
  BY <1>1, <1>2, <1>3, <1>5 DEF CeilDiv

(* The rank r has the r-th of TpSize equal parts of a tensor.  *)
LEMMA EqualShares ==
  ASSUME SizesOK
  PROVE  /\ \A t \in Tensors : Width(t) \in Nat \ {0} /\ Rows(t) = TpSize * Width(t)
         /\ QSize \in Nat \ {0} /\ KvSize \in Nat \ {0}
<1>0. /\ TpSize \in Nat \ {0}
      /\ shape.heads \in Nat \ {0} /\ shape.kvHeads \in Nat \ {0} /\ shape.dim \in Nat \ {0}
      /\ LocalHeads \in Nat \ {0} /\ shape.heads = TpSize * LocalHeads
      /\ LocalKvHeads \in Nat \ {0} /\ shape.kvHeads = TpSize * LocalKvHeads
      /\ shape.inner \div TpSize \in Nat \ {0} /\ shape.inner = TpSize * (shape.inner \div TpSize)
      /\ shape.vocab \div TpSize \in Nat \ {0} /\ shape.vocab = TpSize * (shape.vocab \div TpSize)
  BY Sizes
<1>1. QSize \in Nat \ {0} /\ shape.heads * shape.dim = TpSize * QSize
  <2>1. \A a, b, c \in Nat \ {0} : a * b \in Nat \ {0} /\ (a * b) * c = a * (b * c)
    BY Multiples
  <2> QED
    BY <1>0, <2>1 DEF QSize
<1>2. KvSize \in Nat \ {0} /\ shape.kvHeads * shape.dim = TpSize * KvSize
  <2>1. \A a, b, c \in Nat \ {0} : a * b \in Nat \ {0} /\ (a * b) * c = a * (b * c)
    BY Multiples
  <2> QED
    BY <1>0, <2>1 DEF KvSize
<1>3. ASSUME NEW t \in Tensors PROVE Width(t) \in Nat \ {0} /\ Rows(t) = TpSize * Width(t)
  <2>1. CASE t = "q"
    BY <1>1, <2>1 DEF Rows, Width
  <2>2. CASE t \in {"k", "v"}
    BY <1>2, <2>2 DEF Rows, Width
  <2>3. CASE t = "o"
    <3>1. Rows(t) = TpSize * QSize /\ Width(t) = Rows(t) \div TpSize
      BY <1>1, <2>3 DEF Rows, Width
    <3>2. (TpSize * QSize) \div TpSize = QSize
      BY <1>0, <1>1, Multiples
    <3> QED
      BY <1>1, <3>1, <3>2
  <2>4. CASE t \in {"gate", "up", "down"}
    <3>1. Rows(t) = shape.inner /\ Width(t) = shape.inner \div TpSize
      BY <2>4 DEF Rows, Width
    <3> QED
      BY <1>0, <3>1
  <2>5. CASE t \in {"embed", "head"}
    <3>1. Rows(t) = shape.vocab /\ Width(t) = shape.vocab \div TpSize
      BY <2>5 DEF Rows, Width
    <3> QED
      BY <1>0, <3>1
  <2> QED
    BY <2>1, <2>2, <2>3, <2>4, <2>5 DEF Tensors
<1> QED
  BY <1>1, <1>2, <1>3

(* A part of a packed parameter has its own place in it.  *)
LEMMA Places ==
  ASSUME SizesOK, NEW t \in Tensors
  PROVE  /\ ParamOf(t) \in Params
         /\ LocalRows(ParamOf(t)) \in Nat /\ Offset(t) \in Nat
         /\ Offset(t) + Width(t) <= LocalRows(ParamOf(t))
         /\ ~Packed(t) => LocalRows(t) = Width(t) /\ Offset(t) = 0
         /\ \A u \in Tensors \ {t} : ParamOf(u) = ParamOf(t) =>
              Offset(u) + Width(u) <= Offset(t) \/ Offset(t) + Width(t) <= Offset(u)
<1> DEFINE w == shape.inner \div TpSize
<1>1. /\ QSize \in Nat \ {0} /\ KvSize \in Nat \ {0}
      /\ TpSize \in Nat \ {0} /\ w \in Nat \ {0} /\ shape.inner = TpSize * w
  BY Sizes, EqualShares
<1>2. (2 * shape.inner) \div TpSize = 2 * w
  <2> HIDE DEF w
  <2>1. 2 * shape.inner = TpSize * (2 * w) /\ 2 * w \in Nat \ {0}
    BY <1>1
  <2>2. (TpSize * (2 * w)) \div TpSize = 2 * w
    BY <1>1, <2>1, Multiples
  <2> QED
    BY <2>1, <2>2
<1>3. /\ Width("q") = QSize /\ Width("k") = KvSize /\ Width("v") = KvSize
      /\ Width("gate") = w /\ Width("up") = w
  BY DEF Width, Rows
<1>4. /\ Offset("q") = 0 /\ Offset("k") = QSize /\ Offset("v") = QSize + KvSize
      /\ Offset("gate") = 0 /\ Offset("up") = w
  BY DEF Offset, Rows
<1>5. LocalRows("qkv") = QSize + 2 * KvSize /\ LocalRows("gate_up") = 2 * w
  BY <1>2 DEF LocalRows
<1>6. CASE t \in {"q", "k", "v"}
  <2>1. ParamOf(t) = "qkv" /\ Packed(t)
    BY <1>6 DEF ParamOf, Packed
  <2>2. \A u \in Tensors : ParamOf(u) = "qkv" => u \in {"q", "k", "v"}
    BY DEF ParamOf, Tensors
  <2>3. "qkv" \in Params
    BY DEF Params
  <2> HIDE DEF w
  <2> QED
    BY <1>1, <1>3, <1>4, <1>5, <1>6, <2>1, <2>2, <2>3
<1>7. CASE t \in {"gate", "up"}
  <2>1. ParamOf(t) = "gate_up" /\ Packed(t)
    BY <1>7 DEF ParamOf, Packed
  <2>2. \A u \in Tensors : ParamOf(u) = "gate_up" => u \in {"gate", "up"}
    BY DEF ParamOf, Tensors
  <2>3. "gate_up" \in Params
    BY DEF Params
  <2> HIDE DEF w
  <2> QED
    BY <1>1, <1>3, <1>4, <1>5, <1>7, <2>1, <2>2, <2>3
<1>8. CASE t \notin {"q", "k", "v", "gate", "up"}
  <2>1. ParamOf(t) = t /\ Offset(t) = 0 /\ t \in Params
    BY <1>8 DEF ParamOf, Offset, Tensors, Params
  <2>2. LocalRows(t) = Rows(t) \div TpSize /\ Width(t) = Rows(t) \div TpSize
    <3>1. t # "qkv" /\ t # "gate_up"
      BY DEF Tensors
    <3> QED
      BY <1>8, <3>1 DEF LocalRows, Width
  <2>3. Width(t) \in Nat \ {0}
    BY EqualShares
  <2>4. \A u \in Tensors : ParamOf(u) = t => u = t
    BY <1>8 DEF ParamOf, Tensors
  <2> QED
    BY <2>1, <2>2, <2>3, <2>4
<1> QED
  BY <1>6, <1>7, <1>8

(* Rank r gets the r-th share, whichever way it is cut.  *)
LEMMA ShareOf ==
  ASSUME SizesOK, NEW t \in Tensors, NEW r \in Ranks
  PROVE  /\ r \in Nat /\ r * Width(t) \in Nat
         /\ Share(t, r) = [i \in 0..Width(t) - 1 |-> <<t, r * Width(t) + i>>]
         /\ Copies(t, r)
<1> DEFINE w == Width(t)
<1>1. /\ TpSize \in Nat \ {0} /\ r \in 0..TpSize - 1 /\ w \in Nat \ {0} /\ Rows(t) = TpSize * w
  BY Sizes, EqualShares DEF Ranks
<1>2. /\ ~Packed(t) => LocalRows(t) = w
      /\ Offset(t) + w <= LocalRows(ParamOf(t))
  BY Places
<1> HIDE DEF w
<1>3. /\ r * w \in Nat /\ r * w + w <= TpSize * w /\ TpSize * w \in Nat
  <2>1. w * r + w <= w * TpSize /\ w * r \in Int /\ w * TpSize \in Int
    BY <1>1, ProductGrows
  <2>2. w * r = r * w /\ w * TpSize = TpSize * w /\ r * w >= 0
    BY <1>1
  <2> QED
    BY <1>1, <2>1, <2>2
<1>4. ChunkSize(t) = w
  BY <1>1, Multiples DEF ChunkSize
<1>5. HasShare(t, r)
  BY <1>1, <1>3, <1>4 DEF HasShare
<1>6. Smaller(w, TpSize * w - r * w) = w
  BY <1>1, <1>3 DEF Smaller
<1>7. Share(t, r) = [i \in 0..w - 1 |-> <<t, r * w + i>>]
  <2>1. CASE Packed(t)
    BY <1>1, <1>4, <1>6, <2>1 DEF Share
  <2>2. CASE ~Packed(t)
    BY <1>2, <2>2 DEF Share
  <2> QED
    BY <2>1, <2>2
<1>8. Cardinality(DOMAIN Share(t, r)) = w
  <2>1. DOMAIN Share(t, r) = 0..w - 1
    BY <1>7
  <2>2. Cardinality(0..w - 1) = w
    BY <1>1, FS_Interval
  <2> QED
    BY <2>1, <2>2
<1>9. Copies(t, r)
  BY <1>2, <1>5, <1>8 DEF Copies, w
<1> QED
  BY <1>1, <1>3, <1>7, <1>9 DEF w

(* What has been loaded so far is in its place on every rank.  *)
Placed(r, t) ==
  \A i \in 0..Width(t) - 1 : param[r][ParamOf(t)][Offset(t) + i] = <<t, r * Width(t) + i>>
(* The invariant of the weights. *)
WeightsInv ==
  /\ SizesOK
  /\ pending \subseteq Tensors
  /\ ~failed
  /\ \A r \in Ranks :
       /\ DOMAIN param[r] = Params
       /\ \A p \in Params : DOMAIN param[r][p] = 0..LocalRows(p) - 1
       /\ \A t \in Tensors \ pending : Placed(r, t)

(* Nothing is loaded at first.  *)
LEMMA WeightsAtFirst == WeightsInit => WeightsInv
<1> SUFFICES ASSUME WeightsInit PROVE WeightsInv
  OBVIOUS
<1>1. SizesOK /\ pending \subseteq Tensors /\ ~failed
  BY DEF WeightsInit, SizesOK
<1>2. ASSUME NEW r \in Ranks
      PROVE  DOMAIN param[r] = Params /\ \A p \in Params : DOMAIN param[r][p] = 0..LocalRows(p) - 1
  BY DEF WeightsInit, Empty
<1>3. Tensors \ pending = {}
  BY DEF WeightsInit
<1> QED
  BY <1>1, <1>2, <1>3 DEF WeightsInv

(* A share is put where nothing else is.  *)
LEMMA LoadKeeps ==
  ASSUME WeightsInv, NEW t \in pending, LoadWeight(t)
  PROVE  WeightsInv'
<1>1. SizesOK /\ t \in Tensors /\ pending \subseteq Tensors
  BY DEF WeightsInv
<1>2. shape' = shape
  BY DEF LoadWeight
<1>3. /\ SizesOK' /\ Tensors' = Tensors /\ Params' = Params
      /\ \A u : Width(u)' = Width(u) /\ Offset(u)' = Offset(u) /\ LocalRows(u)' = LocalRows(u)
  BY <1>1, <1>2 DEF SizesOK, Divides, Tensors, Params, Width, Offset, LocalRows, Rows,
     QSize, KvSize, LocalHeads, LocalKvHeads
<1>4. \A r \in Ranks : Copies(t, r)
  BY <1>1, ShareOf
<1>5. /\ param' = [r \in Ranks |-> [param[r] EXCEPT ![ParamOf(t)] = Loaded(t, r)]]
      /\ pending' = pending \ {t} /\ failed' = failed
  BY <1>4 DEF LoadWeight
<1>6. ASSUME NEW r \in Ranks
      PROVE  /\ DOMAIN param'[r] = Params
             /\ \A p \in Params : DOMAIN param'[r][p] = 0..LocalRows(p) - 1
             /\ \A u \in Tensors \ (pending \ {t}) :
                  \A i \in 0..Width(u) - 1 : param'[r][ParamOf(u)][Offset(u) + i] = <<u, r * Width(u) + i>>
  <2> DEFINE home == ParamOf(t)
             n == LocalRows(home)
             w == Width(t)
             o == Offset(t)
             old == param[r][home]
  <2>1. /\ DOMAIN param[r] = Params
        /\ \A p \in Params : DOMAIN param[r][p] = 0..LocalRows(p) - 1
        /\ \A u \in Tensors \ pending :
             \A i \in 0..Width(u) - 1 : param[r][ParamOf(u)][Offset(u) + i] = <<u, r * Width(u) + i>>
    BY DEF WeightsInv, Placed
  <2>2. /\ home \in Params /\ n \in Nat /\ o \in Nat /\ o + w <= n
        /\ w \in Nat \ {0} /\ r \in Nat /\ r * w \in Nat
    BY <1>1, Places, EqualShares, ShareOf
  <2>3. Share(t, r) = [i \in 0..w - 1 |-> <<t, r * w + i>>]
    BY <1>1, ShareOf
  <2>4. param'[r] = [param[r] EXCEPT ![home] = Loaded(t, r)]
    BY <1>5
  <2>5. Loaded(t, r) = [i \in 0..n - 1 |-> IF i \in o..o + w - 1 THEN <<t, r * w + (i - o)>> ELSE old[i]]
    <3>1. DOMAIN old = 0..n - 1
      BY <2>1, <2>2
    <3>2. ASSUME NEW i \in o..o + w - 1
          PROVE  Share(t, r)[IF DOMAIN Share(t, r) = {0} THEN 0 ELSE i - o] = <<t, r * w + (i - o)>>
      <4>1. DOMAIN Share(t, r) = 0..w - 1 /\ i - o \in 0..w - 1
        BY <2>2, <2>3
      <4>2. CASE 0..w - 1 = {0}
        <5>1. i - o = 0
          BY <4>1, <4>2
        <5> HIDE DEF w, o
        <5> QED
          BY <2>3, <4>1, <4>2, <5>1
      <4>3. CASE 0..w - 1 # {0}
        <5> HIDE DEF w, o
        <5> QED
          BY <2>3, <4>1, <4>3
      <4> QED
        BY <4>2, <4>3
    <3> QED
      BY <3>1, <3>2 DEF Loaded
  <2>6. param'[r][home] = Loaded(t, r) /\ \A p \in Params \ {home} : param'[r][p] = param[r][p]
    BY <2>1, <2>2, <2>4
  <2>7. DOMAIN param'[r] = Params
    BY <2>1, <2>4
  <2>8. ASSUME NEW p \in Params PROVE DOMAIN param'[r][p] = 0..LocalRows(p) - 1
    <3>1. CASE p = home
      BY <2>5, <2>6, <3>1
    <3>2. CASE p # home
      BY <2>1, <2>6, <3>2
    <3> QED
      BY <3>1, <3>2
  <2>9. ASSUME NEW u \in Tensors \ (pending \ {t}), NEW i \in 0..Width(u) - 1
        PROVE  param'[r][ParamOf(u)][Offset(u) + i] = <<u, r * Width(u) + i>>
    <3>1. /\ ParamOf(u) \in Params /\ Offset(u) \in Nat /\ Width(u) \in Nat
          /\ Offset(u) + Width(u) <= LocalRows(ParamOf(u))
          /\ ParamOf(u) = home /\ u # t => Offset(u) + Width(u) <= o \/ o + w <= Offset(u)
      <4>1. u \in Tensors
        BY <1>1
      <4>2. Width(u) \in Nat
        BY <1>1, <4>1, EqualShares
      <4>3. ParamOf(u) = home /\ u # t => Offset(u) + Width(u) <= o \/ o + w <= Offset(u)
        BY <1>1, <4>1, Places
      <4> QED
        BY <1>1, <4>1, <4>2, <4>3, Places
    <3>2. CASE u = t
      <4>1. i \in 0..w - 1 /\ o + i \in 0..n - 1 /\ o + i \in o..o + w - 1 /\ (o + i) - o = i
        BY <2>2, <3>2
      <4> HIDE DEF w, o, n
      <4>2. Loaded(t, r)[o + i] = <<t, r * w + i>>
        BY <2>5, <4>1
      <4> QED
        BY <2>6, <3>2, <4>2 DEF w, o
    <3>3. CASE u # t
      <4>1. u \in Tensors \ pending
        BY <1>1, <3>3
      <4>2. param[r][ParamOf(u)][Offset(u) + i] = <<u, r * Width(u) + i>>
        BY <2>1, <4>1
      <4>3. CASE ParamOf(u) # home
        BY <2>6, <3>1, <4>2, <4>3
      <4>4. CASE ParamOf(u) = home
        <5>1. Offset(u) + i \in 0..n - 1 /\ Offset(u) + i \notin o..o + w - 1
          BY <2>2, <3>1, <3>3, <4>4
        <5> HIDE DEF w, o, n
        <5>2. Loaded(t, r)[Offset(u) + i] = old[Offset(u) + i]
          BY <2>5, <5>1
        <5> QED
          BY <2>6, <4>2, <4>4, <5>2
      <4> QED
        BY <4>3, <4>4
    <3> QED
      BY <3>2, <3>3
  <2> QED
    BY <2>7, <2>8, <2>9
<1>7. ASSUME NEW r \in Ranks
      PROVE  /\ DOMAIN param'[r] = Params'
             /\ \A p \in Params' : DOMAIN param'[r][p] = 0..LocalRows(p)' - 1
             /\ \A u \in Tensors' \ pending' : Placed(r, u)'
  <2>1. DOMAIN param'[r] = Params'
    BY <1>3, <1>6
  <2>2. ASSUME NEW p \in Params' PROVE DOMAIN param'[r][p] = 0..LocalRows(p)' - 1
    BY <1>3, <1>6
  <2>3. ASSUME NEW u \in Tensors' \ pending' PROVE Placed(r, u)'
    <3>1. u \in Tensors \ (pending \ {t})
      BY <1>3, <1>5
    <3>2. Width(u)' = Width(u) /\ Offset(u)' = Offset(u)
      BY <1>3
    <3>3. \A i \in 0..Width(u) - 1 : param'[r][ParamOf(u)][Offset(u) + i] = <<u, r * Width(u) + i>>
      BY <1>6, <3>1
    <3>4. \A i \in 0..Width(u)' - 1 : param'[r][ParamOf(u)][Offset(u)' + i] = <<u, r * Width(u)' + i>>
      BY <3>2, <3>3
    <3> QED
      BY <3>4 DEF Placed, ParamOf
  <2> QED
    BY <2>1, <2>2, <2>3
<1>8. pending' \subseteq Tensors' /\ ~failed'
  BY <1>1, <1>3, <1>5 DEF WeightsInv
<1> QED
  BY <1>3, <1>7, <1>8 DEF WeightsInv

(* The shares cut at multiples of their width.  *)
LEMMA Cuts ==
  ASSUME NEW n \in Nat \ {0}, NEW w \in Nat \ {0}
  PROVE  /\ \A r \in 0..n - 1, i \in 0..w - 1 :
              r * w + i \in 0..n * w - 1 /\ (r * w + i) \div w = r /\ (r * w + i) % w = i
         /\ \A x \in 0..n * w - 1 :
              x \div w \in 0..n - 1 /\ x % w \in 0..w - 1 /\ x = (x \div w) * w + (x % w)
<1>1. ASSUME NEW r \in 0..n - 1, NEW i \in 0..w - 1
      PROVE  r * w + i \in 0..n * w - 1 /\ (r * w + i) \div w = r /\ (r * w + i) % w = i
  <2>1. w * r + w <= w * n /\ w * r \in Int /\ w * n \in Int
    BY ProductGrows
  <2>2. w * r = r * w /\ w * n = n * w /\ r * w >= 0
    OBVIOUS
  <2>3. (r * w + i) \div w = r /\ (r * w + i) % w = i
    <3>1. r * w + i \in Int /\ r * w + i = w * r + i /\ r \in Int
      BY <2>1, <2>2
    <3> QED
      BY <3>1, DivisionIsUnique
  <2> QED
    BY <2>1, <2>2, <2>3
<1>2. ASSUME NEW x \in 0..n * w - 1
      PROVE  x \div w \in 0..n - 1 /\ x % w \in 0..w - 1 /\ x = (x \div w) * w + (x % w)
  <2> DEFINE q == x \div w
             s == x % w
  <2>1. q \in Int /\ s \in 0..w - 1 /\ x = w * q + s
    BY Division
  <2>2. x \in Int /\ x >= 0 /\ x < w * n /\ w * n \in Int
    OBVIOUS
  <2> HIDE DEF q, s
  <2>3. q >= 0
    <3> SUFFICES ASSUME q < 0 PROVE FALSE
      BY <2>1
    <3>1. w * q + w <= w * 0 /\ w * q \in Int
      BY <2>1, ProductGrows
    <3> QED
      BY <2>1, <2>2, <3>1
  <2>4. q < n
    <3> SUFFICES ASSUME ~(q < n) PROVE FALSE
      OBVIOUS
    <3>1. w * n <= w * q /\ w * q \in Int
      <4>1. CASE q = n
        BY <2>1, <4>1
      <4>2. CASE n < q
        BY <2>1, <4>2, ProductGrows
      <4> QED
        BY <2>1, <4>1, <4>2
    <3> QED
      BY <2>1, <2>2, <3>1
  <2>5. w * q = q * w
    BY <2>1
  <2> QED
    BY <2>1, <2>3, <2>4, <2>5 DEF q, s
<1> QED
  BY <1>1, <1>2

(* Query head r * (lk * g) + l of all is head l of rank r, and its key     *)
(* head is the one of l there: groups are not cut.                         *)
SameGroup(d, lk, g, r, i) ==
  LET j == ((i \div d) \div g) * d + (i % d)
      x == r * ((lk * g) * d) + i
  IN  /\ j \in 0..lk * d - 1
      /\ ((x \div d) \div g) * d + (x % d) = r * (lk * d) + j

(* So it is for all numbers of heads.                                      *)
LEMMA GroupsStayTogether ==
  ASSUME NEW d \in Nat \ {0}, NEW lk \in Nat \ {0}, NEW g \in Nat \ {0}, NEW r \in Nat,
         NEW i \in 0..(lk * g) * d - 1
  PROVE  SameGroup(d, lk, g, r, i)
<1> DEFINE lh == lk * g
           l == i \div d
           e == i % d
           k == l \div g
           x == r * (lh * d) + i
<1>1. lh \in Nat \ {0}
  BY Multiples
<1>2. l \in 0..lh - 1 /\ e \in 0..d - 1 /\ i = l * d + e
  BY <1>1, Cuts
<1>3. k \in 0..lk - 1 /\ l % g \in 0..g - 1 /\ l = k * g + (l % g)
  <2>1. l \in 0..lk * g - 1
    BY <1>2
  <2> HIDE DEF l
  <2> QED
    BY <2>1, Cuts
<1>4. k * d + e \in 0..lk * d - 1
  <2> HIDE DEF k, e
  <2> QED
    BY <1>2, <1>3, Cuts
<1>5. x = d * (r * lh + l) + e /\ r * lh + l \in Int /\ x \in Int
  <2> HIDE DEF lh, l, e
  <2>1. r * (lh * d) = d * (r * lh) /\ l * d = d * l /\ d * (r * lh + l) = d * (r * lh) + d * l
    BY <1>1, <1>2
  <2>2. r * lh \in Int /\ r * (lh * d) \in Int
    BY <1>1
  <2> QED
    BY <1>1, <1>2, <2>1, <2>2
<1>6. x \div d = r * lh + l /\ x % d = e
  <2> HIDE DEF lh, l, e, x
  <2> QED
    BY <1>2, <1>5, DivisionIsUnique
<1>7. (r * lh + l) \div g = r * lk + k
  <2> DEFINE m == l % g
  <2>1. m \in 0..g - 1 /\ l = k * g + m
    BY <1>3
  <2> HIDE DEF l, m, k
  <2>2. r * lh = g * (r * lk) /\ k * g = g * k /\ g * (r * lk + k) = g * (r * lk) + g * k
    BY <1>3
  <2>3. r * lk + k \in Int /\ r * lh \in Int /\ g * k \in Int
    BY <1>1, <1>3
  <2>4. r * lh + l = g * (r * lk + k) + m /\ r * lh + l \in Int
    BY <1>2, <2>1, <2>2, <2>3
  <2> HIDE DEF lh
  <2> QED
    BY <2>1, <2>3, <2>4, DivisionIsUnique
<1>8. (r * lk + k) * d + e = r * (lk * d) + (k * d + e)
  <2> HIDE DEF k, e
  <2>1. (r * lk + k) * d = (r * lk) * d + k * d /\ (r * lk) * d = r * (lk * d)
    BY <1>3
  <2>2. r * (lk * d) \in Int /\ k * d \in Int
    BY <1>3
  <2> QED
    BY <1>2, <2>1, <2>2
<1>9. ((x \div d) \div g) * d + e = r * (lk * d) + (k * d + e)
  <2> HIDE DEF x, lh, l, k, e
  <2> QED
    BY <1>6, <1>7, <1>8
<1>10. x = r * ((lk * g) * d) + i /\ k = (i \div d) \div g /\ e = i % d
  OBVIOUS
<1>11. (((r * ((lk * g) * d) + i) \div d) \div g) * d + ((r * ((lk * g) * d) + i) % d)
         = r * (lk * d) + (((i \div d) \div g) * d + (i % d))
  <2> HIDE DEF x, lh, l, k, e
  <2> QED
    BY <1>6, <1>9, <1>10
<1>12. (((i \div d) \div g) * d + (i % d)) \in 0..lk * d - 1
  <2> HIDE DEF x, lh, l, k, e
  <2> QED
    BY <1>4, <1>10
<1> QED
  BY <1>11, <1>12, Zenon DEF SameGroup

(* The parameters of a rank once all is loaded.  *)
LEMMA LoadedRows ==
  ASSUME WeightsInv, pending = {}, NEW r \in Ranks, NEW t \in Tensors, NEW i \in 0..Width(t) - 1
  PROVE  /\ param[r][ParamOf(t)][Offset(t) + i] = Whole(t)[r * Width(t) + i]
         /\ r * Width(t) + i \in 0..Rows(t) - 1
<1>1. SizesOK
  BY DEF WeightsInv
<1>2. /\ TpSize \in Nat \ {0} /\ r \in 0..TpSize - 1 /\ Width(t) \in Nat \ {0}
      /\ Rows(t) = TpSize * Width(t)
  BY <1>1, Sizes, EqualShares DEF Ranks
<1>3. r * Width(t) + i \in 0..Rows(t) - 1
  <2> DEFINE w == Width(t)
             n == TpSize
  <2>1. n \in Nat \ {0} /\ w \in Nat \ {0} /\ r \in 0..n - 1 /\ i \in 0..w - 1
    BY <1>2
  <2> HIDE DEF w, n
  <2>2. r * w + i \in 0..n * w - 1
    BY <2>1, Cuts
  <2> QED
    BY <1>2, <2>2 DEF w, n
<1>4. param[r][ParamOf(t)][Offset(t) + i] = <<t, r * Width(t) + i>>
  BY DEF WeightsInv, Placed
<1> QED
  BY <1>3, <1>4 DEF Whole

(* What each rank has for its own share, together all have for the whole.  *)
SharesMake(part, whole, n, w) ==
  (\A r \in 0..n - 1 : part[r] = {whole[r * w + i] : i \in 0..w - 1})
    => UNION {part[r] : r \in 0..n - 1} = {whole[x] : x \in 0..n * w - 1}

(* It is so for equal shares.                                              *)
LEMMA SharesCover ==
  ASSUME NEW n \in Nat \ {0}, NEW w \in Nat \ {0}, NEW Part, NEW Product
  PROVE  SharesMake(Part, Product, n, w)
<1> SUFFICES ASSUME \A r \in 0..n - 1 : Part[r] = {Product[r * w + i] : i \in 0..w - 1}
             PROVE  UNION {Part[r] : r \in 0..n - 1} = {Product[x] : x \in 0..n * w - 1}
  BY DEF SharesMake
<1>1. ASSUME NEW r \in 0..n - 1, NEW y \in Part[r] PROVE y \in {Product[x] : x \in 0..n * w - 1}
  <2>1. PICK i \in 0..w - 1 : y = Product[r * w + i]
    OBVIOUS
  <2>2. r * w + i \in 0..n * w - 1
    BY Cuts
  <2> QED
    BY <2>1, <2>2
<1>2. ASSUME NEW x \in 0..n * w - 1 PROVE \E r \in 0..n - 1 : Product[x] \in Part[r]
  <2>1. x \div w \in 0..n - 1 /\ x % w \in 0..w - 1 /\ x = (x \div w) * w + (x % w)
    BY Cuts
  <2>2. Product[x] \in Part[x \div w]
    BY <2>1
  <2> QED
    BY <2>1, <2>2
<1> QED
  BY <1>1, <1>2

(* Rank r computes what one rank would for its share of the elements.  *)
LEMMA AttentionOfRank ==
  ASSUME WeightsInv, pending = {}, NEW r \in Ranks
  PROVE  AttentionOn(r) =
           {Element(Whole("q"), Whole("k"), Whole("v"), Whole("o"), r * QSize + i, shape.heads, shape.kvHeads) :
              i \in 0..QSize - 1}
<1> DEFINE qkv == param[r]["qkv"]
           key == [j \in 0..KvSize - 1 |-> qkv[QSize + j]]
           value == [j \in 0..KvSize - 1 |-> qkv[QSize + KvSize + j]]
<1>1. SizesOK
  BY DEF WeightsInv
<1>2. /\ TpSize \in Nat \ {0} /\ r \in Nat
      /\ shape.dim \in Nat \ {0} /\ shape.heads \in Nat \ {0} /\ shape.kvHeads \in Nat \ {0}
      /\ LocalHeads \in Nat \ {0} /\ shape.heads = TpSize * LocalHeads
      /\ LocalKvHeads \in Nat \ {0} /\ shape.kvHeads = TpSize * LocalKvHeads
      /\ QSize \in Nat \ {0} /\ KvSize \in Nat \ {0}
  BY <1>1, Sizes, EqualShares DEF Ranks
<1>3. shape.heads % shape.kvHeads = 0
  BY <1>1, ShapesAssumption DEF SizesOK
<1> DEFINE group == shape.heads \div shape.kvHeads
<1>4. group \in Nat \ {0} /\ LocalHeads = LocalKvHeads * group /\ LocalHeads \div LocalKvHeads = group
  <2>1. group \in Nat \ {0} /\ shape.heads = shape.kvHeads * group
    BY <1>2, <1>3, Quotients
  <2> HIDE DEF group
  <2>2. TpSize * LocalHeads = TpSize * (LocalKvHeads * group)
    <3>1. (TpSize * LocalKvHeads) * group = TpSize * (LocalKvHeads * group)
      BY <1>2, <2>1
    <3> QED
      BY <1>2, <2>1, <3>1
  <2>3. LocalKvHeads * group \in Nat \ {0}
    BY <1>2, <2>1, Multiples
  <2>4. (TpSize * LocalHeads) \div TpSize = LocalHeads
    BY <1>2, Multiples
  <2>5. (TpSize * (LocalKvHeads * group)) \div TpSize = LocalKvHeads * group
    BY <1>2, <2>3, Multiples
  <2>6. LocalHeads = LocalKvHeads * group
    BY <2>2, <2>4, <2>5
  <2>7. (LocalKvHeads * group) \div LocalKvHeads = group
    BY <1>2, <2>1, Multiples
  <2> QED
    BY <2>1, <2>6, <2>7
<1>5. /\ {"q", "k", "v", "o"} \subseteq Tensors
      /\ Width("q") = QSize /\ Width("k") = KvSize /\ Width("v") = KvSize /\ Width("o") = QSize
      /\ ParamOf("q") = "qkv" /\ ParamOf("k") = "qkv" /\ ParamOf("v") = "qkv" /\ ParamOf("o") = "o"
      /\ Offset("q") = 0 /\ Offset("k") = QSize /\ Offset("v") = QSize + KvSize /\ Offset("o") = 0
  <2>1. "q" \in Tensors /\ "o" \in Tensors /\ Rows("q") = Rows("o")
    BY DEF Tensors, Rows
  <2>2. Width("o") = QSize
    <3>1. Rows("q") = TpSize * Width("q") /\ Rows("o") = TpSize * Width("o")
          /\ Width("q") \in Nat \ {0} /\ Width("o") \in Nat \ {0}
      BY <1>1, <2>1, EqualShares
    <3>2. (TpSize * Width("q")) \div TpSize = Width("q") /\ (TpSize * Width("o")) \div TpSize = Width("o")
      BY <1>2, <3>1, Multiples
    <3> QED
      BY <2>1, <3>1, <3>2 DEF Width
  <2> QED
    BY <2>2 DEF Tensors, Width, ParamOf, Offset
<1>6. ASSUME NEW i \in 0..QSize - 1
      PROVE  Element(qkv, key, value, param[r]["o"], i, LocalHeads, LocalKvHeads) =
             Element(Whole("q"), Whole("k"), Whole("v"), Whole("o"), r * QSize + i, shape.heads, shape.kvHeads)
  <2> DEFINE d == shape.dim
             x == r * QSize + i
             j == ((i \div d) \div group) * d + (i % d)
  <2>1. /\ j \in 0..KvSize - 1
        /\ ((x \div d) \div group) * d + (x % d) = r * KvSize + j
    <3>1. QSize = (LocalKvHeads * group) * d /\ KvSize = LocalKvHeads * d
      BY <1>4 DEF QSize, KvSize
    <3> HIDE DEF group, d
    <3>2. d \in Nat \ {0} /\ LocalKvHeads \in Nat \ {0} /\ group \in Nat \ {0}
      BY <1>2, <1>4 DEF d
    <3>3. SameGroup(d, LocalKvHeads, group, r, i)
      BY <1>2, <3>1, <3>2, GroupsStayTogether
    <3>4. /\ (((i \div d) \div group) * d + (i % d)) \in 0..LocalKvHeads * d - 1
          /\ (((r * QSize + i) \div d) \div group) * d + ((r * QSize + i) % d)
               = r * (LocalKvHeads * d) + (((i \div d) \div group) * d + (i % d))
      BY <3>1, <3>3, Zenon DEF SameGroup
    <3> QED
      BY <3>1, <3>4
  <2>2. /\ qkv[i] = Whole("q")[x] /\ param[r]["o"][i] = Whole("o")[x]
    <3>1. i \in 0..Width("q") - 1 /\ i \in 0..Width("o") - 1 /\ 0 + i = i
      BY <1>5
    <3>2. param[r][ParamOf("q")][Offset("q") + i] = Whole("q")[r * Width("q") + i]
      BY <1>5, <3>1, LoadedRows
    <3>3. param[r][ParamOf("o")][Offset("o") + i] = Whole("o")[r * Width("o") + i]
      BY <1>5, <3>1, LoadedRows
    <3> QED
      BY <1>5, <3>1, <3>2, <3>3
  <2> HIDE DEF j
  <2>3. key[j] = Whole("k")[r * KvSize + j]
    <3>1. j \in 0..Width("k") - 1
      BY <1>5, <2>1
    <3>2. param[r][ParamOf("k")][Offset("k") + j] = Whole("k")[r * Width("k") + j]
      BY <1>5, <3>1, LoadedRows
    <3> QED
      BY <1>5, <2>1, <3>2
  <2>4. value[j] = Whole("v")[r * KvSize + j]
    <3>1. j \in 0..Width("v") - 1
      BY <1>5, <2>1
    <3>2. param[r][ParamOf("v")][Offset("v") + j] = Whole("v")[r * Width("v") + j]
      BY <1>5, <3>1, LoadedRows
    <3> QED
      BY <1>5, <2>1, <3>2
  <2>5. Element(qkv, key, value, param[r]["o"], i, LocalHeads, LocalKvHeads) =
          <<qkv[i], key[j], value[j], param[r]["o"][i]>>
    BY <1>4 DEF Element, j
  <2>6. Element(Whole("q"), Whole("k"), Whole("v"), Whole("o"), x, shape.heads, shape.kvHeads) =
          <<Whole("q")[x], Whole("k")[r * KvSize + j], Whole("v")[r * KvSize + j], Whole("o")[x]>>
    BY <2>1 DEF Element
  <2> QED
    BY <2>2, <2>3, <2>4, <2>5, <2>6
<1>7. AttentionOn(r) =
        {Element(qkv, key, value, param[r]["o"], i, LocalHeads, LocalKvHeads) : i \in 0..QSize - 1}
  BY DEF AttentionOn
<1> HIDE DEF qkv, key, value
<1> QED
  BY <1>6, <1>7

(* A rank multiplies its own rows of gate and up by its own columns of down. *)
LEMMA MlpOfRank ==
  ASSUME WeightsInv, pending = {}, NEW r \in Ranks
  PROVE  LET w == shape.inner \div TpSize
         IN  MlpOn(r) =
               {<<Whole("gate")[r * w + i], Whole("up")[r * w + i], Whole("down")[r * w + i]>> : i \in 0..w - 1}
<1> DEFINE w == shape.inner \div TpSize
<1>1. SizesOK
  BY DEF WeightsInv
<1>2. TpSize \in Nat \ {0} /\ w \in Nat \ {0} /\ shape.inner = TpSize * w
  BY <1>1, Sizes
<1>3. /\ {"gate", "up", "down"} \subseteq Tensors
      /\ Width("gate") = w /\ Width("up") = w /\ Width("down") = w
      /\ ParamOf("gate") = "gate_up" /\ ParamOf("up") = "gate_up" /\ ParamOf("down") = "down"
      /\ Offset("gate") = 0 /\ Offset("up") = w /\ Offset("down") = 0
  BY DEF Tensors, Width, Rows, ParamOf, Offset
<1>4. LocalRows("gate_up") \div 2 = w
  <2>1. LocalRows("gate_up") = (2 * shape.inner) \div TpSize
    BY DEF LocalRows
  <2> HIDE DEF w
  <2>2. 2 * shape.inner = TpSize * (2 * w) /\ 2 * w \in Nat \ {0}
    BY <1>2
  <2>3. (TpSize * (2 * w)) \div TpSize = 2 * w
    BY <1>2, <2>2, Multiples
  <2> QED
    BY <1>2, <2>1, <2>2, <2>3
<1>5. ASSUME NEW i \in 0..w - 1
      PROVE  /\ param[r]["gate_up"][i] = Whole("gate")[r * w + i]
             /\ param[r]["gate_up"][w + i] = Whole("up")[r * w + i]
             /\ param[r]["down"][i] = Whole("down")[r * w + i]
  <2> HIDE DEF w
  <2>1. param[r][ParamOf("gate")][Offset("gate") + i] = Whole("gate")[r * Width("gate") + i]
    BY <1>3, LoadedRows
  <2>2. param[r][ParamOf("up")][Offset("up") + i] = Whole("up")[r * Width("up") + i]
    BY <1>3, LoadedRows
  <2>3. param[r][ParamOf("down")][Offset("down") + i] = Whole("down")[r * Width("down") + i]
    BY <1>3, LoadedRows
  <2> QED
    BY <1>3, <2>1, <2>2, <2>3
<1>6. MlpOn(r) = {<<param[r]["gate_up"][i], param[r]["gate_up"][w + i], param[r]["down"][i]>> : i \in 0..w - 1}
  <2> HIDE DEF w
  <2> QED
    BY <1>4 DEF MlpOn
<1> HIDE DEF w
<1>7. MlpOn(r) = {<<Whole("gate")[r * w + i], Whole("up")[r * w + i], Whole("down")[r * w + i]>> : i \in 0..w - 1}
  BY <1>5, <1>6
<1> QED
  BY <1>7 DEF w

(* The row and the logit of a token are on the rank that has its part of   *)
(* the vocabulary, and nowhere else.                                       *)
LEMMA VocabularyOfRanks ==
  ASSUME WeightsInv, pending = {}, NEW x \in 0..shape.vocab - 1
  PROVE  Embedding(x) = {<<"embed", x>>} /\ Logit(x) = <<HeadStorage, x>>
<1> DEFINE n == shape.vocab \div TpSize
           r == x \div n
           i == x % n
<1>1. SizesOK
  BY DEF WeightsInv
<1>2. TpSize \in Nat \ {0} /\ n \in Nat \ {0} /\ shape.vocab = TpSize * n /\ shape.tied \in BOOLEAN
  BY <1>1, Sizes
<1>3. LocalRows("embed") = n
  BY DEF LocalRows, Rows
<1>4. r \in Ranks /\ i \in 0..n - 1 /\ x = r * n + i
  <2> HIDE DEF n
  <2>1. x \in 0..TpSize * n - 1
    BY <1>2
  <2> QED
    BY <1>2, <2>1, Cuts DEF Ranks
<1>5. \A t \in {"embed", HeadStorage} :
        /\ t \in Tensors /\ ParamOf(t) = t /\ Offset(t) = 0 /\ Width(t) = n /\ Rows(t) = shape.vocab
  BY <1>2 DEF HeadStorage, Tensors, ParamOf, Offset, Width, Rows
<1>6. ASSUME NEW t \in {"embed", HeadStorage} PROVE param[r][t][i] = <<t, x>>
  <2> HIDE DEF n, r, i
  <2>1. i \in 0..Width(t) - 1 /\ 0 + i = i
    BY <1>2, <1>4, <1>5
  <2>2. param[r][ParamOf(t)][Offset(t) + i] = <<t, r * Width(t) + i>>
    <3>1. \A u \in Tensors \ pending : Placed(r, u)
      BY <1>4 DEF WeightsInv
    <3> QED
      BY <1>5, <2>1, <3>1 DEF Placed
  <2>3. ParamOf(t) = t /\ Offset(t) = 0 /\ Width(t) = n
    BY <1>5
  <2> QED
    BY <1>4, <2>1, <2>2, <2>3
<1>7. {q \in Ranks : x \in PartOfVocabulary(q)} = {r}
  <2> HIDE DEF n
  <2>1. ASSUME NEW q \in Ranks PROVE x \in PartOfVocabulary(q) <=> q = r
    <3>1. q \in Int /\ q * n \in Int /\ (q + 1) * n = q * n + n
      BY <1>2 DEF Ranks
    <3>2. x \in PartOfVocabulary(q) <=> x - q * n \in 0..n - 1
      BY <1>2, <1>3, <3>1 DEF PartOfVocabulary
    <3>3. ASSUME x - q * n \in 0..n - 1 PROVE q = r
      <4>1. x = n * q + (x - q * n)
        BY <1>2, <3>1
      <4> QED
        BY <1>2, <3>1, <3>3, <4>1, DivisionIsUnique
    <3>4. ASSUME q = r PROVE x - q * n \in 0..n - 1
      <4> HIDE DEF r, i
      <4> QED
        BY <1>2, <1>4, <3>1, <3>4
    <3> QED
      BY <3>2, <3>3, <3>4
  <2> HIDE DEF r
  <2> QED
    BY <1>4, <2>1
<1>8. x - r * n = i
  <2> HIDE DEF n, r, i
  <2>1. r * n \in Int
    BY <1>2, <1>4 DEF Ranks
  <2> QED
    BY <1>2, <1>4, <2>1
<1>9. Embedding(x) = {<<"embed", x>>}
  <2> HIDE DEF n, r, i
  <2>1. Embedding(x) = {param[q]["embed"][x - q * n] : q \in {r}}
    BY <1>3, <1>7 DEF Embedding
  <2> QED
    BY <1>6, <1>8, <2>1
<1>10. Logit(x) = <<HeadStorage, x>>
  <2>1. Logit(x) = param[r][HeadStorage][i]
    <3> HIDE DEF n
    <3> QED
      BY <1>3 DEF Logit
  <2> HIDE DEF n, r, i
  <2> QED
    BY <1>6, <2>1
<1> QED
  BY <1>9, <1>10

(* All shares are there, and they are the model.  *)
LEMMA WeightsImply == WeightsInv => ShardsMakeTheModel
<1> SUFFICES ASSUME WeightsInv PROVE ShardsMakeTheModel
  OBVIOUS
<1>1. SizesOK /\ ~failed
  BY DEF WeightsInv
<1> SUFFICES ASSUME pending = {}
             PROVE  /\ AllOf(AttentionOn) =
                         {Element(Whole("q"), Whole("k"), Whole("v"), Whole("o"), i, shape.heads, shape.kvHeads) :
                            i \in 0..Rows("q") - 1}
                    /\ AllOf(MlpOn) = {<<Whole("gate")[i], Whole("up")[i], Whole("down")[i]>> : i \in 0..shape.inner - 1}
  BY <1>1, VocabularyOfRanks DEF ShardsMakeTheModel
<1> DEFINE w == shape.inner \div TpSize
<1>2. /\ TpSize \in Nat \ {0} /\ QSize \in Nat \ {0} /\ Rows("q") = TpSize * QSize
      /\ w \in Nat \ {0} /\ shape.inner = TpSize * w
  <2>1. "q" \in Tensors /\ Width("q") = QSize
    BY DEF Tensors, Width
  <2> QED
    BY <1>1, <2>1, Sizes, EqualShares
<1>3. AllOf(AttentionOn) =
        {Element(Whole("q"), Whole("k"), Whole("v"), Whole("o"), i, shape.heads, shape.kvHeads) : i \in 0..Rows("q") - 1}
  <2> DEFINE part == [r \in 0..TpSize - 1 |-> AttentionOn(r)]
             whole == [x \in 0..TpSize * QSize - 1 |->
                         Element(Whole("q"), Whole("k"), Whole("v"), Whole("o"), x, shape.heads, shape.kvHeads)]
  <2>1. \A r \in 0..TpSize - 1 : part[r] = {whole[r * QSize + i] : i \in 0..QSize - 1}
    <3> SUFFICES ASSUME NEW r \in 0..TpSize - 1
                 PROVE  AttentionOn(r) = {whole[r * QSize + i] : i \in 0..QSize - 1}
      OBVIOUS
    <3>1. \A i \in 0..QSize - 1 : r * QSize + i \in 0..TpSize * QSize - 1
      BY <1>2, Cuts
    <3> QED
      BY <3>1, AttentionOfRank DEF Ranks
  <2>2. AllOf(AttentionOn) = UNION {part[r] : r \in 0..TpSize - 1}
    BY DEF AllOf, Ranks
  <2> HIDE DEF part
  <2>3. UNION {part[r] : r \in 0..TpSize - 1} = {whole[x] : x \in 0..TpSize * QSize - 1}
    <3> HIDE DEF whole
    <3>1. SharesMake(part, whole, TpSize, QSize)
      BY <1>2, SharesCover
    <3> QED
      BY <2>1, <3>1, Zenon DEF SharesMake
  <2> QED
    BY <1>2, <2>2, <2>3
<1>4. AllOf(MlpOn) = {<<Whole("gate")[i], Whole("up")[i], Whole("down")[i]>> : i \in 0..shape.inner - 1}
  <2> DEFINE part == [r \in 0..TpSize - 1 |-> MlpOn(r)]
             whole == [x \in 0..TpSize * w - 1 |-> <<Whole("gate")[x], Whole("up")[x], Whole("down")[x]>>]
  <2>1. \A r \in 0..TpSize - 1 : part[r] = {whole[r * w + i] : i \in 0..w - 1}
    <3> SUFFICES ASSUME NEW r \in 0..TpSize - 1
                 PROVE  MlpOn(r) = {whole[r * w + i] : i \in 0..w - 1}
      OBVIOUS
    <3>1. MlpOn(r) =
            {<<Whole("gate")[r * w + i], Whole("up")[r * w + i], Whole("down")[r * w + i]>> : i \in 0..w - 1}
      BY MlpOfRank DEF Ranks
    <3> HIDE DEF w
    <3>2. \A i \in 0..w - 1 : r * w + i \in 0..TpSize * w - 1
      BY <1>2, Cuts
    <3> QED
      BY <3>1, <3>2
  <2>2. AllOf(MlpOn) = UNION {part[r] : r \in 0..TpSize - 1}
    BY DEF AllOf, Ranks
  <2> HIDE DEF part, w
  <2>3. UNION {part[r] : r \in 0..TpSize - 1} = {whole[x] : x \in 0..TpSize * w - 1}
    <3> HIDE DEF whole
    <3>1. SharesMake(part, whole, TpSize, w)
      BY <1>2, SharesCover
    <3> QED
      BY <2>1, <3>1, Zenon DEF SharesMake
  <2> QED
    BY <1>2, <2>2, <2>3
<1> QED
  BY <1>3, <1>4

-----------------------------------------------------------------------------
(* The runner                                                              *)

(* A step of a runner loads a tensor or leaves the weights alone.           *)
LEMMA RunnerSteps ==
  ASSUME WeightsInv, [RunnerNext]_RunnerVars
  PROVE  WeightsInv'
<1>1. CASE Load
  BY <1>1, LoadKeeps DEF Load, LoadModel
<1>2. CASE UNCHANGED weightVars
  <2>1. UNCHANGED <<shape, pending, param, failed>>
    BY <1>2 DEF weightVars
  <2>2. /\ SizesOK' /\ Tensors' = Tensors /\ Params' = Params
        /\ \A u : Width(u)' = Width(u) /\ Offset(u)' = Offset(u) /\ LocalRows(u)' = LocalRows(u)
    BY <2>1 DEF WeightsInv, SizesOK, Divides, Tensors, Params, Width, Offset, LocalRows, Rows,
       QSize, KvSize, LocalHeads, LocalKvHeads
  <2>3. ASSUME NEW r \in Ranks, NEW t \in Tensors' \ pending' PROVE Placed(r, t)'
    <3>1. t \in Tensors \ pending
      BY <2>1, <2>2
    <3>2. \A i \in 0..Width(t) - 1 : param[r][ParamOf(t)][Offset(t) + i] = <<t, r * Width(t) + i>>
      BY <3>1 DEF WeightsInv, Placed
    <3>3. \A i \in 0..Width(t)' - 1 : param'[r][ParamOf(t)][Offset(t)' + i] = <<t, r * Width(t)' + i>>
      BY <2>1, <2>2, <3>2
    <3> QED
      BY <3>3 DEF Placed, ParamOf
  <2>4. \A r \in Ranks : DOMAIN param'[r] = Params' /\ \A p \in Params' : DOMAIN param'[r][p] = 0..LocalRows(p)' - 1
    BY <2>1, <2>2 DEF WeightsInv
  <2>5. pending' \subseteq Tensors' /\ ~failed'
    BY <2>1, <2>2 DEF WeightsInv
  <2> QED
    BY <2>2, <2>3, <2>4, <2>5 DEF WeightsInv
<1>3. CASE Serve
  BY <1>2, <1>3 DEF Serve
<1>4. CASE UNCHANGED RunnerVars
  <2>1. UNCHANGED weightVars
    BY <1>4 DEF RunnerVars
  <2> QED
    BY <1>2, <2>1
<1> QED
  BY <1>1, <1>3, <1>4 DEF RunnerNext

(* Loading leaves the group of processes alone: a runner is a group that   *)
(* starts when its weights are there (model_runner.py:36, 47).             *)
THEOREM RunnerIsAGroup == RunnerSpec => Spec
<1>1. RunnerInit => Init
  BY DEF RunnerInit
<1>2. [RunnerNext]_RunnerVars => [Next]_vars
  BY DEF RunnerNext, RunnerVars, Load, Serve
<1> QED
  BY <1>1, <1>2, PTL DEF RunnerSpec, Spec

(* So what holds of the group holds of the runner that the runs check: its *)
(* workers run exactly the calls of rank 0, and use no memory that is not  *)
(* there.                                                                  *)
THEOREM RunnerFollows == RunnerSpec => [](FollowsRankZero /\ MemoryOutlivesItsUse)
BY RunnerIsAGroup, WorkersFollow, MemoryIsThere, PTL

(* No tensor of a model whose sizes the constructors accept fails to load, *)
(* and once all are loaded the ranks compute together what a single rank   *)
(* would: for every shape, every number of ranks and every order of the    *)
(* checkpoint's files (loader.py:12, linear.py:97, embed_head.py:36).      *)
THEOREM RanksMakeTheModel == RunnerSpec => []ShardsMakeTheModel
<1>1. RunnerInit => WeightsInv
  BY WeightsAtFirst DEF RunnerInit
<1>2. WeightsInv /\ [RunnerNext]_RunnerVars => WeightsInv'
  BY RunnerSteps
<1>3. WeightsInv => ShardsMakeTheModel
  BY WeightsImply
<1> QED
  BY <1>1, <1>2, <1>3, PTL DEF RunnerSpec
==============================================================================
