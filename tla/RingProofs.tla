----------------------------- MODULE RingProofs -----------------------------
(***************************************************************************)
(* The callbacks of the ring.  The argument follows a request id: it is    *)
(* given out once, and it is in one place at a time (with the thread that  *)
(* registered it, in a finished slot of the queue, in the kernel, among    *)
(* the completions not yet handled) and registered as long as it is in one *)
(* of them.  When its completion is handled it leaves the places and the   *)
(* table together.  That a slot belongs to one thread until it is finished *)
(* is what several threads need to submit side by side.                    *)
(***************************************************************************)
EXTENDS GenericInterface, TLAPS

InCallback == lpc \in {"call", "repost"}

\* Where the program stands and the data it holds agree.
Shape ==
  /\ \A t \in Threads : step[t] # "none" => want[t] \in Operations
  /\ \A t \in Threads : step[t] = "claimed" => free # <<>> /\ cell[t] = Head(free)
  /\ \A t \in Threads : Filling(t) => cell[t] \in Slots
  /\ ~corrupt => \A t, u \in Threads : step[t] = "claimed" /\ step[u] = "claimed" => t = u
  /\ InCallback => cur \in Calls
  /\ seen <= Len(cq)

TypeInv == TypeOK /\ Shape

LEMMA RingTypeInit == Init => TypeInv
<1> SUFFICES ASSUME Init PROVE TypeInv
  OBVIOUS
<1> USE RingAssumption, OpensAssumption DEF Init, RingInit, IfaceInit
<1>1. /\ sq \in Seq(Slots) /\ free \in Seq(Slots) /\ cq \in Seq(Completions) /\ Len(cq) = 0
  <2>1. free \in [1 .. Depth -> Slots]
    BY DEF Slots
  <2> QED BY <2>1
<1>2. RingTypeOK
  <2>1. nextId \in RequestIds /\ seen \in Nat /\ handed \in Nat
    BY DEF RequestIds
  <2>2. /\ step \in [Threads -> Steps] /\ want \in [Threads -> Operations \cup {None}]
        /\ cell \in [Threads -> 0 .. Depth] /\ reqId \in [Threads -> Nat]
    BY DEF Steps
  <2>3. /\ running \in BOOLEAN /\ early \in BOOLEAN /\ corrupt \in BOOLEAN
        /\ cur \in Calls \cup {None}
        /\ active \in SUBSET Requests /\ inKernel \in SUBSET Taken
        /\ ran \in SUBSET RequestIds /\ dropped \in SUBSET Operations
    OBVIOUS
  <2>4. lpc = "off" /\ sqes \in [Slots -> Entries]
    BY DEF Entries
  <2> HIDE DEF Init, RingInit, IfaceInit
  <2> QED BY <1>1, <2>1, <2>2, <2>3, <2>4 DEF RingTypeOK
<1>3. 0 \in Frames /\ <<>> \in Seq(Frames)
  BY DEF Frames
<1>4. IfaceTypeOK
  BY <1>3 DEF IfaceTypeOK
<1>5. Shape
  BY <1>1 DEF Shape, InCallback, Filling
<1> QED BY <1>2, <1>4, <1>5 DEF TypeInv, TypeOK

\* What a submission that begins changes.
LEMMA BeginSubmitType ==
  ASSUME TypeInv, NEW t \in Threads, NEW op \in Operations, BeginSubmit(t, op),
         UNCHANGED <<free, corrupt>>
  PROVE  /\ step' \in [Threads -> Steps]
         /\ want' \in [Threads -> Operations \cup {None}]
         /\ UNCHANGED <<cell, reqId>>
         /\ \A u \in Threads : step'[u] # "none" => want'[u] \in Operations
         /\ \A u \in Threads : step'[u] = "claimed" => free' # <<>> /\ cell'[u] = Head(free')
         /\ \A u \in Threads : Filling(u)' => cell'[u] \in Slots
         /\ ~corrupt' =>
              \A u, v \in Threads : step'[u] = "claimed" /\ step'[v] = "claimed" => u = v
BY DEF TypeInv, TypeOK, Shape, RingTypeOK, BeginSubmit, Steps, Filling

LEMMA OperationsOf ==
  ASSUME NEW i \in Ifaces
  PROVE  ReadOf(i) \in Operations /\ WriteOf(i) \in Operations
BY DEF ReadOf, WriteOf, Operations

LEMMA AppType ==
  ASSUME TypeInv, NEW t \in Threads, AppStep(t)
  PROVE  TypeInv'
<1> USE OpensAssumption, RingAssumption DEF TypeInv, TypeOK, Shape, RingTypeOK, IfaceTypeOK,
        InCallback, loopVars, queueVars, tableVars, kernelVars, historyVars, submitVars,
        threadVars, frameVars, ifaceVars, Filling
<1>1. ASSUME NEW i \in Ifaces, OpenInternal(t, i) PROVE TypeInv'
  BY <1>1, BeginSubmitType, OperationsOf DEF OpenInternal, Work
<1>2. ASSUME NEW i \in Ifaces, CloseInternal(t, i) PROVE TypeInv'
  BY <1>2 DEF CloseInternal, ringVars
<1>3. ASSUME NEW i \in Ifaces, SendFrame(t, i) PROVE TypeInv'
  BY <1>3, BeginSubmitType, OperationsOf DEF SendFrame, Work
<1>4. CASE Stop /\ UNCHANGED ifaceVars
  BY <1>4 DEF Stop
<1> QED BY <1>1, <1>2, <1>3, <1>4 DEF AppStep

\* A step of one submission leaves the other threads where they are.
LEMMA ThreadShape ==
  ASSUME TypeInv, ~corrupt, NEW t \in Threads, ThreadStep(t)
  PROVE  /\ RingTypeOK'
         /\ Shape'
<1> USE RingAssumption
    DEF TypeInv, TypeOK, Shape, RingTypeOK, InCallback, loopVars, tableVars, kernelVars,
        queueVars, historyVars, Filling, Steps
<1>1. CASE QueueFull(t)
  BY <1>1 DEF QueueFull, Return
<1>2. CASE ReadTail(t)
  <2> USE <1>2 DEF ReadTail
  <2>1. free # <<>> /\ free \in Seq(Slots) /\ Head(free) \in Slots /\ Head(free) \in 0 .. Depth
    BY DEF Slots
  <2> QED BY <2>1
<1>3. CASE AdvanceTail(t)
  <2> USE <1>3 DEF AdvanceTail
  <2>1. free # <<>> /\ cell[t] = Head(free) /\ free \in Seq(Slots) /\ sq \in Seq(Slots)
    OBVIOUS
  <2>2. Head(free) \in Slots /\ Tail(free) \in Seq(Slots) /\ Append(sq, Head(free)) \in Seq(Slots)
    BY <2>1
  <2>3. \A u \in Threads : step'[u] # "claimed"
    OBVIOUS
  <2>4. Shape'
    BY <2>1, <2>2, <2>3
  <2> QED BY <2>1, <2>2, <2>4
<1>4. CASE Prepare(t)
  <2> USE <1>4 DEF Prepare
  <2>1. want[t] \in Operations /\ cell[t] \in Slots
    OBVIOUS
  <2>2. sqes' \in [Slots -> Entries]
    BY <2>1 DEF Entries
  <2> QED BY <2>2
<1>5. CASE Register(t)
  <2> USE <1>5 DEF Register
  <2>1. [op |-> want[t], id |-> nextId] \in Requests /\ nextId + 1 \in RequestIds /\ nextId \in Nat
    BY DEF Requests, RequestIds
  <2> QED BY <2>1
<1>6. CASE SetData(t)
  <2> USE <1>6 DEF SetData, Return
  <2>1. sqes' \in [Slots -> Entries]
    BY DEF Entries
  <2> QED BY <2>1
<1> QED BY <1>1, <1>2, <1>3, <1>4, <1>5, <1>6 DEF ThreadStep, SubmitStep

LEMMA ThreadType ==
  ASSUME TypeInv, ~corrupt, NEW t \in Threads, ThreadStep(t)
  PROVE  TypeInv'
BY ThreadShape DEF TypeInv, TypeOK, IfaceTypeOK, ThreadStep, ifaceVars, frameVars

LEMMA LoopType ==
  ASSUME TypeInv, LoopStep \/ ((RunStart \/ WaitInterrupted) /\ UNCHANGED ifaceVars)
  PROVE  TypeInv'
<1> USE DEF TypeInv, TypeOK, Shape, RingTypeOK, IfaceTypeOK, InCallback, submitVars, tableVars,
        queueVars, kernelVars, historyVars, threadVars, frameVars, ifaceVars, Filling
<1>1. CASE (RunStart \/ RunCheck \/ WaitReturns \/ WaitInterrupted \/ BatchEnds)
             /\ UNCHANGED ifaceVars
  BY <1>1 DEF RunStart, RunCheck, WaitReturns, WaitInterrupted, BatchEnds
<1>2. CASE Enter /\ UNCHANGED ifaceVars
  <2> USE <1>2 DEF Enter
  <2>1. sq \in Seq(Slots) /\ free \in Seq(Slots) /\ Len(sq) \in Nat /\ DOMAIN sq = 1 .. Len(sq)
    OBVIOUS
  <2>2. ASSUME NEW k \in DOMAIN sq
        PROVE  [op |-> sqes[sq[k]].op, id |-> sqes[sq[k]].id, nr |-> handed + k] \in Taken
    BY <2>1 DEF Taken, Entries
  <2>3. inKernel' \in SUBSET Taken
    BY <2>2
  <2>4. free' \in Seq(Slots) /\ sq' \in Seq(Slots) /\ handed' \in Nat
    BY <2>1
  <2>5. \A t \in Threads : step[t] = "claimed" => free' # <<>> /\ Head(free') = Head(free)
    BY <2>1
  <2>6. early' \in BOOLEAN /\ lpc' = "wait"
    OBVIOUS
  <2>7. /\ UNCHANGED <<running, step, want, cell, reqId, sqes, active, nextId, cq, seen, cur,
                      ran, dropped, corrupt>>
        /\ UNCHANGED ifaceVars
    OBVIOUS
  <2>8. RingTypeOK' /\ IfaceTypeOK'
    BY <2>3, <2>4, <2>6, <2>7
  <2>9. Shape'
    BY <2>5, <2>6, <2>7
  <2> QED BY <2>8, <2>9
<1>3. CASE NextCompletion /\ UNCHANGED ifaceVars
  <2> USE <1>3 DEF NextCompletion, CallBack
  <2>0. seen + 1 \in 1 .. Len(cq) /\ cq \in Seq(Completions) /\ cq[seen + 1] \in Completions
    OBVIOUS
  <2>1. ASSUME NEW a \in Registered(cq[seen + 1].id)
        PROVE  /\ [op |-> a.op, id |-> cq[seen + 1].id, res |-> cq[seen + 1].res] \in Calls
               /\ cq[seen + 1].id \in RequestIds
    BY <2>0 DEF Registered, Requests, Completions, Calls
  <2> QED BY <2>0, <2>1
<1>4. CASE Advance /\ UNCHANGED ifaceVars
  <2> USE <1>4 DEF Advance
  <2>1. cq' \in Seq(Completions) /\ seen' <= Len(cq')
    OBVIOUS
  <2> QED BY <2>1
<1>5. CASE WriteCallback \/ DeliverError
  BY <1>5 DEF WriteCallback, DeliverError
<1>6. CASE DeliverFrame
  <2> USE <1>6 DEF DeliverFrame
  <2>1. cur.op.iface \in Ifaces
    BY DEF Calls, Operations
  <2>2. delivered' \in [Ifaces -> Seq(Frames)]
    BY <2>1
  <2> QED BY <2>2
<1>7. CASE Repost
  <2> USE <1>7 DEF Repost
  <2>1. Loop \in Threads /\ cur.op \in Operations
    BY DEF Calls, Threads
  <2>2. CASE BeginSubmit(Loop, cur.op)
    BY <2>1, <2>2, BeginSubmitType
  <2>3. CASE UNCHANGED threadVars
    BY <2>3
  <2> QED BY <2>2, <2>3
<1> QED BY <1>1, <1>2, <1>3, <1>4, <1>5, <1>6, <1>7 DEF LoopStep, RunStep, CallbackStep

LEMMA CompleteType ==
  ASSUME TypeInv, NEW r, NEW res \in Results, Complete(r, res)
  PROVE  /\ r \in Taken /\ cq' \in Seq(Completions) /\ RingTypeOK' /\ Shape'
<1> USE DEF TypeInv, TypeOK, Shape, RingTypeOK, Complete, loopVars, submitVars, threadVars,
        queueVars, tableVars, historyVars, Filling
<1>1. r \in Taken
  OBVIOUS
<1>2. [op |-> r.op, id |-> r.id, res |-> res] \in Completions
  BY <1>1 DEF Taken, Completions
<1>3. cq' \in Seq(Completions) /\ seen <= Len(cq')
  BY <1>2
<1> QED BY <1>1, <1>3 DEF InCallback

LEMMA KernelType ==
  ASSUME TypeInv, KernelStep
  PROVE  TypeInv'
<1> USE RingAssumption DEF TypeInv, TypeOK, IfaceTypeOK, frameVars, ifaceVars, Frames
<1> PICK r \in inKernel :
      \/ r.op # None /\ (ReadCompletes(r) \/ ReadReturnsNothing(r) \/ WriteCompletes(r))
      \/ NothingCompletes(r)
  BY DEF KernelStep
<1>0. r.op # None => r.op.iface \in Ifaces
  BY DEF RingTypeOK, Taken, Operations
<1>1. CASE r.op # None /\ ReadCompletes(r)
  <2> USE <1>1 DEF ReadCompletes, Work
  <2>1. taken[r.op.iface] + 1 \in Frames
    BY <1>0
  <2>2. [kind |-> "ok", frame |-> taken[r.op.iface] + 1] \in Results
    BY <2>1 DEF Results
  <2>3. RingTypeOK' /\ Shape'
    BY <2>2, CompleteType
  <2> QED BY <1>0, <2>1, <2>3
<1>2. CASE r.op # None /\ ReadReturnsNothing(r)
  <2> USE <1>2 DEF ReadReturnsNothing, Work
  <2>1. PICK kind \in {"eof", "error"} : Complete(r, [kind |-> kind, frame |-> 0])
    OBVIOUS
  <2>2. [kind |-> kind, frame |-> 0] \in Results
    BY DEF Results
  <2>3. RingTypeOK' /\ Shape'
    BY <2>1, <2>2, CompleteType
  <2> QED BY <2>3
<1>3. CASE WriteCompletes(r) \/ NothingCompletes(r)
  <2>1. [kind |-> "ok", frame |-> 0] \in Results
    BY DEF Results
  <2>2. RingTypeOK' /\ Shape'
    BY <1>3, <2>1, CompleteType DEF WriteCompletes, NothingCompletes
  <2> QED BY <1>3, <2>2 DEF WriteCompletes, NothingCompletes
<1> QED BY <1>1, <1>2, <1>3

LEMMA RingTypeStep ==
  ASSUME TypeInv, Next
  PROVE  TypeInv'
<1>1. ASSUME NEW i \in Ifaces, DeviceDelivers(i) PROVE TypeInv'
  BY <1>1, RingAssumption
     DEF DeviceDelivers, TypeInv, TypeOK, Shape, RingTypeOK, IfaceTypeOK, InCallback, ringVars,
         loopVars, submitVars, threadVars, queueVars, tableVars, kernelVars, historyVars, Frames,
         Filling
<1>2. CASE UserCallback
  BY <1>2, AppType DEF UserCallback, Threads
<1>3. ASSUME NEW t \in Apps, AppStep(t) PROVE TypeInv'
  BY <1>3, AppType DEF Threads
<1>4. ASSUME NEW t \in Threads, ThreadStep(t) PROVE TypeInv'
  BY <1>4, ThreadType DEF Next
<1> QED BY <1>1, <1>2, <1>3, <1>4, LoopType, KernelType DEF Next

\* Every variable of the ring and its interfaces keeps its type.
THEOREM RingTypeCorrect == Spec => []TypeOK
<1>1. TypeInv /\ [Next]_vars => TypeInv'
  <2>1. TypeInv /\ UNCHANGED vars => TypeInv'
    BY DEF vars, ringVars, ifaceVars, loopVars, submitVars, threadVars, queueVars, tableVars,
           kernelVars, historyVars, frameVars, TypeInv, TypeOK, Shape, RingTypeOK, IfaceTypeOK,
           InCallback, Filling
  <2> QED BY <2>1, RingTypeStep
<1>2. TypeInv => TypeOK
  BY DEF TypeInv
<1> QED BY <1>1, <1>2, RingTypeInit, PTL DEF Spec

-----------------------------------------------------------------------------
\* A slot is being filled; or it waits in the queue, finished.
Busy(c) == \E t \in Threads : Filling(t) /\ cell[t] = c

InQueue(c) == \E k \in DOMAIN sq : sq[k] = c

Ready == {c \in Slots : InQueue(c) /\ ~Busy(c)}

Entry(k) == [op |-> cq[k].op, id |-> cq[k].id]

Task(r) == [op |-> r.op, id |-> r.id]

Held(t) == [op |-> want[t], id |-> reqId[t]]

Unhandled == seen + 1 .. Len(cq)

Holders == {t \in Threads : step[t] = "registered"}

\* Ids are given out in order, and the table holds no callback that was run.
IdsInv ==
  /\ \A a \in active : a.id < nextId /\ a.id \notin ran
  /\ \A id \in ran : id < nextId
  /\ \A a, b \in active : a.id = b.id => a = b

\* Each slot is either in the queue or free, once.
SlotInv ==
  /\ \A j, k \in DOMAIN sq : sq[j] = sq[k] => j = k
  /\ \A j, k \in DOMAIN free : free[j] = free[k] => j = k
  /\ \A j \in DOMAIN sq, k \in DOMAIN free : sq[j] # free[k]

\* A slot that is filled is in the queue and has one thread, whose operation it
\* holds once that is prepared.
FillInv ==
  /\ \A t \in Threads : Filling(t) => InQueue(cell[t])
  /\ \A t, u \in Threads : Filling(t) /\ Filling(u) /\ cell[t] = cell[u] => t = u
  /\ \A t \in Threads : step[t] \in {"prepared", "registered"} => sqes[cell[t]].op = want[t]

\* What is in a place is registered.
PlacesInv ==
  /\ \A c \in Ready : sqes[c] \in active
  /\ \A r \in inKernel : Task(r) \in active
  /\ \A k \in Unhandled : Entry(k) \in active
  /\ \A t \in Holders : Held(t) \in active

\* An id is in one place of each kind ...
OnceInv ==
  /\ \A c, d \in Ready : sqes[c].id = sqes[d].id => c = d
  /\ \A q, r \in inKernel : q.id = r.id => q = r
  /\ \A j, k \in Unhandled : cq[j].id = cq[k].id => j = k
  /\ \A t, u \in Holders : reqId[t] = reqId[u] => t = u

\* ... and in a place of one kind.
ApartInv ==
  /\ \A c \in Ready, r \in inKernel : sqes[c].id # r.id
  /\ \A c \in Ready, k \in Unhandled : sqes[c].id # cq[k].id
  /\ \A c \in Ready, t \in Holders : sqes[c].id # reqId[t]
  /\ \A r \in inKernel, k \in Unhandled : r.id # cq[k].id
  /\ \A r \in inKernel, t \in Holders : r.id # reqId[t]
  /\ \A k \in Unhandled, t \in Holders : cq[k].id # reqId[t]

PlaceInv == IdsInv /\ SlotInv /\ (~early => FillInv /\ PlacesInv /\ OnceInv /\ ApartInv)

SafeRing == TypeInv /\ PlaceInv

LEMMA PlaceInit == Init => PlaceInv
<1> SUFFICES ASSUME Init PROVE PlaceInv
  OBVIOUS
<1> USE DEF Init, RingInit
<1>1. /\ Ready = {} /\ Holders = {} /\ Unhandled = {} /\ inKernel = {} /\ active = {} /\ ran = {}
      /\ \A t \in Threads : ~Filling(t) /\ step[t] = "none"
  BY DEF Ready, InQueue, Holders, Unhandled, Filling
<1>2. IdsInv /\ PlacesInv /\ OnceInv /\ ApartInv /\ FillInv
  BY <1>1 DEF IdsInv, PlacesInv, OnceInv, ApartInv, FillInv
<1>3. SlotInv
  BY DEF SlotInv
<1> QED BY <1>2, <1>3 DEF PlaceInv

\* Steps that leave the ring's contents alone, and the threads that hold a slot.
LEMMA PlaceUnchanged ==
  ASSUME PlaceInv, UNCHANGED <<sq, free, sqes, active, nextId, inKernel, cq, seen, ran, early>>,
         \A u \in Threads :
           \/ step'[u] = step[u] /\ want'[u] = want[u] /\ cell'[u] = cell[u] /\ reqId'[u] = reqId[u]
           \/ ~Filling(u) /\ ~Filling(u)'
  PROVE  PlaceInv'
<1>1. \A u \in Threads : /\ Filling(u)' <=> Filling(u)
                        /\ Filling(u) => /\ step'[u] = step[u] /\ want'[u] = want[u]
                                         /\ cell'[u] = cell[u] /\ reqId'[u] = reqId[u]
  BY DEF Filling
<1>2. \A u \in Threads : step[u] \in {"prepared", "registered"} => Filling(u)
  BY DEF Filling
<1>2a. \A u \in Threads : step'[u] \in {"prepared", "registered"} => Filling(u)'
  BY DEF Filling
<1>3. Ready' = Ready /\ Unhandled' = Unhandled
  <2>1. \A c : Busy(c)' <=> Busy(c)
    BY <1>1 DEF Busy, Filling
  <2>2. \A c : InQueue(c)' <=> InQueue(c)
    BY DEF InQueue
  <2> QED BY <2>1, <2>2 DEF Ready, Unhandled
<1>4. /\ Holders' = Holders
      /\ \A t \in Holders : Held(t)' = Held(t) /\ reqId'[t] = reqId[t]
  BY <1>1, <1>2, <1>2a DEF Holders, Held
<1>5. IdsInv' /\ SlotInv'
  BY DEF PlaceInv, IdsInv, SlotInv
<1>6. ~early => FillInv'
  <2> SUFFICES ASSUME ~early PROVE FillInv'
    OBVIOUS
  <2>0. FillInv
    BY DEF PlaceInv
  <2>1. \A u \in Threads : Filling(u)' => InQueue(cell[u])'
    BY <1>1, <2>0 DEF FillInv, InQueue, Filling
  <2>2. \A u, v \in Threads : Filling(u)' /\ Filling(v)' /\ cell'[u] = cell'[v] => u = v
    BY <1>1, <2>0 DEF FillInv, Filling
  <2>3. \A u \in Threads : step'[u] \in {"prepared", "registered"} => sqes'[cell'[u]].op = want'[u]
    BY <1>1, <1>2, <1>2a DEF PlaceInv, FillInv
  <2>4. \A u \in Threads : Filling(u)' => cell'[u] = cell[u]
    BY <1>1
  <2> QED BY <2>1, <2>2, <2>3, <2>4 DEF FillInv
<1>7. ~early => PlacesInv' /\ OnceInv' /\ ApartInv'
  BY <1>3, <1>4 DEF PlaceInv, PlacesInv, OnceInv, ApartInv, Entry, Task
<1> QED BY <1>5, <1>6, <1>7 DEF PlaceInv

-----------------------------------------------------------------------------
\* The tail is advanced: the slot at the head of the free ones belongs to t.
LEMMA PlaceAdvanceTail ==
  ASSUME SafeRing, ~corrupt, NEW t \in Threads, AdvanceTail(t)
  PROVE  PlaceInv'
<1> DEFINE new == cell[t]
<1>1. /\ sq \in Seq(Slots) /\ free \in Seq(Slots) /\ free # <<>> /\ new = Head(free)
      /\ step \in [Threads -> Steps] /\ step[t] = "claimed"
  BY DEF SafeRing, TypeInv, TypeOK, RingTypeOK, Shape, AdvanceTail
<1>2. /\ sq' = Append(sq, new) /\ free' = Tail(free) /\ step' = [step EXCEPT ![t] = "advanced"]
      /\ UNCHANGED <<want, cell, reqId, sqes, active, nextId, inKernel, cq, seen, ran, early>>
  BY DEF AdvanceTail, loopVars, tableVars, kernelVars, historyVars
<1>3. /\ \A k \in DOMAIN sq' : \/ k \in DOMAIN sq /\ sq'[k] = sq[k]
                               \/ k = Len(sq) + 1 /\ sq'[k] = new
      /\ \A k \in DOMAIN sq : k \in DOMAIN sq' /\ sq'[k] = sq[k]
      /\ Len(sq) + 1 \in DOMAIN sq' /\ sq'[Len(sq) + 1] = new
  BY <1>1, <1>2
<1>4. /\ \A k \in DOMAIN free' : k \in Nat /\ k + 1 \in DOMAIN free /\ free'[k] = free[k + 1] /\ k + 1 # 1
      /\ 1 \in DOMAIN free /\ free[1] = new
  BY <1>1, <1>2
<1> HIDE DEF new
<1>5. \A k \in DOMAIN sq : sq[k] # new
  BY <1>4 DEF SafeRing, PlaceInv, SlotInv
<1>6. \A k \in DOMAIN free' : free'[k] # new
  BY <1>4 DEF SafeRing, PlaceInv, SlotInv
<1>7. SlotInv'
  <2>1. \A j, k \in DOMAIN sq' : sq'[j] = sq'[k] => j = k
    BY <1>3, <1>5 DEF SafeRing, PlaceInv, SlotInv
  <2>2. \A j, k \in DOMAIN free' : free'[j] = free'[k] => j = k
    BY <1>4 DEF SafeRing, PlaceInv, SlotInv
  <2>3. \A j \in DOMAIN sq', k \in DOMAIN free' : sq'[j] # free'[k]
    BY <1>3, <1>4, <1>6 DEF SafeRing, PlaceInv, SlotInv
  <2> QED BY <2>1, <2>2, <2>3 DEF SlotInv
<1>8. IdsInv'
  BY <1>2 DEF SafeRing, PlaceInv, IdsInv
<1> SUFFICES ASSUME ~early PROVE FillInv' /\ PlacesInv' /\ OnceInv' /\ ApartInv'
  BY <1>2, <1>7, <1>8 DEF PlaceInv
<1>9. /\ \A u \in Threads : Filling(u)' <=> Filling(u) \/ u = t
      /\ \A u \in Threads : Filling(u) => cell[u] # new /\ u # t
      /\ \A u \in Threads : step'[u] \in {"prepared", "registered"} <=> step[u] \in {"prepared", "registered"}
  BY <1>1, <1>2, <1>5 DEF Filling, SafeRing, PlaceInv, FillInv, InQueue
<1>10. FillInv'
  <2>1. \A u \in Threads : Filling(u)' => InQueue(cell[u])'
    BY <1>2, <1>3, <1>9 DEF SafeRing, PlaceInv, FillInv, InQueue, new
  <2>2. \A u, v \in Threads : Filling(u)' /\ Filling(v)' /\ cell'[u] = cell'[v] => u = v
    BY <1>2, <1>9 DEF SafeRing, PlaceInv, FillInv, new
  <2>3. \A u \in Threads : step'[u] \in {"prepared", "registered"} => sqes'[cell'[u]].op = want'[u]
    BY <1>2, <1>9 DEF SafeRing, PlaceInv, FillInv
  <2> QED BY <2>1, <2>2, <2>3 DEF FillInv
<1>11. Ready' = Ready
  <2>1. \A c : Busy(c)' <=> Busy(c) \/ c = new
    BY <1>2, <1>9 DEF Busy, new
  <2>2. \A c : InQueue(c)' <=> InQueue(c) \/ c = new
    BY <1>3 DEF InQueue
  <2>3. ~InQueue(new)
    BY <1>5 DEF InQueue
  <2> QED BY <2>1, <2>2, <2>3 DEF Ready
<1>12. Holders' = Holders /\ Unhandled' = Unhandled /\ \A u : Held(u)' = Held(u)
  BY <1>1, <1>2 DEF Holders, Unhandled, Held
<1>13. PlacesInv' /\ OnceInv' /\ ApartInv'
  BY <1>2, <1>11, <1>12 DEF SafeRing, PlaceInv, PlacesInv, OnceInv, ApartInv, Entry, Task
<1> QED BY <1>10, <1>13

\* The operation is written into a slot nobody else looks at.
LEMMA PlacePrepare ==
  ASSUME SafeRing, NEW t \in Threads, Prepare(t)
  PROVE  PlaceInv'
<1>1. /\ step \in [Threads -> Steps] /\ step[t] = "advanced" /\ sqes \in [Slots -> Entries]
      /\ cell[t] \in Slots /\ want[t] \in Operations
      /\ step' = [step EXCEPT ![t] = "prepared"]
      /\ sqes' = [sqes EXCEPT ![cell[t]].op = want[t]]
      /\ UNCHANGED <<want, cell, reqId, sq, free, active, nextId, inKernel, cq, seen, ran, early>>
  BY DEF SafeRing, TypeInv, TypeOK, RingTypeOK, Shape, Prepare, loopVars, tableVars, kernelVars,
         historyVars, Filling
<1>2. SlotInv' /\ IdsInv'
  BY <1>1 DEF SafeRing, PlaceInv, SlotInv, IdsInv
<1> SUFFICES ASSUME ~early PROVE FillInv' /\ PlacesInv' /\ OnceInv' /\ ApartInv'
  BY <1>1, <1>2 DEF PlaceInv
<1>3. /\ Filling(t) /\ \A u \in Threads : Filling(u)' <=> Filling(u)
      /\ \A u \in Threads : Filling(u) /\ u # t => cell[u] # cell[t]
  BY <1>1 DEF Filling, SafeRing, PlaceInv, FillInv
<1>4. \A c \in Slots : c # cell[t] => sqes'[c] = sqes[c]
  BY <1>1
<1>5. sqes'[cell[t]].op = want[t]
  BY <1>1 DEF Entries
<1>6. FillInv'
  <2>1. \A u \in Threads : step'[u] \in {"prepared", "registered"} => sqes'[cell'[u]].op = want'[u]
    <3> SUFFICES ASSUME NEW u \in Threads, step'[u] \in {"prepared", "registered"}
                 PROVE  sqes'[cell[u]].op = want[u]
      BY <1>1
    <3>1. CASE u = t
      BY <1>5, <3>1
    <3>2. CASE u # t
      <4>1. step[u] \in {"prepared", "registered"} /\ Filling(u)
        BY <1>1, <3>2 DEF Filling
      <4>2. cell[u] \in Slots /\ cell[u] # cell[t]
        BY <1>3, <3>2, <4>1 DEF SafeRing, TypeInv, Shape
      <4> QED BY <1>4, <4>1, <4>2 DEF SafeRing, PlaceInv, FillInv
    <3> QED BY <3>1, <3>2
  <2>2. \A u \in Threads : Filling(u)' => InQueue(cell[u])'
    BY <1>1, <1>3 DEF SafeRing, PlaceInv, FillInv, InQueue
  <2>3. \A u, v \in Threads : Filling(u)' /\ Filling(v)' /\ cell'[u] = cell'[v] => u = v
    BY <1>1, <1>3 DEF SafeRing, PlaceInv, FillInv
  <2> QED BY <2>1, <2>2, <2>3 DEF FillInv
<1>7. Ready' = Ready /\ \A c \in Ready : sqes'[c] = sqes[c]
  <2>1. Ready' = Ready
    BY <1>1, <1>3 DEF Ready, InQueue, Busy
  <2>2. cell[t] \notin Ready
    BY <1>3 DEF Ready, Busy
  <2> QED BY <1>4, <2>1, <2>2 DEF Ready
<1>8. Holders' = Holders /\ Unhandled' = Unhandled /\ \A u : Held(u)' = Held(u)
  BY <1>1 DEF Holders, Unhandled, Held
<1>9. PlacesInv' /\ OnceInv' /\ ApartInv'
  BY <1>1, <1>7, <1>8 DEF SafeRing, PlaceInv, PlacesInv, OnceInv, ApartInv, Entry, Task
<1> QED BY <1>6, <1>9

\* A new id, held by the thread, enters the table.
LEMMA PlaceRegister ==
  ASSUME SafeRing, NEW t \in Threads, Register(t)
  PROVE  PlaceInv'
<1> DEFINE new == [op |-> want[t], id |-> nextId]
<1>1. /\ step \in [Threads -> Steps] /\ reqId \in [Threads -> Nat] /\ step[t] = "prepared"
      /\ step' = [step EXCEPT ![t] = "registered"] /\ reqId' = [reqId EXCEPT ![t] = nextId]
      /\ active' = active \cup {new} /\ nextId' = nextId + 1
      /\ UNCHANGED <<want, cell, sq, free, sqes, inKernel, cq, seen, ran, early>>
      /\ nextId \in Nat /\ new.id = nextId
  BY DEF SafeRing, TypeInv, TypeOK, RingTypeOK, Register, loopVars, queueVars, kernelVars,
         historyVars, RequestIds
<1>2. \A a \in active : a.id \in Nat /\ a.id < nextId /\ a.id # nextId
  BY <1>1 DEF SafeRing, TypeInv, TypeOK, RingTypeOK, PlaceInv, IdsInv, Requests, RequestIds
<1>3. \A id \in ran : id \in Nat /\ id < nextId /\ id # nextId
  BY <1>1 DEF SafeRing, TypeInv, TypeOK, RingTypeOK, PlaceInv, IdsInv, RequestIds
<1>4. Held(t)' = new /\ \A u \in Threads \ {t} : Held(u)' = Held(u) /\ reqId'[u] = reqId[u]
  BY <1>1 DEF Held
<1> HIDE DEF new
<1>5. IdsInv'
  BY <1>1, <1>2, <1>3 DEF SafeRing, PlaceInv, IdsInv
<1>6. SlotInv'
  BY <1>1 DEF SafeRing, PlaceInv, SlotInv
<1> SUFFICES ASSUME ~early PROVE FillInv' /\ PlacesInv' /\ OnceInv' /\ ApartInv'
  BY <1>1, <1>5, <1>6 DEF PlaceInv
<1>7. /\ \A u \in Threads : Filling(u)' <=> Filling(u)
      /\ \A u \in Threads :
           step'[u] \in {"prepared", "registered"} <=> step[u] \in {"prepared", "registered"}
  BY <1>1 DEF Filling
<1>8. FillInv'
  <2>1. \A u \in Threads : Filling(u)' => InQueue(cell[u])'
    BY <1>1, <1>7 DEF SafeRing, PlaceInv, FillInv, InQueue
  <2> QED BY <1>1, <1>7, <2>1 DEF SafeRing, PlaceInv, FillInv
<1>9. Ready' = Ready /\ Unhandled' = Unhandled
  BY <1>1, <1>7 DEF Ready, InQueue, Busy, Unhandled
<1>10. Holders' = Holders \cup {t} /\ t \notin Holders /\ Holders \subseteq Threads
  BY <1>1 DEF Holders
<1>11. /\ \A c \in Ready : sqes[c].id # nextId
       /\ \A r \in inKernel : r.id # nextId
       /\ \A k \in Unhandled : cq[k].id # nextId
       /\ \A u \in Holders : reqId[u] # nextId
  BY <1>2 DEF SafeRing, PlaceInv, PlacesInv, Entry, Task, Held
<1>12. reqId'[t] = nextId
  BY <1>1
<1>13. PlacesInv'
  BY <1>1, <1>4, <1>9, <1>10 DEF SafeRing, PlaceInv, PlacesInv, Entry, Task
<1>14. OnceInv'
  BY <1>1, <1>4, <1>9, <1>10, <1>11, <1>12 DEF SafeRing, PlaceInv, OnceInv
<1>15. ApartInv'
  BY <1>1, <1>4, <1>9, <1>10, <1>11, <1>12 DEF SafeRing, PlaceInv, ApartInv
<1> QED BY <1>8, <1>13, <1>14, <1>15

\* The id moves from the thread into its slot, which is finished.
LEMMA PlaceSetData ==
  ASSUME SafeRing, NEW t \in Threads, SetData(t)
  PROVE  PlaceInv'
<1> DEFINE mine == cell[t]
<1>1. /\ step \in [Threads -> Steps] /\ step[t] = "registered" /\ sqes \in [Slots -> Entries]
      /\ mine \in Slots
      /\ \A u \in Threads \ {t} : /\ step'[u] = step[u] /\ want'[u] = want[u]
                                  /\ cell'[u] = cell[u] /\ reqId'[u] = reqId[u]
      /\ step'[t] = "none"
      /\ sqes' = [sqes EXCEPT ![mine].id = reqId[t]]
      /\ UNCHANGED <<sq, free, active, nextId, inKernel, cq, seen, ran, early>>
  BY DEF SafeRing, TypeInv, TypeOK, RingTypeOK, Shape, SetData, Return, loopVars, tableVars,
         kernelVars, historyVars, Filling
<1>2. SlotInv' /\ IdsInv'
  BY <1>1 DEF SafeRing, PlaceInv, SlotInv, IdsInv
<1> SUFFICES ASSUME ~early PROVE FillInv' /\ PlacesInv' /\ OnceInv' /\ ApartInv'
  BY <1>1, <1>2 DEF PlaceInv
<1>3. /\ Filling(t) /\ ~Filling(t)' /\ \A u \in Threads \ {t} : Filling(u)' <=> Filling(u)
      /\ \A u \in Threads : Filling(u) /\ u # t => cell[u] # mine
      /\ InQueue(mine)
  BY <1>1 DEF Filling, SafeRing, PlaceInv, FillInv
<1>4. sqes'[mine] = Held(t)
  <2>1. sqes[mine].op = want[t]
    BY <1>1 DEF SafeRing, PlaceInv, FillInv
  <2> QED BY <1>1, <2>1 DEF Held, Entries
<1>5. \A c \in Slots : c # mine => sqes'[c] = sqes[c]
  BY <1>1
<1>6. /\ \A u \in Threads : u # t /\ Filling(u) => cell[u] \in Slots
      /\ \A u \in Threads : step[u] \in {"prepared", "registered"} => Filling(u)
  BY DEF SafeRing, TypeInv, Shape, Filling
<1>7. t \in Holders /\ Holders' = Holders \ {t} /\ Holders \subseteq Threads
  BY <1>1 DEF Holders
<1> HIDE DEF mine
<1>8. FillInv'
  <2>1. \A u \in Threads : Filling(u)' => InQueue(cell[u])'
    BY <1>1, <1>3 DEF SafeRing, PlaceInv, FillInv, InQueue
  <2>2. \A u, v \in Threads : Filling(u)' /\ Filling(v)' /\ cell'[u] = cell'[v] => u = v
    BY <1>1, <1>3 DEF SafeRing, PlaceInv, FillInv
  <2>3. \A u \in Threads : step'[u] \in {"prepared", "registered"} => sqes'[cell'[u]].op = want'[u]
    <3> SUFFICES ASSUME NEW u \in Threads, step'[u] \in {"prepared", "registered"}
                 PROVE  sqes'[cell'[u]].op = want'[u]
      OBVIOUS
    <3>1. u # t /\ step[u] \in {"prepared", "registered"}
      BY <1>1
    <3>2. cell[u] \in Slots /\ cell[u] # mine
      BY <1>3, <1>6, <3>1
    <3>3. sqes[cell[u]].op = want[u]
      BY <3>1 DEF SafeRing, PlaceInv, FillInv
    <3>4. sqes'[cell[u]] = sqes[cell[u]] /\ cell'[u] = cell[u] /\ want'[u] = want[u]
      BY <1>1, <1>5, <3>1, <3>2
    <3> QED BY <3>3, <3>4
  <2> QED BY <2>1, <2>2, <2>3 DEF FillInv
<1>9. Ready' = Ready \cup {mine} /\ mine \notin Ready
  <2>1. \A c : Busy(c)' <=> Busy(c) /\ c # mine
    BY <1>1, <1>3 DEF Busy, mine
  <2>2. \A c : InQueue(c)' <=> InQueue(c)
    BY <1>1 DEF InQueue
  <2>3. Busy(mine)
    BY <1>3 DEF Busy, mine
  <2> QED BY <1>1, <1>3, <2>1, <2>2, <2>3 DEF Ready
<1>10. \A c \in Ready : sqes'[c] = sqes[c]
  BY <1>5, <1>9 DEF Ready
<1>11. \A u \in Holders' : u # t /\ u \in Holders /\ Held(u)' = Held(u) /\ reqId'[u] = reqId[u]
  BY <1>1, <1>7 DEF Held
<1>12. sqes'[mine].id = reqId[t] /\ Unhandled' = Unhandled
  BY <1>1, <1>4 DEF Held, Unhandled
<1>13. PlacesInv'
  BY <1>1, <1>4, <1>7, <1>9, <1>10, <1>11, <1>12 DEF SafeRing, PlaceInv, PlacesInv, Entry, Task
<1>14. OnceInv /\ ApartInv
  BY DEF SafeRing, PlaceInv
<1>15. OnceInv'
  BY <1>1, <1>7, <1>9, <1>10, <1>11, <1>12, <1>14 DEF OnceInv, ApartInv
<1>16. ApartInv'
  BY <1>1, <1>7, <1>9, <1>10, <1>11, <1>12, <1>14 DEF OnceInv, ApartInv
<1> QED BY <1>8, <1>13, <1>15, <1>16

-----------------------------------------------------------------------------
\* The kernel takes the queue.  What matters is the case without an unfinished
\* entry: then every slot of the queue is ready, and no thread holds an id.
LEMMA PlaceEnter ==
  ASSUME SafeRing, Enter
  PROVE  PlaceInv'
<1> DEFINE new(k) == [op |-> sqes[sq[k]].op, id |-> sqes[sq[k]].id, nr |-> handed + k]
<1>1. /\ sq \in Seq(Slots) /\ free \in Seq(Slots) /\ sqes \in [Slots -> Entries]
      /\ inKernel' = inKernel \cup {new(k) : k \in DOMAIN sq}
      /\ sq' = <<>> /\ free' = free \o sq
      /\ early' = (early \/ \E t \in Threads : Filling(t))
      /\ UNCHANGED <<step, want, cell, reqId, sqes, active, nextId, cq, seen, ran>>
  BY DEF SafeRing, TypeInv, TypeOK, RingTypeOK, Enter, submitVars, threadVars, tableVars
<1>2. \A k \in DOMAIN free' :
        \/ k \in DOMAIN free /\ free'[k] = free[k]
        \/ k - Len(free) \in DOMAIN sq /\ free'[k] = sq[k - Len(free)] /\ k \in Nat
             /\ k = Len(free) + (k - Len(free))
  BY <1>1
<1>3. SlotInv'
  <2>1. DOMAIN sq' = {}
    BY <1>1
  <2>2. \A j, k \in DOMAIN free' : free'[j] = free'[k] => j = k
    BY <1>2 DEF SafeRing, PlaceInv, SlotInv
  <2> QED BY <2>1, <2>2 DEF SlotInv
<1>4. IdsInv'
  BY <1>1 DEF SafeRing, PlaceInv, IdsInv
<1> SUFFICES ASSUME ~early' PROVE FillInv' /\ PlacesInv' /\ OnceInv' /\ ApartInv'
  BY <1>3, <1>4 DEF PlaceInv
<1>5. /\ ~early /\ \A t \in Threads : ~Filling(t) /\ ~Filling(t)'
      /\ \A t \in Threads : step'[t] \notin {"prepared", "registered"}
      /\ Holders = {} /\ Holders' = {} /\ Ready' = {} /\ Unhandled' = Unhandled
  <2>1. ~early /\ \A t \in Threads : ~Filling(t) /\ step[t] \notin {"prepared", "registered"}
    BY <1>1 DEF Filling
  <2>2. /\ \A t \in Threads : ~Filling(t)' /\ step'[t] \notin {"prepared", "registered"}
        /\ Holders = {} /\ Holders' = {}
    BY <1>1, <2>1 DEF Filling, Holders
  <2>3. DOMAIN sq' = {}
    BY <1>1
  <2>4. Ready' = {}
    BY <2>3 DEF Ready, InQueue
  <2>5. Unhandled' = Unhandled
    BY <1>1 DEF Unhandled
  <2> QED BY <2>1, <2>2, <2>4, <2>5
<1>6. FillInv'
  BY <1>5 DEF FillInv
<1>7. \A k \in DOMAIN sq : sq[k] \in Ready /\ sq[k] \in Slots
  BY <1>1, <1>5 DEF Ready, InQueue, Busy
<1>8. \A k \in DOMAIN sq : /\ Task(new(k)) = sqes[sq[k]] /\ new(k).id = sqes[sq[k]].id
                          /\ new(k).op = sqes[sq[k]].op
  BY <1>1, <1>7 DEF Task, Entries
<1> HIDE DEF new
<1>9. OnceInv /\ ApartInv /\ PlacesInv /\ SlotInv
  BY <1>5 DEF SafeRing, PlaceInv
<1>10. PlacesInv'
  BY <1>1, <1>5, <1>7, <1>8, <1>9 DEF PlacesInv, Entry
<1>11. OnceInv'
  <2>1. \A j, k \in DOMAIN sq : new(j).id = new(k).id => new(j) = new(k)
    BY <1>7, <1>8, <1>9 DEF OnceInv, SlotInv
  <2>2. \A k \in DOMAIN sq, r \in inKernel : new(k).id # r.id
    BY <1>7, <1>8, <1>9 DEF ApartInv
  <2>3. \A q, r \in inKernel' : q.id = r.id => q = r
    BY <1>1, <1>9, <2>1, <2>2 DEF OnceInv
  <2> QED BY <1>1, <1>5, <1>9, <2>3 DEF OnceInv
<1>12. ApartInv'
  <2>1. \A r \in inKernel', k \in Unhandled : r.id # cq[k].id
    BY <1>1, <1>7, <1>8, <1>9 DEF ApartInv
  <2> QED BY <1>1, <1>5, <2>1 DEF ApartInv
<1> QED BY <1>6, <1>10, <1>11, <1>12

\* The completion handled next leaves the table with its callback.
LEMMA PlaceNext ==
  ASSUME SafeRing, NextCompletion
  PROVE  PlaceInv'
<1> DEFINE id == cq[seen + 1].id
<1>1. /\ seen + 1 \in Unhandled /\ Unhandled' = Unhandled \ {seen + 1}
      /\ active' = {a \in active : a.id # id}
      /\ ran' = ran \/ (ran' = ran \cup {id} /\ \E a \in active : a.id = id)
      /\ UNCHANGED <<nextId, inKernel, cq, sq, free, sqes, step, want, cell, reqId, early>>
  BY DEF NextCompletion, CallBack, Registered, Unhandled, SafeRing, TypeInv, TypeOK, RingTypeOK,
         kernelVars, queueVars, submitVars, threadVars, historyVars
<1> HIDE DEF id
<1>2. IdsInv'
  <2>1. IdsInv
    BY DEF SafeRing, PlaceInv
  <2>2. \A a \in active' : a \in active /\ a.id # id
    BY <1>1
  <2>3. \A i \in ran' : i \in ran \/ i = id
    BY <1>1
  <2>4. \A i \in ran' : i < nextId
    BY <1>1, <2>1 DEF IdsInv
  <2>5. \A a \in active' : a.id < nextId' /\ a.id \notin ran'
    BY <1>1, <2>1, <2>2, <2>3 DEF IdsInv
  <2> QED BY <1>1, <2>1, <2>2, <2>4, <2>5 DEF IdsInv
<1>3. SlotInv'
  BY <1>1 DEF SafeRing, PlaceInv, SlotInv
<1> SUFFICES ASSUME ~early PROVE FillInv' /\ PlacesInv' /\ OnceInv' /\ ApartInv'
  BY <1>1, <1>2, <1>3 DEF PlaceInv
<1>4. FillInv /\ PlacesInv /\ OnceInv /\ ApartInv
  BY DEF SafeRing, PlaceInv
<1>5. FillInv'
  BY <1>1, <1>4 DEF FillInv, Filling, InQueue
<1>6. Ready' = Ready /\ Holders' = Holders /\ \A t : Held(t)' = Held(t)
  BY <1>1 DEF Ready, InQueue, Busy, Filling, Holders, Held
<1>7. /\ \A c \in Ready : sqes[c].id # id
      /\ \A r \in inKernel : r.id # id
      /\ \A k \in Unhandled' : cq[k].id # id
      /\ \A t \in Holders : reqId[t] # id
  BY <1>1, <1>4 DEF OnceInv, ApartInv, id
<1>8. PlacesInv'
  <2>1. \A c \in Ready : sqes[c] \in active'
    BY <1>1, <1>4, <1>7 DEF PlacesInv
  <2>2. \A r \in inKernel : Task(r) \in active'
    BY <1>1, <1>4, <1>7 DEF PlacesInv, Task
  <2>3. \A k \in Unhandled' : Entry(k) \in active'
    BY <1>1, <1>4, <1>7 DEF PlacesInv, Entry
  <2>4. \A t \in Holders : Held(t) \in active'
    BY <1>1, <1>4, <1>7 DEF PlacesInv, Held
  <2> QED BY <1>1, <1>6, <2>1, <2>2, <2>3, <2>4 DEF PlacesInv, Entry
<1>9. OnceInv' /\ ApartInv'
  BY <1>1, <1>4, <1>6 DEF OnceInv, ApartInv
<1> QED BY <1>5, <1>8, <1>9

LEMMA PlaceAdvance ==
  ASSUME SafeRing, Advance
  PROVE  PlaceInv'
<1>1. /\ cq \in Seq(Completions) /\ seen \in Nat /\ seen <= Len(cq)
      /\ cq' = SubSeq(cq, seen + 1, Len(cq)) /\ seen' = 0
      /\ UNCHANGED <<sq, free, sqes, step, want, cell, reqId, active, nextId, inKernel, ran, early>>
  BY DEF Advance, tableVars, queueVars, submitVars, threadVars, historyVars, SafeRing, TypeInv,
         TypeOK, RingTypeOK, Shape
<1>2. /\ Len(cq') = Len(cq) - seen
      /\ \A k \in 1 .. Len(cq') : cq'[k] = cq[seen + k] /\ seen + k \in seen + 1 .. Len(cq)
  BY <1>1
<1>3. \A k \in Unhandled' : /\ k \in Nat /\ seen + k \in Unhandled /\ cq'[k] = cq[seen + k]
  BY <1>1, <1>2 DEF Unhandled
<1>4. IdsInv' /\ SlotInv'
  BY <1>1 DEF SafeRing, PlaceInv, IdsInv, SlotInv
<1> SUFFICES ASSUME ~early PROVE FillInv' /\ PlacesInv' /\ OnceInv' /\ ApartInv'
  BY <1>1, <1>4 DEF PlaceInv
<1>5. FillInv /\ PlacesInv /\ OnceInv /\ ApartInv
  BY DEF SafeRing, PlaceInv
<1>6. FillInv'
  BY <1>1, <1>5 DEF FillInv, Filling, InQueue
<1>7. Ready' = Ready /\ Holders' = Holders /\ \A t : Held(t)' = Held(t)
  BY <1>1 DEF Ready, InQueue, Busy, Filling, Holders, Held
<1>8. PlacesInv'
  BY <1>1, <1>3, <1>5, <1>7 DEF PlacesInv, Entry
<1>9. \A j, k \in Unhandled' : cq'[j].id = cq'[k].id => j = k
  <2> SUFFICES ASSUME NEW j \in Unhandled', NEW k \in Unhandled', cq'[j].id = cq'[k].id
               PROVE  j = k
    OBVIOUS
  <2>1. /\ j \in Nat /\ k \in Nat /\ seen + j \in Unhandled /\ seen + k \in Unhandled
        /\ cq[seen + j].id = cq[seen + k].id
    BY <1>3
  <2>2. seen + j = seen + k
    BY <1>5, <2>1 DEF OnceInv
  <2> QED BY <1>1, <2>1, <2>2
<1>10. OnceInv'
  BY <1>1, <1>5, <1>7, <1>9 DEF OnceInv
<1>11. ASSUME NEW k \in Unhandled'
       PROVE  /\ \A c \in Ready : sqes[c].id # cq'[k].id
              /\ \A r \in inKernel : r.id # cq'[k].id
              /\ \A t \in Holders : cq'[k].id # reqId[t]
  <2>1. seen + k \in Unhandled /\ cq'[k].id = cq[seen + k].id
    BY <1>3, <1>11
  <2> QED BY <1>5, <2>1 DEF ApartInv
<1>12. ApartInv'
  BY <1>1, <1>5, <1>7, <1>11 DEF ApartInv
<1> QED BY <1>6, <1>8, <1>10, <1>12

LEMMA PlaceComplete ==
  ASSUME SafeRing, NEW r, NEW res, Complete(r, res)
  PROVE  PlaceInv'
<1> DEFINE new == [op |-> r.op, id |-> r.id, res |-> res]
<1>1. /\ r \in inKernel /\ inKernel' = inKernel \ {r} /\ cq' = Append(cq, new)
      /\ UNCHANGED <<sq, free, sqes, step, want, cell, reqId, active, nextId, seen, ran, early>>
      /\ new.op = r.op /\ new.id = r.id /\ cq \in Seq(Completions) /\ seen \in Nat
      /\ seen <= Len(cq)
  BY DEF Complete, loopVars, tableVars, queueVars, submitVars, threadVars, historyVars, SafeRing,
         TypeInv, TypeOK, RingTypeOK, Shape
<1>2. \A k \in Unhandled' :
        \/ k \in Unhandled /\ cq'[k] = cq[k]
        \/ k = Len(cq) + 1 /\ cq'[k] = new
  BY <1>1 DEF Unhandled
<1>3. IdsInv' /\ SlotInv'
  BY <1>1 DEF SafeRing, PlaceInv, IdsInv, SlotInv
<1> HIDE DEF new
<1> SUFFICES ASSUME ~early PROVE FillInv' /\ PlacesInv' /\ OnceInv' /\ ApartInv'
  BY <1>1, <1>3 DEF PlaceInv
<1>4. FillInv /\ PlacesInv /\ OnceInv /\ ApartInv
  BY DEF SafeRing, PlaceInv
<1>5. FillInv'
  BY <1>1, <1>4 DEF FillInv, Filling, InQueue
<1>6. Ready' = Ready /\ Holders' = Holders /\ \A t : Held(t)' = Held(t)
  BY <1>1 DEF Ready, InQueue, Busy, Filling, Holders, Held
<1>7. ASSUME NEW k \in Unhandled'
      PROVE  \/ k \in Unhandled /\ cq'[k].id = cq[k].id /\ Entry(k)' = Entry(k)
             \/ k = Len(cq) + 1 /\ cq'[k].id = r.id /\ Entry(k)' = Task(r)
  <2>1. CASE k \in Unhandled /\ cq'[k] = cq[k]
    BY <2>1 DEF Entry
  <2>2. CASE k = Len(cq) + 1 /\ cq'[k] = new
    BY <1>1, <2>2 DEF Entry, Task
  <2> QED BY <1>2, <2>1, <2>2
<1>12. \A q \in inKernel' : q \in inKernel /\ q.id # r.id
  BY <1>1, <1>4 DEF OnceInv
<1>13. Task(r) \in active /\ (\A k \in Unhandled : cq[k].id # r.id)
  BY <1>1, <1>4 DEF PlacesInv, ApartInv
<1>8. PlacesInv'
  <2>1. \A k \in Unhandled' : Entry(k)' \in active
    BY <1>4, <1>7, <1>13 DEF PlacesInv
  <2> QED BY <1>1, <1>4, <1>6, <1>12, <2>1 DEF PlacesInv, Task
<1>9. ASSUME NEW j \in Unhandled', NEW k \in Unhandled', cq'[j].id = cq'[k].id
      PROVE  j = k
  <2>1. CASE j \in Unhandled /\ k \in Unhandled /\ cq'[j].id = cq[j].id /\ cq'[k].id = cq[k].id
    BY <1>4, <1>9, <2>1 DEF OnceInv
  <2>2. CASE j = Len(cq) + 1 /\ k = Len(cq) + 1
    BY <2>2
  <2> QED BY <1>7, <1>9, <1>13, <2>1, <2>2
<1>10. OnceInv'
  BY <1>1, <1>4, <1>6, <1>9 DEF OnceInv
<1>11. ApartInv'
  <2>1. /\ \A c \in Ready, q \in inKernel : sqes[c].id # q.id
        /\ \A t \in Holders, q \in inKernel : q.id # reqId[t]
    BY <1>4 DEF ApartInv
  <2>2. ASSUME NEW k \in Unhandled'
        PROVE  /\ \A c \in Ready : sqes[c].id # cq'[k].id
               /\ \A q \in inKernel' : q.id # cq'[k].id
               /\ \A t \in Holders : cq'[k].id # reqId[t]
    <3>1. CASE k \in Unhandled /\ cq'[k].id = cq[k].id
      BY <1>4, <1>12, <3>1 DEF ApartInv
    <3>2. CASE cq'[k].id = r.id
      BY <1>1, <1>12, <2>1, <3>2
    <3> QED BY <1>7, <3>1, <3>2
  <2> QED BY <1>1, <1>4, <1>6, <1>12, <2>2 DEF ApartInv
<1> QED BY <1>5, <1>8, <1>10, <1>11

LEMMA PlaceStep ==
  ASSUME SafeRing, Next
  PROVE  PlaceInv'
<1> USE DEF ringVars, loopVars, submitVars, threadVars, queueVars, tableVars, kernelVars, historyVars
<1>0. PlaceInv /\ step \in [Threads -> Steps] /\ cell \in [Threads -> 0 .. Depth]
      /\ want \in [Threads -> Operations \cup {None}] /\ reqId \in [Threads -> Nat]
  BY DEF SafeRing, TypeInv, TypeOK, RingTypeOK
<1>1. ASSUME NEW t \in Threads, NEW op, BeginSubmit(t, op),
             UNCHANGED <<sq, free, sqes, active, nextId, inKernel, cq, seen, ran, early>>
      PROVE  PlaceInv'
  BY <1>0, <1>1, PlaceUnchanged DEF BeginSubmit, Filling
<1>2. ASSUME UNCHANGED <<sq, free, sqes, active, nextId, inKernel, cq, seen, ran, early>>,
             UNCHANGED <<step, want, cell, reqId>>
      PROVE  PlaceInv'
  BY <1>0, <1>2, PlaceUnchanged
<1>3. ASSUME NEW t \in Threads, AppStep(t) PROVE PlaceInv'
  BY <1>1, <1>2, <1>3 DEF AppStep, OpenInternal, CloseInternal, SendFrame, Stop
<1>4. ASSUME NEW t \in Threads, ThreadStep(t) PROVE PlaceInv'
  <2>1. CASE AdvanceTail(t) \/ Prepare(t) \/ Register(t) \/ SetData(t)
    BY <2>1, PlaceAdvanceTail, PlacePrepare, PlaceRegister, PlaceSetData DEF Next
  <2>2. CASE QueueFull(t)
    BY <1>0, <2>2, PlaceUnchanged DEF QueueFull, Return, Filling
  <2>3. CASE ReadTail(t)
    BY <1>0, <2>3, PlaceUnchanged DEF ReadTail, Filling
  <2> QED BY <1>4, <2>1, <2>2, <2>3 DEF ThreadStep, SubmitStep
<1>5. CASE LoopStep
  <2>1. CASE RunCheck \/ WaitReturns \/ BatchEnds
    BY <1>2, <2>1 DEF RunCheck, WaitReturns, BatchEnds
  <2>2. CASE WriteCallback \/ DeliverFrame \/ DeliverError
    BY <1>2, <2>2 DEF WriteCallback, DeliverFrame, DeliverError
  <2>3. CASE Repost
    BY <1>1, <1>2, <2>3 DEF Repost, Threads
  <2> QED BY <1>5, <2>1, <2>2, <2>3, PlaceEnter, PlaceNext, PlaceAdvance
          DEF LoopStep, RunStep, CallbackStep
<1>6. CASE RunStart \/ WaitInterrupted
  BY <1>2, <1>6 DEF RunStart, WaitInterrupted
<1>7. CASE KernelStep
  BY <1>7, PlaceComplete
     DEF KernelStep, ReadCompletes, ReadReturnsNothing, WriteCompletes, NothingCompletes
<1>8. ASSUME NEW i \in Ifaces, DeviceDelivers(i) PROVE PlaceInv'
  BY <1>2, <1>8 DEF DeviceDelivers
<1> QED BY <1>3, <1>4, <1>5, <1>6, <1>7, <1>8 DEF Next, UserCallback, Threads

LEMMA RingInvariance == Spec => []SafeRing
<1>1. SafeRing /\ [Next]_vars => SafeRing'
  <2>1. SafeRing /\ UNCHANGED vars => SafeRing'
    BY PlaceUnchanged
       DEF vars, ringVars, ifaceVars, loopVars, submitVars, threadVars, queueVars, tableVars,
           kernelVars, historyVars, frameVars, SafeRing, TypeInv, TypeOK, Shape, RingTypeOK,
           IfaceTypeOK, InCallback, Filling
  <2> QED BY <2>1, RingTypeStep, PlaceStep DEF SafeRing
<1>2. Init => SafeRing
  BY RingTypeInit, PlaceInit DEF SafeRing
<1> QED BY <1>1, <1>2, PTL DEF Spec

\* A callback is run at most once: it leaves m_active_requests with its id, and
\* while no unfinished entry was taken nothing in the ring carries that id any
\* more, whichever threads submit while run() handles a batch.
THEOREM CallbacksRunOnce == Spec => []CallbackRunsOnce
<1>1. SafeRing => CallbackRunsOnce
  <2> SUFFICES ASSUME SafeRing, NEW id \in ran
               PROVE  /\ Registered(id) = {}
                      /\ ~early => \A r \in Finished \cup inKernel \cup Unseen : r.id # id
    BY DEF CallbackRunsOnce
  <2>1. \A a \in active : a.id # id
    BY DEF SafeRing, PlaceInv, IdsInv
  <2>2. ASSUME ~early PROVE \A r \in Finished \cup inKernel \cup Unseen : r.id # id
    <3>0. PlacesInv
      BY <2>2 DEF SafeRing, PlaceInv
    <3>1. ASSUME NEW r \in Finished PROVE \E c \in Ready : r = sqes[c]
      <4>1. PICK j \in DOMAIN sq : sq[j] \notin Unfinished /\ r = sqes[sq[j]]
        BY DEF Finished
      <4>2. sq[j] \in Slots
        BY DEF SafeRing, TypeInv, TypeOK, RingTypeOK
      <4>3. ~Busy(sq[j]) /\ InQueue(sq[j])
        BY <4>1 DEF Busy, Unfinished, InQueue
      <4> QED BY <4>1, <4>2, <4>3 DEF Ready
    <3>2. \A r \in Finished : r.id # id
      BY <2>1, <3>0, <3>1 DEF PlacesInv
    <3>3. \A r \in inKernel : r.id # id
      BY <2>1, <3>0 DEF PlacesInv, Task
    <3>4. \A k \in Unhandled : cq[k].id # id
      BY <2>1, <3>0 DEF PlacesInv, Entry
    <3> QED BY <3>2, <3>3, <3>4 DEF Unseen, Unhandled
  <2> QED BY <2>1, <2>2 DEF Registered
<1> QED BY <1>1, RingInvariance, PTL

\* Every completion run() handles finds the callback of its own request, for any
\* number of threads that register callbacks side by side, unless run() handed an
\* entry over before its thread had set its user_data (`early`): the warning of
\* run() has no other cause.
THEOREM CompletionsFindTheirCallback == Spec => []CompletionFindsItsCallback
<1>1. SafeRing => CompletionFindsItsCallback
  <2> SUFFICES ASSUME SafeRing, ~early, NEW k \in Unhandled
               PROVE  Registered(cq[k].id) = {[op |-> cq[k].op, id |-> cq[k].id]}
    BY DEF CompletionFindsItsCallback, Unseen, Unhandled
  <2>1. Entry(k) \in active /\ Entry(k).id = cq[k].id
    BY DEF SafeRing, PlaceInv, PlacesInv, Entry
  <2>2. \A a \in active : a.id = cq[k].id => a = Entry(k)
    BY <2>1 DEF SafeRing, PlaceInv, IdsInv
  <2> QED BY <2>1, <2>2 DEF Registered, Entry
<1> QED BY <1>1, RingInvariance, PTL
=============================================================================
