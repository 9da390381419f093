--------------------------- MODULE UringManager ---------------------------
(***************************************************************************)
(* HyComm/Detail/UringManager: one io_uring instance.  submit_read and     *)
(* submit_write, called by any thread, put an entry into the submission    *)
(* queue and its callback into m_active_requests; run(), on one thread     *)
(* (Loop), hands the entries to the kernel, waits for completions and runs *)
(* their callbacks, which may submit again; stop() clears a flag.          *)
(*                                                                         *)
(* The queues are liburing's and the kernel's (external).  The submission  *)
(* queue is a ring of Depth slots: `sq` holds the slots between head and   *)
(* tail, `free` the others in the order in which they come up again.       *)
(* get_sqe reads the tail and advances it, and only then is the slot       *)
(* filled: the operation, later the id.  io_uring_submit hands over what   *)
(* the slots hold at that moment, so an entry that its thread has not      *)
(* finished (`early`) is executed with what the slot held before.          *)
(* Two threads between reading and advancing the tail race on a plain      *)
(* integer; nothing is known of the ring after that: the model records it  *)
(* in `corrupt` and stops.                                                 *)
(*                                                                         *)
(* Where run() stands (`lpc`):                                             *)
(*   off, ended     not called, returned; terminated: left by an exception *)
(*   check          before the test of m_is_running                        *)
(*   enter, wait    in io_uring_submit_and_wait                            *)
(*   next           at the head of the loop over the completions           *)
(*   call, repost   in a callback, see GenericInterface                    *)
(*   advance        before io_uring_cq_advance                             *)
(***************************************************************************)
EXTENDS Naturals, Sequences

CONSTANTS
  Apps,       \* application threads
  Loop,       \* the thread that calls run()
  Ifaces,     \* interfaces on this ring
  Depth,      \* queue_depth
  MaxFrames,  \* bound: frames one device delivers
  MaxWork,    \* bound: submissions of the application and completed reads
  None        \* no operation, no completion

Threads == Apps \cup {Loop}

Operations == [kind: {"read", "write"}, iface: Ifaces]

\* cqe->res; the frame a successful read stored is added to tell it from others.
Results == [kind: {"ok", "eof", "error"}, frame: 0 .. MaxFrames]

RequestIds == Nat \ {0}

Requests == [op: Operations, id: RequestIds]

\* A slot of the submission queue; None is the no-op of a slot never used.
Slots == 1 .. Depth

Entries == [op: Operations \cup {None}, id: Nat]

\* An entry the kernel works on; `nr` counts the entries handed over.
Taken == [op: Operations \cup {None}, id: Nat, nr: Nat]

Completions == [op: Operations \cup {None}, id: Nat, res: Results]

\* A callback that runs: what it was registered for, and the result it is given.
Calls == [op: Operations, id: Nat, res: Results]

ASSUME RingAssumption ==
  /\ Loop \notin Apps
  /\ Depth \in Nat \ {0}
  /\ MaxFrames \in Nat
  /\ MaxWork \in Nat
  /\ None \notin Operations \cup Calls

VARIABLES
  lpc,
  running,    \* m_is_running
  step,       \* per thread: place in submit_read/submit_write, "none" outside
  want,       \* per thread: the operation it submits
  cell,       \* per thread: the slot io_uring_get_sqe gave it, 0 outside
  reqId,      \* per thread: request_id in submit_request, 0 outside
  sq,         \* slots handed out and not taken by the kernel
  free,       \* the other slots
  sqes,       \* per slot: the operation and the user_data in it
  active,     \* m_active_requests: ids with the operation their callback is for
  nextId,     \* m_next_request_id
  inKernel,   \* entries the kernel works on
  handed,     \* history: entries handed to the kernel so far
  cq,         \* completions not yet marked as seen
  seen,       \* cqe_count: completions of this batch already handled
  cur,        \* the callback that runs
  ran,        \* history: ids whose callback was run
  dropped,    \* history: operations refused by a full queue
  early,      \* history: the kernel took an entry that was not finished
  corrupt     \* history: two threads were given the same slot

loopVars == <<lpc, running, seen, cur, ran>>
threadVars == <<step, want, cell, reqId>>
submitVars == <<threadVars, dropped>>
queueVars == <<sq, free, sqes>>
tableVars == <<active, nextId>>
kernelVars == <<inKernel, handed, cq>>
historyVars == <<early, corrupt>>

ringVars == <<loopVars, submitVars, queueVars, tableVars, kernelVars, historyVars>>

Steps == {"none", "get", "claimed", "advanced", "prepared", "registered"}

\* The slot is handed out and not finished.
Filling(t) == step[t] \in {"advanced", "prepared", "registered"}

RingTypeOK ==
  /\ lpc \in {"off", "check", "enter", "wait", "next", "call", "repost", "advance",
              "ended", "terminated"}
  /\ running \in BOOLEAN
  /\ step \in [Threads -> Steps]
  /\ want \in [Threads -> Operations \cup {None}]
  /\ cell \in [Threads -> 0 .. Depth]
  /\ reqId \in [Threads -> Nat]
  /\ sq \in Seq(Slots) /\ free \in Seq(Slots)
  /\ sqes \in [Slots -> Entries]
  /\ active \in SUBSET Requests
  /\ nextId \in RequestIds
  /\ inKernel \in SUBSET Taken
  /\ handed \in Nat
  /\ cq \in Seq(Completions)
  /\ seen \in Nat
  /\ cur \in Calls \cup {None}
  /\ ran \in SUBSET RequestIds
  /\ dropped \in SUBSET Operations
  /\ early \in BOOLEAN /\ corrupt \in BOOLEAN

RingInit ==
  /\ lpc = "off" /\ running = FALSE
  /\ step = [t \in Threads |-> "none"]
  /\ want = [t \in Threads |-> None]
  /\ cell = [t \in Threads |-> 0]
  /\ reqId = [t \in Threads |-> 0]
  /\ sq = <<>> /\ free = [k \in Slots |-> k]
  /\ sqes = [k \in Slots |-> [op |-> None, id |-> 0]]
  /\ active = {} /\ nextId = 1
  /\ inKernel = {} /\ handed = 0 /\ cq = <<>> /\ seen = 0
  /\ cur = None
  /\ ran = {} /\ dropped = {} /\ early = FALSE /\ corrupt = FALSE

-----------------------------------------------------------------------------
\* submit_read and submit_write are called.
BeginSubmit(t, op) ==
  /\ step[t] = "none"
  /\ step' = [step EXCEPT ![t] = "get"]
  /\ want' = [want EXCEPT ![t] = op]
  /\ UNCHANGED <<cell, reqId>>

Return(t) ==
  /\ step' = [step EXCEPT ![t] = "none"]
  /\ want' = [want EXCEPT ![t] = None]
  /\ cell' = [cell EXCEPT ![t] = 0]
  /\ reqId' = [reqId EXCEPT ![t] = 0]

\* io_uring_get_sqe finds the queue full: the operation and its callback are
\* dropped with a message on stderr.
QueueFull(t) ==
  /\ step[t] = "get" /\ free = <<>>
  /\ Return(t)
  /\ dropped' = dropped \cup {want[t]}
  /\ UNCHANGED <<loopVars, queueVars, tableVars, kernelVars, historyVars>>

\* io_uring_get_sqe reads the tail ...
ReadTail(t) ==
  /\ step[t] = "get" /\ free # <<>>
  /\ cell' = [cell EXCEPT ![t] = Head(free)]
  /\ corrupt' = \E u \in Threads : step[u] = "claimed"
  /\ step' = [step EXCEPT ![t] = "claimed"]
  /\ UNCHANGED <<loopVars, want, reqId, dropped, queueVars, tableVars, kernelVars, early>>

\* ... and advances it: the slot, with what it held before, is in the queue.
AdvanceTail(t) ==
  /\ step[t] = "claimed"
  /\ sq' = Append(sq, cell[t])
  /\ free' = Tail(free)
  /\ step' = [step EXCEPT ![t] = "advanced"]
  /\ UNCHANGED <<loopVars, want, cell, reqId, dropped, sqes, tableVars, kernelVars, historyVars>>

\* io_uring_prep_read, io_uring_prep_write: user_data stays as it was.
Prepare(t) ==
  /\ step[t] = "advanced"
  /\ sqes' = [sqes EXCEPT ![cell[t]].op = want[t]]
  /\ step' = [step EXCEPT ![t] = "prepared"]
  /\ UNCHANGED <<loopVars, want, cell, reqId, dropped, sq, free, tableVars, kernelVars,
                 historyVars>>

\* Mutant: ids are given out from 0, the user_data of a slot never filled.
RegisterFromZero(t) ==
  /\ step[t] = "prepared"
  /\ reqId' = [reqId EXCEPT ![t] = nextId - 1]
  /\ active' = active \cup {[op |-> want[t], id |-> nextId - 1]}
  /\ nextId' = nextId + 1
  /\ step' = [step EXCEPT ![t] = "registered"]
  /\ UNCHANGED <<loopVars, want, cell, dropped, queueVars, kernelVars, historyVars>>

\* submit_request registers the callback under its mutex.
Register(t) ==
  /\ step[t] = "prepared"
  /\ reqId' = [reqId EXCEPT ![t] = nextId]
  /\ active' = active \cup {[op |-> want[t], id |-> nextId]}
  /\ nextId' = nextId + 1
  /\ step' = [step EXCEPT ![t] = "registered"]
  /\ UNCHANGED <<loopVars, want, cell, dropped, queueVars, kernelVars, historyVars>>

\* Mutant: the id is read from m_next_request_id after the mutex is released.
SetDataFromCounter(t) ==
  /\ step[t] = "registered"
  /\ sqes' = [sqes EXCEPT ![cell[t]].id = nextId - 1]
  /\ Return(t)
  /\ UNCHANGED <<loopVars, dropped, sq, free, tableVars, kernelVars, historyVars>>

\* io_uring_sqe_set_data, outside the mutex: the entry is finished.
SetData(t) ==
  /\ step[t] = "registered"
  /\ sqes' = [sqes EXCEPT ![cell[t]].id = reqId[t]]
  /\ Return(t)
  /\ UNCHANGED <<loopVars, dropped, sq, free, tableVars, kernelVars, historyVars>>

SubmitStep(t) ==
  QueueFull(t) \/ ReadTail(t) \/ AdvanceTail(t) \/ Prepare(t) \/ Register(t) \/ SetData(t)

-----------------------------------------------------------------------------
\* run(), up to the loop.
RunStart ==
  /\ lpc \in {"off", "ended"}
  /\ running' = TRUE
  /\ lpc' = "check"
  /\ UNCHANGED <<seen, cur, ran, submitVars, queueVars, tableVars, kernelVars, historyVars>>

\* Mutant: the loop does not look at the flag.
RunForever ==
  /\ lpc = "check"
  /\ lpc' = "enter"
  /\ UNCHANGED <<running, seen, cur, ran, submitVars, queueVars, tableVars, kernelVars, historyVars>>

\* while (m_is_running.load())
RunCheck ==
  /\ lpc = "check"
  /\ lpc' = IF running THEN "enter" ELSE "ended"
  /\ UNCHANGED <<running, seen, cur, ran, submitVars, queueVars, tableVars, kernelVars, historyVars>>

\* io_uring_submit_and_wait: the kernel takes the entries, as they stand ...
Enter ==
  /\ lpc = "enter"
  /\ early' = (early \/ \E t \in Threads : Filling(t))
  /\ inKernel' = inKernel \cup
       {[op |-> sqes[sq[k]].op, id |-> sqes[sq[k]].id, nr |-> handed + k] : k \in DOMAIN sq}
  /\ handed' = handed + Len(sq)
  /\ sq' = <<>>
  /\ free' = free \o sq
  /\ lpc' = "wait"
  /\ UNCHANGED <<running, seen, cur, ran, submitVars, sqes, tableVars, cq, corrupt>>

\* ... and the thread blocks until there is a completion.
WaitReturns ==
  /\ lpc = "wait" /\ cq # <<>>
  /\ lpc' = "next"
  /\ UNCHANGED <<running, seen, cur, ran, submitVars, queueVars, tableVars, kernelVars, historyVars>>

\* A signal ends the wait; the result is not looked at.
WaitInterrupted ==
  /\ lpc = "wait"
  /\ lpc' = "next"
  /\ UNCHANGED <<running, seen, cur, ran, submitVars, queueVars, tableVars, kernelVars, historyVars>>

Registered(id) == {a \in active : a.id = id}

\* The callback registered for a completion is run with its result.
CallBack(cqe) ==
  \E a \in Registered(cqe.id) :
    /\ cur' = [op |-> a.op, id |-> cqe.id, res |-> cqe.res]
    /\ ran' = ran \cup {cqe.id}
    /\ lpc' = "call"

\* Mutant: the callback is copied and stays in the table.
NextCompletionKeepsCallback ==
  /\ lpc = "next" /\ seen < Len(cq)
  /\ seen' = seen + 1
  /\ CallBack(cq[seen + 1])
  /\ UNCHANGED <<running, submitVars, queueVars, tableVars, kernelVars, historyVars>>

\* io_uring_for_each_cqe: the callback is moved out of the table under the mutex
\* and is run outside it; without one there is only a warning.
NextCompletion ==
  /\ lpc = "next" /\ seen < Len(cq)
  /\ seen' = seen + 1
  /\ active' = active \ Registered(cq[seen + 1].id)
  /\ \/ CallBack(cq[seen + 1])
     \/ Registered(cq[seen + 1].id) = {} /\ UNCHANGED <<cur, ran, lpc>>
  /\ UNCHANGED <<running, submitVars, queueVars, nextId, kernelVars, historyVars>>

BatchEnds ==
  /\ lpc = "next" /\ seen = Len(cq)
  /\ lpc' = "advance"
  /\ UNCHANGED <<running, seen, cur, ran, submitVars, queueVars, tableVars, kernelVars, historyVars>>

\* Mutant: everything in the queue is marked as seen.
AdvanceAll ==
  /\ lpc = "advance"
  /\ cq' = <<>>
  /\ seen' = 0
  /\ lpc' = "check"
  /\ UNCHANGED <<running, cur, ran, submitVars, queueVars, tableVars, inKernel, handed,
                 historyVars>>

\* io_uring_cq_advance
Advance ==
  /\ lpc = "advance"
  /\ cq' = SubSeq(cq, seen + 1, Len(cq))
  /\ seen' = 0
  /\ lpc' = "check"
  /\ UNCHANGED <<running, cur, ran, submitVars, queueVars, tableVars, inKernel, handed,
                 historyVars>>

\* stop(), from any thread: nothing wakes a run() that waits.
Stop ==
  /\ running
  /\ running' = FALSE
  /\ UNCHANGED <<lpc, seen, cur, ran, submitVars, queueVars, tableVars, kernelVars, historyVars>>

\* The loop goes on when the submission of the callback has returned.
RunStep ==
  /\ step[Loop] = "none"
  /\ RunCheck \/ Enter \/ WaitReturns \/ NextCompletion \/ BatchEnds \/ Advance

-----------------------------------------------------------------------------
\* The kernel finishes an operation (external).
Complete(r, res) ==
  /\ r \in inKernel
  /\ inKernel' = inKernel \ {r}
  /\ cq' = Append(cq, [op |-> r.op, id |-> r.id, res |-> res])
  /\ UNCHANGED <<loopVars, submitVars, queueVars, tableVars, handed, historyVars>>
=============================================================================
