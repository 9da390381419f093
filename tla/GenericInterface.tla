-------------------------- MODULE GenericInterface --------------------------
(***************************************************************************)
(* HyComm/Detail/GenericInterface on a UringManager: the application opens *)
(* and closes interfaces and sends frames; an open interface keeps one     *)
(* read posted, whose callback delivers the frame in m_read_buffer to the  *)
(* user and posts the next read.  close_internal only clears the state: a  *)
(* read in flight stays there and finds out when it completes.             *)
(*                                                                         *)
(* The device behind an interface delivers the frames 1, 2, ... in order.  *)
(***************************************************************************)
EXTENDS UringManager, FiniteSets

CONSTANT MaxOpens   \* bound: times one interface is opened

ASSUME OpensAssumption == MaxOpens \in Nat

VARIABLES
  ifState,    \* m_state of each interface
  opens,      \* times each was opened
  buffer,     \* m_read_buffer: the frame stored last
  arrived,    \* frames the device has delivered
  taken,      \* frames the kernel has read
  delivered,  \* frames passed to the user's callback
  work        \* submissions of the application and completed reads so far

frameVars == <<buffer, arrived, taken, delivered>>

ifaceVars == <<ifState, opens, frameVars, work>>

vars == <<ringVars, ifaceVars>>

Frames == 0 .. MaxFrames

IfaceTypeOK ==
  /\ ifState \in [Ifaces -> {"Closed", "Open"}]
  /\ opens \in [Ifaces -> 0 .. MaxOpens]
  /\ buffer \in [Ifaces -> Frames]
  /\ arrived \in [Ifaces -> Frames]
  /\ taken \in [Ifaces -> Frames]
  /\ delivered \in [Ifaces -> Seq(Frames)]
  /\ work \in 0 .. MaxWork

IfaceInit ==
  /\ ifState = [i \in Ifaces |-> "Closed"]
  /\ opens = [i \in Ifaces |-> 0]
  /\ buffer = [i \in Ifaces |-> 0]
  /\ arrived = [i \in Ifaces |-> 0]
  /\ taken = [i \in Ifaces |-> 0]
  /\ delivered = [i \in Ifaces |-> <<>>]
  /\ work = 0

Init == RingInit /\ IfaceInit

ReadOf(i) == [kind |-> "read", iface |-> i]

WriteOf(i) == [kind |-> "write", iface |-> i]

Work == work < MaxWork /\ work' = work + 1

-----------------------------------------------------------------------------
\* Mutant: an open interface is opened again.
OpenInternalAlways(t, i) ==
  /\ opens[i] < MaxOpens /\ Work
  /\ ifState' = [ifState EXCEPT ![i] = "Open"]
  /\ opens' = IF ifState[i] = "Open" THEN opens ELSE [opens EXCEPT ![i] = @ + 1]
  /\ BeginSubmit(t, ReadOf(i))
  /\ UNCHANGED <<loopVars, dropped, queueVars, tableVars, kernelVars, historyVars,
                 frameVars>>

\* open_internal and the first post_continuous_read.
OpenInternal(t, i) ==
  /\ ifState[i] = "Closed" /\ opens[i] < MaxOpens /\ Work
  /\ ifState' = [ifState EXCEPT ![i] = "Open"]
  /\ opens' = [opens EXCEPT ![i] = @ + 1]
  /\ BeginSubmit(t, ReadOf(i))
  /\ UNCHANGED <<loopVars, dropped, queueVars, tableVars, kernelVars, historyVars,
                 frameVars>>

\* close_internal
CloseInternal(t, i) ==
  /\ step[t] = "none" /\ ifState[i] = "Open"
  /\ ifState' = [ifState EXCEPT ![i] = "Closed"]
  /\ UNCHANGED <<ringVars, opens, frameVars, work>>

\* send
SendFrame(t, i) ==
  /\ Work
  /\ BeginSubmit(t, WriteOf(i))
  /\ UNCHANGED <<loopVars, dropped, queueVars, tableVars, kernelVars, historyVars, ifState,
                 opens, frameVars>>

\* What a program may call: open, close, send, and stop of the event loop.
AppStep(t) ==
  \/ \E i \in Ifaces : OpenInternal(t, i) \/ CloseInternal(t, i) \/ SendFrame(t, i)
  \/ step[t] = "none" /\ Stop /\ UNCHANGED ifaceVars

-----------------------------------------------------------------------------
\* The callback of a write is the user's (UserCallback); it returns.
WriteCallback ==
  /\ lpc = "call" /\ cur.op.kind = "write" /\ step[Loop] = "none"
  /\ lpc' = "next" /\ cur' = None
  /\ UNCHANGED <<running, seen, ran, submitVars, queueVars, tableVars, kernelVars, historyVars,
                 ifaceVars>>

\* Mutant: bytes_read > 0 is not tested, and what the buffer holds is delivered.
DeliverWholeBuffer ==
  /\ lpc = "call" /\ cur.op.kind = "read" /\ cur.res.kind # "error"
  /\ delivered' = [delivered EXCEPT ![cur.op.iface] = Append(@, buffer[cur.op.iface])]
  /\ lpc' = "repost"
  /\ UNCHANGED <<running, seen, cur, ran, submitVars, queueVars, tableVars, kernelVars,
                 historyVars, ifState, opens, buffer, arrived, taken, work>>

\* The callback of a read: the frame in the buffer is delivered; nothing is
\* delivered at the end of the stream.
DeliverFrame ==
  /\ lpc = "call" /\ cur.op.kind = "read" /\ cur.res.kind # "error"
  /\ delivered' = IF cur.res.kind = "eof" THEN delivered
                  ELSE [delivered EXCEPT ![cur.op.iface] = Append(@, buffer[cur.op.iface])]
  /\ lpc' = "repost"
  /\ UNCHANGED <<running, seen, cur, ran, submitVars, queueVars, tableVars, kernelVars,
                 historyVars, ifState, opens, buffer, arrived, taken, work>>

\* A negative result becomes a huge size_t: deserialize throws, through run().
DeliverError ==
  /\ lpc = "call" /\ cur.op.kind = "read" /\ cur.res.kind = "error"
  /\ lpc' = "terminated" /\ cur' = None
  /\ UNCHANGED <<running, seen, ran, submitVars, queueVars, tableVars, kernelVars, historyVars,
                 ifaceVars>>

\* Where the loop's thread runs the program's code: the callback of a write, and
\* the one of a frame that was received.
InUserCode ==
  \/ lpc = "call" /\ cur.op.kind = "write"
  \/ lpc = "repost" /\ cur.res.kind = "ok"

\* A callback of the program may call what any thread may.
UserCallback == InUserCode /\ AppStep(Loop)

\* Mutant: the end of the stream ends the reading.
RepostAfterFrame ==
  /\ lpc = "repost" /\ step[Loop] = "none"
  /\ IF ifState[cur.op.iface] = "Open" /\ cur.res.kind = "ok"
     THEN BeginSubmit(Loop, cur.op)
     ELSE UNCHANGED threadVars
  /\ lpc' = "next" /\ cur' = None
  /\ UNCHANGED <<running, seen, ran, dropped, queueVars, tableVars, kernelVars, historyVars,
                 ifaceVars>>

\* post_continuous_read at the end of the callback.
Repost ==
  /\ lpc = "repost" /\ step[Loop] = "none"
  /\ IF ifState[cur.op.iface] = "Open"
     THEN BeginSubmit(Loop, cur.op)
     ELSE UNCHANGED threadVars
  /\ lpc' = "next" /\ cur' = None
  /\ UNCHANGED <<running, seen, ran, dropped, queueVars, tableVars, kernelVars, historyVars,
                 ifaceVars>>

CallbackStep == WriteCallback \/ DeliverFrame \/ DeliverError \/ Repost

-----------------------------------------------------------------------------
\* The device and the kernel (external).
DeviceDelivers(i) ==
  /\ arrived[i] < MaxFrames
  /\ arrived' = [arrived EXCEPT ![i] = @ + 1]
  /\ UNCHANGED <<ringVars, ifState, opens, buffer, taken, delivered, work>>

ReadCompletes(r) ==
  LET i == r.op.iface IN
  /\ r.op.kind = "read" /\ taken[i] < arrived[i] /\ Work
  /\ taken' = [taken EXCEPT ![i] = @ + 1]
  /\ buffer' = [buffer EXCEPT ![i] = taken[i] + 1]
  /\ Complete(r, [kind |-> "ok", frame |-> taken[i] + 1])
  /\ UNCHANGED <<ifState, opens, arrived, delivered>>

\* A read that finds no frame returns no bytes (serial ports, and a socket whose
\* peer is gone) or an error.
ReadReturnsNothing(r) ==
  /\ r.op.kind = "read" /\ taken[r.op.iface] = arrived[r.op.iface] /\ Work
  /\ \E kind \in {"eof", "error"} : Complete(r, [kind |-> kind, frame |-> 0])
  /\ UNCHANGED <<ifState, opens, frameVars>>

WriteCompletes(r) ==
  /\ r.op.kind = "write"
  /\ Complete(r, [kind |-> "ok", frame |-> 0])
  /\ UNCHANGED ifaceVars

\* An entry taken before anything was written into its slot.
NothingCompletes(r) ==
  /\ r.op = None
  /\ Complete(r, [kind |-> "ok", frame |-> 0])
  /\ UNCHANGED ifaceVars

-----------------------------------------------------------------------------
ThreadStep(t) == SubmitStep(t) /\ UNCHANGED ifaceVars

LoopStep == (RunStep /\ UNCHANGED ifaceVars) \/ CallbackStep

KernelStep ==
  \E r \in inKernel :
    \/ r.op # None /\ (ReadCompletes(r) \/ ReadReturnsNothing(r) \/ WriteCompletes(r))
    \/ NothingCompletes(r)

Next ==
  /\ ~corrupt /\ lpc # "terminated"
  /\ \/ \E t \in Apps : AppStep(t)
     \/ \E t \in Threads : ThreadStep(t)
     \/ LoopStep
     \/ UserCallback
     \/ (RunStart \/ WaitInterrupted) /\ UNCHANGED ifaceVars
     \/ KernelStep
     \/ \E i \in Ifaces : DeviceDelivers(i)

Spec == Init /\ [][Next]_vars

\* Every thread in a call runs on, and the kernel finishes writes; nobody is
\* obliged to call anything, and a device may stay silent.
IoFairness ==
  /\ \A t \in Threads : WF_vars(ThreadStep(t) /\ ~corrupt)
  /\ WF_vars(LoopStep /\ ~corrupt)
  /\ \A n \in 1 .. MaxWork :
       WF_vars((\E r \in inKernel : r.nr = n /\ r.op # None /\ WriteCompletes(r)) /\ ~corrupt)

FairSpec == Spec /\ IoFairness

-----------------------------------------------------------------------------
\* Every variable has its type.
TypeOK == RingTypeOK /\ IfaceTypeOK

\* The completions not handled yet.
Unseen == {cq[k] : k \in seen + 1 .. Len(cq)}

\* The entries in the queue that are finished.
Unfinished == {cell[t] : t \in {u \in Threads : Filling(u)}}

Finished == {sqes[k] : k \in {sq[j] : j \in DOMAIN sq} \ Unfinished}

\* A callback runs at most once.  A callback that was run is not in
\* m_active_requests; and as long as no entry was taken unfinished its request
\* is nowhere in the ring any more, so that no later completion carries its id.
CallbackRunsOnce ==
  \A id \in ran :
    /\ Registered(id) = {}
    /\ ~early => \A r \in Finished \cup inKernel \cup Unseen : r.id # id

\* Every completion finds the callback of its own request, although several
\* threads register callbacks at a time and callbacks submit while a batch is
\* handled, unless run() handed over an entry while another thread was between
\* io_uring_get_sqe and io_uring_sqe_set_data: see CompletionHasCallback.
CompletionFindsItsCallback ==
  ~early => \A c \in Unseen : Registered(c.id) = {[op |-> c.op, id |-> c.id]}

Submitting(t, op) ==
  step[t] \in {"get", "claimed", "advanced", "prepared"} /\ want[t] = op

\* Reads of an interface that are being posted, will complete, or are handled.
ReadChains(i) ==
  Cardinality({a \in active : a.op = ReadOf(i)})
    + Cardinality({t \in Threads : Submitting(t, ReadOf(i))})
    + (IF lpc \in {"call", "repost"} /\ cur.op = ReadOf(i) THEN 1 ELSE 0)

\* An open interface keeps a read posted, unless a full queue swallowed it:
\* closing and opening again while a callback runs does not lose the read.  (After
\* `early` its callback may wait for a read the kernel was never given.)
OpenInterfaceKeepsReading ==
  \A i \in Ifaces :
    ifState[i] = "Open" /\ ReadOf(i) \notin dropped /\ lpc # "terminated" => ReadChains(i) > 0

\* Reads multiply only by opening again: each open accounts for one at most.
OneReadPerOpen == \A i \in Ifaces : ReadChains(i) <= opens[i]

\* An interface that was opened once delivers every frame the device sent, once
\* and in order: nothing is read into m_read_buffer before its callback is done.
FramesInOrder ==
  ~early => \A i \in Ifaces : opens[i] <= 1 => \A k \in DOMAIN delivered[i] : delivered[i][k] = k

-----------------------------------------------------------------------------
InRun == lpc \notin {"off", "ended", "terminated"}

\* A completion's callback is run by the run() in progress, unless that ends first.
CompletionRunsCallback ==
  \A id \in 1 .. MaxWork :
    (Registered(id) # {} /\ \E c \in Unseen : c.id = id) ~> (id \in ran \/ ~InRun \/ corrupt)

\* After stop() the next completion ends run().
StopEndsRun == (InRun /\ ~running /\ cq # <<>>) ~> (~InRun \/ running \/ corrupt)

-----------------------------------------------------------------------------
\* UringManager.hpp:41-46, submit_write submits the request and the callback is
\* called when it completes: while run() runs, a submitted write is carried out.
WriteCallbackIsCalled ==
  \A id \in 1 .. MaxWork :
    (InRun /\ ~early /\ \E e \in Finished : e.id = id /\ e.op # None /\ e.op.kind = "write")
      ~> (id \in ran \/ ~running \/ ~InRun \/ early \/ corrupt)

\* UringManager.hpp:37 and :45, "the callback called when the operation
\* completes": the completion of a read or a write finds a callback.
CompletionHasCallback == \A c \in Unseen : c.op # None => Registered(c.id) # {}
=============================================================================
