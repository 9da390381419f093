---------------------------- MODULE EchoBackend ----------------------------
(***************************************************************************)
(* The loopback backend.  Each open makes a socket pair: the client end is *)
(* sent to the client, the server end is read and written by a detached    *)
(* thread.  Handler and threads name the ends by descriptor numbers, which *)
(* the kernel gives out again once they are closed.                        *)
(*                                                                         *)
(* Requests that the lookup refuses change nothing: they are not steps.    *)
(***************************************************************************)
EXTENDS Naturals, Sequences, FiniteSets

CONSTANTS
  Ids,        \* echo_id
  MaxOpens,   \* bound: socket pairs made
  MaxFd,      \* descriptor numbers of the process
  MaxFrames,  \* bound: frames sent on a pair
  BufferSize, \* frames one read() takes (4096 bytes)
  Capacity    \* frames a socket holds

ASSUME EchoAssumption ==
  /\ MaxOpens \in Nat /\ MaxFd \in Nat /\ MaxFrames \in Nat
  /\ BufferSize \in Nat /\ Capacity \in Nat

VARIABLES
  fds,        \* the descriptor table: number -> end, or NoEnd
  instances,  \* m_instances: per id, the set of its (at most one) EchoInstance
  handler,    \* the request handler, in connect_and_send or after it failed
  thread,     \* per pair: its echo thread
  clientEnds, \* pairs whose client end a client process has
  stream,     \* per end: frames written to it and not read from it
  sent, got,  \* per pair: frames the client has sent, received
  failed,     \* history: pairs whose transfer failed
  closed,     \* history: pairs closed by handle_close
  alive       \* no SIGPIPE has ended the daemon

daemonVars == <<fds, instances, handler, thread, alive>>
clientVars == <<clientEnds, sent, got>>
history    == <<failed, closed>>
vars       == <<daemonVars, clientVars, stream, history>>

Pairs == 1 .. MaxOpens
Ends  == Pairs \X {"client", "server"}
NoEnd == <<0, "none">>
Peer(end) == <<end[1], IF end[2] = "client" THEN "server" ELSE "client">>

\* A frame carries its number and whether it was upper-cased.
Frames == (1 .. MaxFrames) \X BOOLEAN

Idle == [pc |-> "idle"]

NoThread == [pc |-> "none"]

Fds == 1 .. MaxFd

Instances == [pair : Pairs, client : Fds, server : Fds, upper : BOOLEAN]

Sendings == [pc : {"send", "failed"}, id : Ids, pair : Pairs, client : Fds, server : Fds]

Threads == [pc : {"start", "blocked", "write", "close", "done"}, fd : Fds, upper : BOOLEAN,
            on : Ends \cup {NoEnd}, data : Seq(Frames)]

TypeOK ==
  /\ fds \in [Fds -> Ends \cup {NoEnd}]
  /\ instances \in [Ids -> SUBSET Instances]
  /\ handler \in Sendings \cup {Idle}
  /\ thread \in [Pairs -> Threads \cup {NoThread}]
  /\ clientEnds \subseteq Pairs /\ failed \subseteq Pairs /\ closed \subseteq Pairs
  /\ stream \in [Ends -> Seq(Frames)] /\ \A e \in Ends : Len(stream[e]) <= Capacity
  /\ sent \in [Pairs -> 0 .. MaxFrames] /\ got \in [Pairs -> Nat]
  /\ alive \in BOOLEAN

Init ==
  /\ fds = [n \in Fds |-> NoEnd]
  /\ instances = [id \in Ids |-> {}]
  /\ handler = Idle
  /\ thread = [p \in Pairs |-> NoThread]
  /\ clientEnds = {} /\ failed = {} /\ closed = {}
  /\ stream = [e \in Ends |-> <<>>]
  /\ sent = [p \in Pairs |-> 0] /\ got = [p \in Pairs |-> 0]
  /\ alive = TRUE

-----------------------------------------------------------------------------
Opened == {p \in Pairs : thread[p] # NoThread}

Free == {n \in Fds : fds[n] = NoEnd}

\* POSIX: a new descriptor is the lowest number that is not open.
Lowest(numbers) == CHOOSE n \in numbers : \A m \in numbers : n <= m

\* Some process still has the end.
Held(end) == (end[2] = "client" /\ end[1] \in clientEnds) \/ \E n \in Fds : fds[n] = end

CloseFd(n) == fds' = [fds EXCEPT ![n] = NoEnd]

\* SIGPIPE, which nothing blocks or handles, ends the daemon, and the kernel
\* closes what it had open.
Killed ==
  /\ alive' = FALSE
  /\ fds' = [n \in Fds |-> NoEnd]
  /\ instances' = [id \in Ids |-> {}]
  /\ handler' = Idle
  /\ thread' = [p \in Pairs |-> IF thread[p] = NoThread THEN NoThread
                                ELSE [thread[p] EXCEPT !.pc = "done", !.on = NoEnd, !.data = <<>>]]
  /\ UNCHANGED <<clientVars, stream, history>>

\* handle_open: the lookup, socketpair() and the start of the thread, which
\* takes its copy of uppercase_mode from the new instance.
OpenPair(id) ==
  LET p      == Cardinality(Opened) + 1
      client == Lowest(Free)
      server == Lowest(Free \ {client})
  IN /\ alive /\ handler = Idle /\ instances[id] = {}
     /\ p \in Pairs /\ Cardinality(Free) >= 2
     /\ fds' = [fds EXCEPT ![client] = <<p, "client">>, ![server] = <<p, "server">>]
     /\ handler' = [pc |-> "send", id |-> id, pair |-> p, client |-> client, server |-> server]
     /\ thread' = [thread EXCEPT ![p] =
          [pc |-> "start", fd |-> server, upper |-> FALSE, on |-> NoEnd, data |-> <<>>]]
     /\ UNCHANGED <<instances, alive, clientVars, stream, history>>

NewInstance ==
  [pair |-> handler.pair, client |-> handler.client, server |-> handler.server, upper |-> FALSE]

Sending == handler # Idle /\ handler.pc = "send"

\* connect_and_send succeeds: the client has its end, the instance is stored.
Store ==
  /\ Sending
  /\ clientEnds' = clientEnds \cup {handler.pair}
  /\ instances' = [instances EXCEPT ![handler.id] = {NewInstance}]
  /\ handler' = Idle
  /\ UNCHANGED <<thread, alive, sent, got, stream, history>>

\* Mutant: the daemon closes its copy of the client end once it is sent.
TransferredCloses == Store /\ CloseFd(handler.client)

Transferred == Store /\ UNCHANGED fds

\* It fails: the handler closes the client end ...
TransferFails ==
  /\ Sending /\ CloseFd(handler.client)
  /\ failed' = failed \cup {handler.pair}
  /\ handler' = [handler EXCEPT !.pc = "failed"]
  /\ UNCHANGED <<instances, thread, alive, clientVars, stream, closed>>

\* ... and the number of the server end, which the thread closes too.
CloseServerFd ==
  /\ handler # Idle /\ handler.pc = "failed"
  /\ CloseFd(handler.server)
  /\ handler' = Idle
  /\ UNCHANGED <<instances, thread, alive, clientVars, stream, history>>

\* The client accepts and is gone before sendmsg().
TransferBreaks == Sending /\ Killed

\* Mutant: m_instances[req.echo_id] without the lookup.
ConfigCreates(id, upper) ==
  /\ alive /\ handler = Idle
  /\ instances' = [instances EXCEPT ![id] = {[pair |-> 0, client |-> 0, server |-> 0, upper |-> upper]}]
  /\ UNCHANGED <<fds, handler, thread, alive, clientVars, stream, history>>

\* handle_config: the running thread keeps the mode it started with.
Config(id, upper) ==
  /\ alive /\ handler = Idle
  /\ \E i \in instances[id] :
       instances' = [instances EXCEPT ![id] = {[i EXCEPT !.upper = upper]}]
  /\ UNCHANGED <<fds, handler, thread, alive, clientVars, stream, history>>

\* Mutant: the client end stays open.
CloseInstanceKeepsFd(i) == closed' = closed \cup {i.pair} /\ UNCHANGED fds

CloseInstance(i) == closed' = closed \cup {i.pair} /\ CloseFd(i.client)

\* handle_close
Close(id) ==
  /\ alive /\ handler = Idle
  /\ \E i \in instances[id] : CloseInstance(i)
  /\ instances' = [instances EXCEPT ![id] = {}]
  /\ UNCHANGED <<handler, thread, alive, clientVars, stream, failed>>

Handler ==
  \/ \E id \in Ids : OpenPair(id) \/ Close(id) \/ \E upper \in BOOLEAN : Config(id, upper)
  \/ Transferred \/ TransferFails \/ CloseServerFd \/ TransferBreaks

-----------------------------------------------------------------------------
At(p, pc) == thread[p] # NoThread /\ thread[p].pc = pc

\* read() looks its number up, and keeps the end it found until it returns.
EnterRead(p) ==
  /\ At(p, "start")
  /\ thread' = [thread EXCEPT
       ![p].pc = IF fds[thread[p].fd] = NoEnd THEN "close" ELSE "blocked",
       ![p].on = fds[thread[p].fd]]
  /\ UNCHANGED <<fds, instances, handler, alive, clientVars, stream, history>>

\* It returns with what is there, ...
ReadFrames(p) ==
  LET end == thread[p].on
      n   == IF Len(stream[end]) < BufferSize THEN Len(stream[end]) ELSE BufferSize
  IN /\ At(p, "blocked") /\ n > 0
     /\ thread' = [thread EXCEPT ![p].pc = "write", ![p].on = NoEnd,
                                 ![p].data = SubSeq(stream[end], 1, n)]
     /\ stream' = [stream EXCEPT ![end] = SubSeq(@, n + 1, Len(@))]
     /\ UNCHANGED <<fds, instances, handler, alive, clientVars, history>>

\* ... or with 0 (or ECONNRESET) when nothing is and nobody has the other end.
ReadEnd(p) ==
  /\ At(p, "blocked") /\ stream[thread[p].on] = <<>> /\ ~Held(Peer(thread[p].on))
  /\ thread' = [thread EXCEPT ![p].pc = "close", ![p].on = NoEnd]
  /\ UNCHANGED <<fds, instances, handler, alive, clientVars, stream, history>>

Echoed(p) == [i \in DOMAIN thread[p].data |-> <<thread[p].data[i][1], thread[p].upper>>]

Rewind(p) == thread' = [thread EXCEPT ![p].pc = "start", ![p].data = <<>>]

\* Mutant: a server end that does not block loses what there is no room for.
UnwrittenWhenFull(p) ==
  LET end == fds[thread[p].fd]
  IN end # NoEnd => Len(stream[Peer(end)]) + Len(thread[p].data) > Capacity

Unwritten(p) == fds[thread[p].fd] = NoEnd

\* write() waits for room; its result is ignored, a closed number included.
Write(p) ==
  LET end == fds[thread[p].fd]
  IN /\ At(p, "write")
     /\ \/ Unwritten(p) /\ UNCHANGED stream
        \/ /\ end # NoEnd /\ Held(Peer(end))
           /\ Len(stream[Peer(end)]) + Len(thread[p].data) <= Capacity
           /\ stream' = [stream EXCEPT ![Peer(end)] = @ \o Echoed(p)]
     /\ Rewind(p)
     /\ UNCHANGED <<fds, instances, handler, alive, clientVars, history>>

\* Nobody can read what is written.
BrokenPipe(p) ==
  /\ At(p, "write")
  /\ fds[thread[p].fd] # NoEnd /\ ~Held(Peer(fds[thread[p].fd]))
  /\ Killed

\* Mutant: the thread returns without close().
CloseOwnEndForgets(p) == UNCHANGED fds

CloseOwnEnd(p) == CloseFd(thread[p].fd)

CloseServer(p) ==
  /\ At(p, "close") /\ CloseOwnEnd(p)
  /\ thread' = [thread EXCEPT ![p].pc = "done"]
  /\ UNCHANGED <<instances, handler, alive, clientVars, stream, history>>

EchoStep(p) ==
  EnterRead(p) \/ ReadFrames(p) \/ ReadEnd(p) \/ Write(p) \/ BrokenPipe(p) \/ CloseServer(p)

-----------------------------------------------------------------------------
\* The client writes to its end and reads from it; its end is closed when its
\* process ends, for nothing in the library closes it.
ClientSend(p) ==
  /\ p \in clientEnds /\ sent[p] < MaxFrames
  /\ Held(<<p, "server">>) /\ Len(stream[<<p, "server">>]) < Capacity
  /\ sent' = [sent EXCEPT ![p] = @ + 1]
  /\ stream' = [stream EXCEPT ![<<p, "server">>] = Append(@, <<sent[p] + 1, FALSE>>)]
  /\ UNCHANGED <<daemonVars, clientEnds, got, history>>

ClientReceive(p) ==
  /\ p \in clientEnds /\ stream[<<p, "client">>] # <<>>
  /\ got' = [got EXCEPT ![p] = @ + 1]
  /\ stream' = [stream EXCEPT ![<<p, "client">>] = Tail(@)]
  /\ UNCHANGED <<daemonVars, clientEnds, sent, history>>

ClientExit(p) ==
  /\ p \in clientEnds
  /\ clientEnds' = clientEnds \ {p}
  /\ UNCHANGED <<daemonVars, sent, got, stream, history>>

Next ==
  \/ Handler
  \/ \E p \in Pairs : EchoStep(p) \/ ClientSend(p) \/ ClientReceive(p) \/ ClientExit(p)

\* Threads are scheduled and the handler returns.
Spec ==
  /\ Init /\ [][Next]_vars
  /\ \A p \in Pairs : WF_vars(EchoStep(p))
  /\ WF_vars(Transferred \/ TransferFails \/ CloseServerFd \/ TransferBreaks)

-----------------------------------------------------------------------------
Registered == UNION {instances[id] : id \in Ids}

\* As long as no transfer has failed, every open descriptor has one owner that
\* will close it: the table or the handler for a client end, the thread for a
\* server end.
DescriptorsHaveOwners ==
  failed = {} =>
    \A n \in Fds : \A p \in Pairs :
      /\ fds[n] = <<p, "client">> <=>
           \/ \E i \in Registered : i.pair = p /\ i.client = n
           \/ handler # Idle /\ handler.pair = p /\ handler.client = n
      /\ fds[n] = <<p, "server">> <=>
           thread[p] # NoThread /\ thread[p].pc # "done" /\ thread[p].fd = n

\* Until it is closed an instance is served: its thread neither ends nor meets a
\* broken pipe, even when the client is gone, because the daemon keeps its own
\* copy of the client end.
RegisteredIsServed ==
  failed = {} =>
    \A i \in Registered :
      /\ thread[i.pair].pc \in {"start", "blocked", "write"}
      /\ fds[thread[i.pair].fd] = <<i.pair, "server">> /\ Held(<<i.pair, "client">>)

\* What the client has received, what waits for it, what the thread holds and
\* what waits for the thread are the frames the client sent, once and in order,
\* upper-cased or not.
EchoedInOrder ==
  failed = {} /\ alive =>
    \A p \in Opened :
      LET back  == stream[<<p, "client">>]
          there == thread[p].data \o stream[<<p, "server">>]
          all   == back \o there
      IN /\ Len(all) = sent[p] - got[p]
         /\ \A i \in DOMAIN all : all[i][1] = got[p] + i

\* An instance that was closed and whose client is gone gives its thread and its
\* last descriptor back.
ClosedInstanceEnds ==
  \A p \in Pairs :
    p \in closed /\ p \notin clientEnds ~> failed # {} \/ At(p, "done")

\* EchoBackend.cpp:139, "server side will be closed by the thread": a registered
\* instance loses its server end to its own thread only.
ServerEndIsClosedByItsThread ==
  [][alive' => \A i \in Registered :
       fds[i.server] = <<i.pair, "server">> /\ fds'[i.server] # <<i.pair, "server">> =>
         At(i.pair, "close")]_vars
=============================================================================
