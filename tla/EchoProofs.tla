----------------------------- MODULE EchoProofs -----------------------------
(***************************************************************************)
(* The loopback backend as long as no transfer has failed.  The argument   *)
(* follows a pair: its server end has one number, which its thread alone   *)
(* closes; its client end has the number of one instance or of the open in *)
(* progress; what is on the pair is what the client sent.                  *)
(***************************************************************************)
EXTENDS EchoBackend, TLAPS, FiniteSetTheorems, SequenceTheorems, WellFoundedInduction

Busy == handler # Idle

\* Where a thread stands and what it holds agree.  Pairs are made in order.
Shape ==
  /\ \A p \in Pairs : At(p, "blocked") => thread[p].on \in Ends
  /\ \A p \in Opened : At(p, "write") \/ thread[p].data = <<>>
  /\ \A p \in Opened : thread[p].upper = FALSE
  /\ Opened = 1 .. Cardinality(Opened)

TypeInv == TypeOK /\ Shape

\* A pair not yet made has nothing.
FreshInv ==
  \A p \in Pairs \ Opened :
    /\ p \notin clientEnds /\ sent[p] = 0 /\ got[p] = 0
    /\ stream[<<p, "client">>] = <<>> /\ stream[<<p, "server">>] = <<>>

\* An instance, or the open in progress, has a pair of its own, which is served.
Serves(p, server) ==
  /\ p \in Opened /\ thread[p].fd = server
  /\ thread[p].pc \in {"start", "blocked", "write"}

InstancesInv ==
  /\ \A id \in Ids : \A i \in instances[id] : instances[id] = {i} /\ Serves(i.pair, i.server)
  /\ \A c, d \in Ids : \A i \in instances[c], j \in instances[d] : i.pair = j.pair => c = d
  /\ Busy =>
       /\ handler.pc = "send" /\ instances[handler.id] = {}
       /\ Serves(handler.pair, handler.server)
       /\ \A id \in Ids : \A i \in instances[id] : i.pair # handler.pair

\* The descriptor table, read in both directions.
OwnersInv ==
  \A n \in Fds : \A p \in Pairs :
    /\ fds[n] = <<p, "client">> <=>
         \/ \E id \in Ids : \E i \in instances[id] : i.pair = p /\ i.client = n
         \/ Busy /\ handler.pair = p /\ handler.client = n
    /\ fds[n] = <<p, "server">> <=> p \in Opened /\ ~At(p, "done") /\ thread[p].fd = n

ReadsInv == \A p \in Pairs : At(p, "blocked") => thread[p].on = <<p, "server">>

\* The k-th frame of a client.
AsSent(k) == <<k, FALSE>>

\* The frames of a pair, place by place: back to the client, with the thread, and
\* there for the thread; g were received of the s sent.
InOrder(g, s, back, here, there) ==
  /\ s = g + Len(back) + Len(here) + Len(there)
  /\ \A k \in 1 .. Len(back) : back[k] = AsSent(g + k)
  /\ \A k \in 1 .. Len(here) : here[k] = AsSent(g + Len(back) + k)
  /\ \A k \in 1 .. Len(there) : there[k] = AsSent(g + Len(back) + Len(here) + k)

FramesInv ==
  \A p \in Opened :
    InOrder(got[p], sent[p], stream[<<p, "client">>], thread[p].data, stream[<<p, "server">>])

PairsInv == FreshInv /\ InstancesInv /\ OwnersInv /\ ReadsInv

EchoInv ==
  /\ TypeInv
  /\ failed = {} => PairsInv
  /\ failed = {} /\ alive => FramesInv

-----------------------------------------------------------------------------
\* POSIX gives out the lowest number: there is one in every set of numbers.
LEMMA LowestNumber ==
  ASSUME NEW numbers \in SUBSET Nat, numbers # {}
  PROVE  Lowest(numbers) \in numbers
<1> DEFINE Less == OpToRel(<, Nat)
<1>1. \A m, n \in numbers : ~(<<m, n>> \in Less) => n <= m
  BY DEF OpToRel
<1>2. IsWellFoundedOn(Less, Nat)
  BY NatLessThanWellFounded
<1> HIDE DEF Less
<1>3. PICK n \in numbers : \A m \in numbers : ~ (<<m, n>> \in Less)
  BY <1>2, WFMin
<1>4. \A m \in numbers : n <= m
  BY <1>1, <1>3
<1> QED BY <1>4 DEF Lowest

\* A thread that moves on keeps its pair opened.
LEMMA ThreadShape ==
  ASSUME TypeOK, NEW p \in Opened
  PROVE  /\ p \in Pairs /\ thread[p] \in Threads /\ thread[p].fd \in Fds
         /\ thread[p].data \in Seq(Frames) /\ thread[p].on \in Ends \cup {NoEnd}
         /\ thread[p].pc \in {"start", "blocked", "write", "close", "done"}
BY DEF TypeOK, Opened, Threads

LEMMA ThreadMoves ==
  ASSUME TypeInv, NEW p \in Opened, NEW t \in Threads, thread' = [thread EXCEPT ![p] = t],
         t.upper = thread[p].upper, t.pc = "blocked" => t.on \in Ends,
         t.pc = "write" \/ t.data = <<>>
  PROVE  thread' \in [Pairs -> Threads \cup {NoThread}] /\ Opened' = Opened /\ Shape'
<1>1. p \in Pairs /\ thread \in [Pairs -> Threads \cup {NoThread}]
  BY DEF TypeInv, TypeOK, Opened
<1>2. t # NoThread
  BY DEF Threads, NoThread
<1>3. thread' \in [Pairs -> Threads \cup {NoThread}] /\ Opened' = Opened
  BY <1>1, <1>2 DEF Opened
<1>4. \A q \in Pairs : thread'[q] = IF q = p THEN t ELSE thread[q]
  BY <1>1
<1>5. \A q \in Pairs : At(q, "blocked")' => thread'[q].on \in Ends
  BY <1>4 DEF At, TypeInv, Shape
<1>6. \A q \in Opened : At(q, "write")' \/ thread'[q].data = <<>>
  BY <1>2, <1>4 DEF At, TypeInv, Shape, Opened
<1>7. \A q \in Opened : thread'[q].upper = FALSE
  BY <1>4 DEF TypeInv, Shape, Opened
<1> QED BY <1>3, <1>5, <1>6, <1>7 DEF Shape, TypeInv

LEMMA TypeInit == Init => TypeInv
<1> SUFFICES ASSUME Init PROVE TypeInv
  OBVIOUS
<1>1. Opened = {} /\ Cardinality(Opened) = 0 /\ \A p \in Pairs : thread[p] = NoThread
  BY FS_EmptySet DEF Init, Opened
<1>2. TypeOK
  BY EchoAssumption DEF Init, TypeOK
<1>3. Shape
  BY <1>1 DEF Shape, At
<1> QED BY <1>2, <1>3 DEF TypeInv

\* handle_open finds two numbers and a pair nobody has.
LEMMA NewPair ==
  ASSUME TypeInv, NEW id \in Ids, OpenPair(id)
  PROVE  \E p \in Pairs \ Opened : \E client, server \in Fds :
           /\ client # server /\ fds[client] = NoEnd /\ fds[server] = NoEnd
           /\ fds' = [fds EXCEPT ![client] = <<p, "client">>, ![server] = <<p, "server">>]
           /\ handler' = [pc |-> "send", id |-> id, pair |-> p, client |-> client, server |-> server]
           /\ thread' = [thread EXCEPT ![p] =
                [pc |-> "start", fd |-> server, upper |-> FALSE, on |-> NoEnd, data |-> <<>>]]
           /\ Opened' = Opened \cup {p} /\ Opened' = 1 .. Cardinality(Opened')
<1> DEFINE p == Cardinality(Opened) + 1
           client == Lowest(Free)
           server == Lowest(Free \ {client})
<1>1. /\ p \in Pairs /\ Cardinality(Free) >= 2
      /\ fds' = [fds EXCEPT ![client] = <<p, "client">>, ![server] = <<p, "server">>]
      /\ handler' = [pc |-> "send", id |-> id, pair |-> p, client |-> client, server |-> server]
      /\ thread' = [thread EXCEPT ![p] =
           [pc |-> "start", fd |-> server, upper |-> FALSE, on |-> NoEnd, data |-> <<>>]]
  BY DEF OpenPair
<1>2. IsFiniteSet(Opened) /\ Cardinality(Opened) \in Nat
  <2>1. IsFiniteSet(Pairs)
    BY FS_Interval, EchoAssumption DEF Pairs
  <2>2. Opened \subseteq Pairs
    BY DEF Opened
  <2> QED BY <2>1, <2>2, FS_Subset, FS_CardinalityType
<1>3. p \notin Opened
  BY <1>2 DEF TypeInv, Shape
<1>4. client \in Fds /\ server \in Fds /\ client # server /\ fds[client] = NoEnd /\ fds[server] = NoEnd
  <2>1. Free \in SUBSET Nat
    BY EchoAssumption DEF Free, Fds
  <2>2. Free # {} /\ \A n : Free # {n}
    <3> HIDE DEF p, client, server
    <3>1. Free = {} => Cardinality(Free) = 0
      BY FS_EmptySet, Zenon
    <3>2. \A n : Free = {n} => Cardinality(Free) = 1
      BY FS_Singleton, Zenon
    <3>3. Cardinality(Free) # 0 /\ Cardinality(Free) # 1
      BY <1>1
    <3> QED BY <3>1, <3>2, <3>3, Zenon
  <2>3. client \in Free
    BY <2>1, <2>2, LowestNumber
  <2>4. server \in Free \ {client}
    <3> HIDE DEF client
    <3> QED BY <2>1, <2>2, <2>3, LowestNumber
  <2> QED BY <2>3, <2>4 DEF Free
<1>5. Opened' = Opened \cup {p}
  BY <1>1, <1>3 DEF TypeInv, TypeOK, Opened, NoThread
<1>6. Opened' = 1 .. Cardinality(Opened')
  <2>1. Cardinality(Opened') = Cardinality(Opened) + 1
    BY <1>2, <1>3, <1>5, FS_AddElement
  <2>2. Opened' = 1 .. Cardinality(Opened) + 1
    BY <1>2, <1>5 DEF TypeInv, Shape
  <2> QED BY <2>1, <2>2
<1> HIDE DEF p, client, server
<1> QED BY <1>1, <1>3, <1>4, <1>5, <1>6

LEMMA OpenPairType ==
  ASSUME TypeInv, NEW id \in Ids, OpenPair(id)
  PROVE  TypeInv'
<1> PICK p \in Pairs \ Opened, client \in Fds, server \in Fds :
           /\ client # server /\ fds[client] = NoEnd /\ fds[server] = NoEnd
           /\ fds' = [fds EXCEPT ![client] = <<p, "client">>, ![server] = <<p, "server">>]
           /\ handler' = [pc |-> "send", id |-> id, pair |-> p, client |-> client, server |-> server]
           /\ thread' = [thread EXCEPT ![p] =
                [pc |-> "start", fd |-> server, upper |-> FALSE, on |-> NoEnd, data |-> <<>>]]
           /\ Opened' = Opened \cup {p} /\ Opened' = 1 .. Cardinality(Opened')
  BY NewPair
<1> DEFINE new == [pc |-> "start", fd |-> server, upper |-> FALSE, on |-> NoEnd, data |-> <<>>]
<1>1. new \in Threads
  BY DEF Threads
<1>2. thread' \in [Pairs -> Threads \cup {NoThread}]
  BY <1>1 DEF TypeInv, TypeOK
<1>3. fds' \in [Fds -> Ends \cup {NoEnd}] /\ handler' \in Sendings
  BY DEF TypeInv, TypeOK, Ends, Sendings
<1>4. \A q \in Pairs : thread'[q] = IF q = p THEN new ELSE thread[q]
  BY DEF TypeInv, TypeOK
<1>5. new.pc = "start" /\ new.data = <<>> /\ new.upper = FALSE
  OBVIOUS
<1> HIDE DEF new
<1>6. Shape'
  BY <1>4, <1>5 DEF TypeInv, Shape, At, Opened
<1>7. UNCHANGED <<instances, alive, clientEnds, sent, got, stream, failed, closed>>
  BY DEF OpenPair, clientVars, history
<1> QED BY <1>2, <1>3, <1>6, <1>7 DEF TypeInv, TypeOK

\* Steps that leave the threads alone.
LEMMA ShapeKept ==
  ASSUME Shape, UNCHANGED thread
  PROVE  Shape' /\ Opened' = Opened
BY DEF Shape, At, Opened

LEMMA BusyShape ==
  ASSUME TypeOK, Busy
  PROVE  /\ handler \in Sendings /\ handler.pair \in Pairs /\ handler.id \in Ids
         /\ handler.client \in Fds /\ handler.server \in Fds
BY DEF TypeOK, Busy, Sendings

\* The daemon that is killed has nothing left.
LEMMA KilledType ==
  ASSUME TypeInv, Killed
  PROVE  TypeInv'
<1>1. \A q \in Pairs : thread'[q] = IF thread[q] = NoThread THEN NoThread
                            ELSE [thread[q] EXCEPT !.pc = "done", !.on = NoEnd, !.data = <<>>]
  BY DEF Killed
<1>2. ASSUME NEW q \in Pairs, thread[q] # NoThread
      PROVE  thread'[q] \in Threads /\ thread'[q].upper = thread[q].upper
             /\ thread'[q].pc = "done" /\ thread'[q].data = <<>>
  <2>1. thread[q] \in Threads /\ thread'[q] = [thread[q] EXCEPT !.pc = "done", !.on = NoEnd, !.data = <<>>]
    BY <1>1, <1>2 DEF TypeInv, TypeOK
  <2>2. <<>> \in Seq(Frames)
    OBVIOUS
  <2> QED BY <2>1, <2>2 DEF Threads
<1>3. \A t \in Threads : t # NoThread
  BY DEF Threads, NoThread
<1>4. thread' \in [Pairs -> Threads \cup {NoThread}]
  BY <1>1, <1>2 DEF Killed
<1>5. Opened' = Opened
  BY <1>1, <1>2, <1>3 DEF Opened
<1>6. Shape'
  BY <1>1, <1>2, <1>5 DEF TypeInv, Shape, At, Opened
<1> QED BY <1>4, <1>6 DEF Killed, TypeInv, TypeOK, clientVars, history

LEMMA HandlerType ==
  ASSUME TypeInv, Handler
  PROVE  TypeInv'
<1> USE DEF clientVars, history
<1>1. ASSUME UNCHANGED thread PROVE Shape'
  BY <1>1, ShapeKept DEF TypeInv
<1>2. ASSUME NEW id \in Ids, Close(id) PROVE TypeInv'
  <2>1. PICK i \in instances[id] : CloseInstance(i)
    BY <1>2 DEF Close
  <2>2. i.pair \in Pairs /\ i.client \in Fds
    BY DEF TypeInv, TypeOK, Instances
  <2>3. fds' \in [Fds -> Ends \cup {NoEnd}] /\ closed' \subseteq Pairs
    BY <2>1, <2>2 DEF CloseInstance, CloseFd, TypeInv, TypeOK
  <2> QED BY <1>1, <1>2, <2>3 DEF Close, TypeInv, TypeOK
<1>3. ASSUME NEW id \in Ids, NEW upper \in BOOLEAN, Config(id, upper) PROVE TypeInv'
  <2>1. PICK i \in instances[id] :
          instances' = [instances EXCEPT ![id] = {[i EXCEPT !.upper = upper]}]
    BY <1>3 DEF Config
  <2>2. i \in Instances
    BY DEF TypeInv, TypeOK
  <2>3. [i EXCEPT !.upper = upper] \in Instances
    BY <2>2 DEF Instances
  <2> QED BY <1>1, <1>3, <2>1, <2>3 DEF Config, TypeInv, TypeOK
<1>4. CASE Transferred
  <2>1. Busy
    BY <1>4 DEF Transferred, Store, Sending, Busy
  <2>2. NewInstance \in Instances
    BY <2>1, BusyShape DEF TypeInv, Instances, NewInstance
  <2>3. handler.pair \in Pairs /\ handler.id \in Ids
    BY <2>1, BusyShape DEF TypeInv
  <2> HIDE DEF NewInstance
  <2> QED BY <1>1, <1>4, <2>2, <2>3 DEF Transferred, Store, TypeInv, TypeOK
<1>5. CASE TransferFails
  <2>1. Busy
    BY <1>5 DEF TransferFails, Sending, Busy
  <2>2. handler' \in Sendings
    BY <1>5, <2>1, BusyShape DEF TypeInv, TransferFails, Sendings
  <2> QED BY <1>1, <1>5, <2>1, <2>2, BusyShape DEF TransferFails, CloseFd, TypeInv, TypeOK
<1>6. CASE CloseServerFd
  BY <1>1, <1>6 DEF CloseServerFd, CloseFd, TypeInv, TypeOK
<1>7. CASE TransferBreaks
  BY <1>7, KilledType DEF TransferBreaks
<1> QED BY <1>2, <1>3, <1>4, <1>5, <1>6, <1>7, OpenPairType DEF Handler

LEMMA EchoedType ==
  ASSUME TypeOK, NEW p \in Opened
  PROVE  Echoed(p) \in Seq(Frames) /\ Len(Echoed(p)) = Len(thread[p].data)
<1>1. thread[p].data \in Seq(Frames) /\ thread[p].upper \in BOOLEAN
  BY DEF TypeOK, Opened, Threads
<1>2. \A i \in DOMAIN thread[p].data : <<thread[p].data[i][1], thread[p].upper>> \in Frames
  BY <1>1 DEF Frames
<1> QED BY <1>1, <1>2 DEF Echoed

LEMMA EchoType ==
  ASSUME TypeInv, NEW p \in Pairs, EchoStep(p)
  PROVE  TypeInv'
<1> USE DEF clientVars, history
<1>1. p \in Opened /\ thread[p] \in Threads /\ thread[p].fd \in Fds /\ TypeOK
  BY ThreadShape DEF TypeInv, EchoStep, EnterRead, ReadFrames, ReadEnd, Write, BrokenPipe, CloseServer,
     At, Opened
<1>2. (At(p, "write") \/ thread[p].data = <<>>) /\ <<>> \in Seq(Frames)
  BY <1>1 DEF TypeInv, Shape
<1>3. CASE EnterRead(p)
  <2> DEFINE t == [thread[p] EXCEPT !.pc = IF fds[thread[p].fd] = NoEnd THEN "close" ELSE "blocked",
                                    !.on = fds[thread[p].fd]]
  <2>1. fds[thread[p].fd] \in Ends \cup {NoEnd}
    BY <1>1 DEF TypeOK
  <2>2. t \in Threads /\ t.upper = thread[p].upper /\ t.data = thread[p].data
        /\ (t.pc = "blocked" => t.on \in Ends)
    BY <1>1, <2>1 DEF Threads
  <2>3. thread' = [thread EXCEPT ![p] = t]
    BY <1>1, <1>3 DEF EnterRead, TypeOK
  <2>4. thread[p].data = <<>>
    BY <1>2, <1>3 DEF EnterRead, At
  <2> HIDE DEF t
  <2>5. thread' \in [Pairs -> Threads \cup {NoThread}] /\ Shape'
    BY <1>1, <2>2, <2>3, <2>4, ThreadMoves
  <2> QED BY <1>1, <1>3, <2>5 DEF EnterRead, TypeInv, TypeOK
<1>4. CASE ReadFrames(p)
  <2> DEFINE end == thread[p].on
             n   == IF Len(stream[end]) < BufferSize THEN Len(stream[end]) ELSE BufferSize
             t   == [thread[p] EXCEPT !.pc = "write", !.on = NoEnd, !.data = SubSeq(stream[end], 1, n)]
  <2>1. end \in Ends /\ stream[end] \in Seq(Frames) /\ Len(stream[end]) <= Capacity
    BY <1>1, <1>4 DEF TypeInv, Shape, TypeOK, ReadFrames
  <2>2. n \in Nat /\ n <= Len(stream[end])
    BY <2>1, EchoAssumption
  <2>3. SubSeq(stream[end], 1, n) \in Seq(Frames)
        /\ SubSeq(stream[end], n + 1, Len(stream[end])) \in Seq(Frames)
        /\ Len(SubSeq(stream[end], n + 1, Len(stream[end]))) <= Capacity
    BY <2>1, <2>2, EchoAssumption
  <2>4. t \in Threads /\ t.upper = thread[p].upper /\ t.pc = "write"
    BY <1>1, <2>3 DEF Threads
  <2>5. thread' = [thread EXCEPT ![p] = t]
    BY <1>1, <1>4 DEF ReadFrames, TypeOK
  <2>6. stream' = [stream EXCEPT ![end] = SubSeq(stream[end], n + 1, Len(stream[end]))]
    BY <1>4 DEF ReadFrames
  <2> HIDE DEF t, n, end
  <2>7. stream' \in [Ends -> Seq(Frames)] /\ \A e \in Ends : Len(stream'[e]) <= Capacity
    BY <1>1, <2>1, <2>3, <2>6 DEF TypeOK
  <2> QED BY <1>1, <1>4, <2>4, <2>5, <2>7, ThreadMoves DEF ReadFrames, TypeInv, TypeOK
<1>5. CASE ReadEnd(p)
  <2> DEFINE t == [thread[p] EXCEPT !.pc = "close", !.on = NoEnd]
  <2>1. t \in Threads /\ t.upper = thread[p].upper /\ t.data = thread[p].data /\ t.pc = "close"
    BY <1>1 DEF Threads
  <2>2. thread' = [thread EXCEPT ![p] = t]
    BY <1>1, <1>5 DEF ReadEnd, TypeOK
  <2>3. thread[p].data = <<>>
    BY <1>2, <1>5 DEF ReadEnd, At
  <2> HIDE DEF t
  <2> QED BY <1>1, <1>5, <2>1, <2>2, <2>3, ThreadMoves DEF ReadEnd, TypeInv, TypeOK
<1>6. CASE Write(p)
  <2> DEFINE t == [thread[p] EXCEPT !.pc = "start", !.data = <<>>]
             end == fds[thread[p].fd]
  <2>1. t \in Threads /\ t.upper = thread[p].upper /\ t.data = <<>> /\ t.pc = "start"
    BY <1>1, <1>2 DEF Threads
  <2>2. thread' = [thread EXCEPT ![p] = t]
    BY <1>1, <1>6 DEF Write, Rewind, TypeOK
  <2>3. stream' \in [Ends -> Seq(Frames)] /\ \A e \in Ends : Len(stream'[e]) <= Capacity
    <3>1. CASE end = NoEnd /\ UNCHANGED stream
      BY <1>1, <3>1 DEF TypeOK
    <3>2. CASE /\ end # NoEnd
               /\ Len(stream[Peer(end)]) + Len(thread[p].data) <= Capacity
               /\ stream' = [stream EXCEPT ![Peer(end)] = @ \o Echoed(p)]
      <4>1. end \in Ends
        BY <1>1, <3>2 DEF TypeOK
      <4>2. Peer(end) \in Ends
        BY <4>1 DEF Peer, Ends
      <4> HIDE DEF end
      <4>5. /\ stream[Peer(end)] \in Seq(Frames) /\ Echoed(p) \in Seq(Frames)
            /\ Len(Echoed(p)) = Len(thread[p].data)
        BY <1>1, <4>2, EchoedType DEF TypeOK
      <4>3. stream[Peer(end)] \o Echoed(p) \in Seq(Frames)
            /\ Len(stream[Peer(end)] \o Echoed(p)) <= Capacity
        <5> DEFINE a == stream[Peer(end)]
                   b == Echoed(p)
        <5>1. a \in Seq(Frames) /\ b \in Seq(Frames) /\ Len(a) + Len(b) <= Capacity
          BY <3>2, <4>5
        <5> HIDE DEF a, b
        <5>2. a \o b \in Seq(Frames) /\ Len(a \o b) <= Capacity
          BY <5>1
        <5> QED BY <5>2 DEF a, b
      <4> QED BY <1>1, <3>2, <4>2, <4>3 DEF TypeOK
    <3> QED BY <1>6, <3>1, <3>2 DEF Write, Unwritten
  <2> HIDE DEF t
  <2> QED BY <1>1, <1>6, <2>1, <2>2, <2>3, ThreadMoves DEF Write, TypeInv, TypeOK
<1>7. CASE BrokenPipe(p)
  BY <1>7, KilledType DEF BrokenPipe
<1>8. CASE CloseServer(p)
  <2> DEFINE t == [thread[p] EXCEPT !.pc = "done"]
  <2>1. t \in Threads /\ t.upper = thread[p].upper /\ t.data = thread[p].data /\ t.pc = "done"
    BY <1>1 DEF Threads
  <2>2. thread' = [thread EXCEPT ![p] = t]
    BY <1>1, <1>8 DEF CloseServer, TypeOK
  <2>3. thread[p].data = <<>>
    BY <1>2, <1>8 DEF CloseServer, At
  <2> HIDE DEF t
  <2> QED BY <1>1, <1>8, <2>1, <2>2, <2>3, ThreadMoves
     DEF CloseServer, CloseOwnEnd, CloseFd, TypeInv, TypeOK
<1> QED BY <1>3, <1>4, <1>5, <1>6, <1>7, <1>8 DEF EchoStep

LEMMA ClientType ==
  ASSUME TypeInv, NEW p \in Pairs, ClientSend(p) \/ ClientReceive(p) \/ ClientExit(p)
  PROVE  TypeInv'
<1> USE DEF daemonVars, history
<1>1. Shape' /\ TypeOK
  BY ShapeKept DEF TypeInv, ClientSend, ClientReceive, ClientExit
<1>2. CASE ClientSend(p)
  <2>1. <<p, "server">> \in Ends
    BY DEF Ends
  <2>2. <<sent[p] + 1, FALSE>> \in Frames /\ sent[p] + 1 \in 0 .. MaxFrames
    <3>1. sent[p] \in 0 .. MaxFrames /\ sent[p] < MaxFrames
      BY <1>1, <1>2 DEF TypeOK, ClientSend
    <3>2. sent[p] + 1 \in 1 .. MaxFrames /\ sent[p] + 1 \in 0 .. MaxFrames
      BY <3>1, EchoAssumption
    <3> QED BY <3>2 DEF Frames
  <2>3. stream[<<p, "server">>] \in Seq(Frames) /\ Len(stream[<<p, "server">>]) < Capacity
    BY <1>1, <1>2, <2>1 DEF TypeOK, ClientSend
  <2>4. Append(stream[<<p, "server">>], <<sent[p] + 1, FALSE>>) \in Seq(Frames)
        /\ Len(Append(stream[<<p, "server">>], <<sent[p] + 1, FALSE>>)) <= Capacity
    BY <2>2, <2>3, EchoAssumption
  <2> QED BY <1>1, <1>2, <2>1, <2>2, <2>4 DEF ClientSend, TypeInv, TypeOK
<1>3. CASE ClientReceive(p)
  <2>1. <<p, "client">> \in Ends
    BY DEF Ends
  <2>2. stream[<<p, "client">>] \in Seq(Frames) /\ stream[<<p, "client">>] # <<>>
        /\ Len(stream[<<p, "client">>]) <= Capacity
    BY <1>1, <1>3, <2>1 DEF TypeOK, ClientReceive
  <2>3. Tail(stream[<<p, "client">>]) \in Seq(Frames)
        /\ Len(Tail(stream[<<p, "client">>])) <= Capacity
    BY <2>2, EchoAssumption
  <2>4. stream' \in [Ends -> Seq(Frames)] /\ \A e \in Ends : Len(stream'[e]) <= Capacity
    BY <1>1, <1>3, <2>1, <2>3 DEF ClientReceive, TypeOK
  <2>5. got' \in [Pairs -> Nat]
    BY <1>1, <1>3 DEF ClientReceive, TypeOK
  <2> QED BY <1>1, <1>3, <2>4, <2>5 DEF ClientReceive, TypeInv, TypeOK
<1>4. CASE ClientExit(p)
  BY <1>1, <1>4 DEF ClientExit, TypeInv, TypeOK
<1> QED BY <1>2, <1>3, <1>4

LEMMA TypeStep == TypeInv /\ [Next]_vars => TypeInv'
<1>1. TypeInv /\ UNCHANGED vars => TypeInv'
  BY ShapeKept DEF vars, daemonVars, clientVars, history, TypeInv, TypeOK
<1> QED BY <1>1, HandlerType, EchoType, ClientType DEF Next

\* EchoBackend and its clients: every variable keeps its type, whatever numbers
\* the kernel gives out again, transfers that fail included.
THEOREM EchoTypeCorrect == Spec => []TypeOK
<1>1. TypeInv => TypeOK
  BY DEF TypeInv
<1> QED BY <1>1, TypeInit, TypeStep, PTL DEF Spec

-----------------------------------------------------------------------------
\* A thread that has not closed its end moves on.
LEMMA MovesOn ==
  ASSUME TypeInv, InstancesInv, OwnersInv, UNCHANGED <<fds, instances, handler>>,
         NEW p \in Opened, NEW t \in Threads, thread' = [thread EXCEPT ![p] = t],
         t.fd = thread[p].fd, ~At(p, "done"), t.pc # "done",
         \/ t.pc \in {"start", "blocked", "write"}
         \/ /\ \A id \in Ids : \A i \in instances[id] : i.pair # p
            /\ Busy => handler.pair # p
  PROVE  InstancesInv' /\ OwnersInv'
<1>1. \A q \in Pairs : thread'[q] = IF q = p THEN t ELSE thread[q]
  BY DEF TypeInv, TypeOK
<1>2. t # NoThread
  BY DEF Threads, NoThread
<1>3. Opened' = Opened /\ p \in Pairs
  BY <1>1, <1>2 DEF Opened
<1>4. \A q, n : Serves(q, n) /\ (q # p \/ t.pc \in {"start", "blocked", "write"}) => Serves(q, n)'
  BY <1>1, <1>3 DEF Serves, Opened
<1>5. InstancesInv'
  <2>1. Busy' <=> Busy
    BY DEF Busy
  <2> QED BY <1>4, <2>1 DEF InstancesInv
<1>6. \A q \in Pairs : At(q, "done")' <=> At(q, "done")
  BY <1>1, <1>2 DEF At
<1>7. OwnersInv'
  <2>1. Busy' <=> Busy
    BY DEF Busy
  <2>2. \A q \in Pairs : thread'[q].fd = thread[q].fd
    BY <1>1
  <2> QED BY <1>3, <1>6, <2>1, <2>2 DEF OwnersInv
<1> QED BY <1>5, <1>7

\* Where the thread of a pair reads and writes.
LEMMA ServerEnd ==
  ASSUME TypeInv, OwnersInv, NEW p \in Opened, ~At(p, "done")
  PROVE  fds[thread[p].fd] = <<p, "server">> /\ fds[thread[p].fd] # NoEnd
<1>1. p \in Pairs /\ thread[p].fd \in Fds
  BY ThreadShape DEF TypeInv
<1> QED BY <1>1 DEF OwnersInv, NoEnd

\* The thread of an instance, or of an open in progress, never sees the end of
\* its stream: the daemon itself holds the other end.
LEMMA ServedIsHeld ==
  ASSUME TypeInv, OwnersInv, NEW p \in Pairs,
         \/ \E id \in Ids : \E i \in instances[id] : i.pair = p
         \/ Busy /\ handler.pair = p
  PROVE  Held(<<p, "client">>)
<1>1. ASSUME NEW id \in Ids, NEW i \in instances[id], i.pair = p PROVE Held(<<p, "client">>)
  <2>1. i.client \in Fds
    BY DEF TypeInv, TypeOK, Instances
  <2> QED BY <1>1, <2>1 DEF OwnersInv, Held
<1>2. ASSUME Busy, handler.pair = p PROVE Held(<<p, "client">>)
  <2>1. handler.client \in Fds
    BY <1>2, BusyShape DEF TypeInv
  <2> QED BY <1>2, <2>1 DEF OwnersInv, Held
<1> QED BY <1>1, <1>2

LEMMA PairsOpen ==
  ASSUME TypeInv, PairsInv, NEW id \in Ids, OpenPair(id)
  PROVE  PairsInv'
<1> PICK p \in Pairs \ Opened, client \in Fds, server \in Fds :
           /\ client # server /\ fds[client] = NoEnd /\ fds[server] = NoEnd
           /\ fds' = [fds EXCEPT ![client] = <<p, "client">>, ![server] = <<p, "server">>]
           /\ handler' = [pc |-> "send", id |-> id, pair |-> p, client |-> client, server |-> server]
           /\ thread' = [thread EXCEPT ![p] =
                [pc |-> "start", fd |-> server, upper |-> FALSE, on |-> NoEnd, data |-> <<>>]]
           /\ Opened' = Opened \cup {p} /\ Opened' = 1 .. Cardinality(Opened')
  BY NewPair
<1>1. /\ \A q \in Pairs : q # p => thread'[q] = thread[q]
      /\ thread'[p].pc = "start" /\ thread'[p].fd = server
  BY DEF TypeInv, TypeOK
<1>2. /\ \A n \in Fds : n # client /\ n # server => fds'[n] = fds[n]
      /\ fds'[client] = <<p, "client">> /\ fds'[server] = <<p, "server">>
  BY DEF TypeInv, TypeOK
<1>3. /\ handler'.pc = "send" /\ handler'.id = id /\ handler'.pair = p
      /\ handler'.client = client /\ handler'.server = server /\ Busy'
  BY DEF Busy, Idle
<1>4. /\ instances[id] = {} /\ ~Busy
      /\ UNCHANGED <<instances, clientEnds, sent, got, stream>>
  BY DEF OpenPair, Busy, clientVars
<1>5. \A c \in Ids : \A i \in instances[c] : i.pair # p
  BY DEF PairsInv, InstancesInv, Serves
<1>6. \A q \in Pairs : q # p => \A n : Serves(q, n) => Serves(q, n)'
  BY <1>1 DEF Serves
<1>7. Serves(p, server)'
  BY <1>1 DEF Serves
<1>8. FreshInv'
  BY <1>4 DEF PairsInv, FreshInv
<1>9. InstancesInv'
  <2>1. \A c \in Ids : \A i \in instances[c] : i.pair \in Pairs
    BY DEF TypeInv, TypeOK, Instances
  <2> QED BY <1>3, <1>4, <1>5, <1>6, <1>7, <2>1 DEF PairsInv, InstancesInv
<1>10. OwnersInv'
  <2> SUFFICES ASSUME NEW n \in Fds, NEW q \in Pairs
               PROVE  /\ fds'[n] = <<q, "client">> <=>
                           \/ \E c \in Ids : \E i \in instances'[c] : i.pair = q /\ i.client = n
                           \/ Busy' /\ handler'.pair = q /\ handler'.client = n
                      /\ fds'[n] = <<q, "server">> <=> q \in Opened' /\ ~At(q, "done")' /\ thread'[q].fd = n
    BY DEF OwnersInv
  <2>1. /\ fds[n] = <<q, "client">> <=> \E c \in Ids : \E i \in instances[c] : i.pair = q /\ i.client = n
        /\ fds[n] = <<q, "server">> <=> q \in Opened /\ ~At(q, "done") /\ thread[q].fd = n
    BY <1>4 DEF PairsInv, OwnersInv
  <2>2. n \in {client, server} => fds[n] # <<q, "client">> /\ fds[n] # <<q, "server">>
    BY EchoAssumption DEF NoEnd, Pairs
  <2>3. /\ fds'[n] = <<q, "client">> <=> (fds[n] = <<q, "client">> \/ (q = p /\ n = client))
        /\ fds'[n] = <<q, "server">> <=> (fds[n] = <<q, "server">> \/ (q = p /\ n = server))
    <3>0. /\ <<p, "client">> = <<q, "client">> <=> p = q
          /\ <<p, "server">> = <<q, "server">> <=> p = q
          /\ <<p, "client">> # <<q, "server">> /\ <<p, "server">> # <<q, "client">>
      OBVIOUS
    <3>1. CASE n = client
      <4>1. fds'[n] = <<p, "client">> /\ n # server
        BY <1>2, <3>1
      <4> QED BY <2>2, <3>0, <3>1, <4>1
    <3>2. CASE n = server
      <4>1. fds'[n] = <<p, "server">> /\ n # client
        BY <1>2, <3>2
      <4> QED BY <2>2, <3>0, <3>2, <4>1
    <3>3. CASE n # client /\ n # server
      BY <1>2, <3>3
    <3> QED BY <3>1, <3>2, <3>3
  <2>5. ~At(p, "done")' /\ (q # p => (At(q, "done")' <=> At(q, "done")))
    BY <1>1 DEF At
  <2>6. q \in Opened' /\ ~At(q, "done")' /\ thread'[q].fd = n <=>
          \/ q \in Opened /\ ~At(q, "done") /\ thread[q].fd = n
          \/ q = p /\ n = server
    BY <1>1, <2>5
  <2>7. /\ \E c \in Ids : \E i \in instances'[c] : i.pair = q /\ i.client = n
        <=> \E c \in Ids : \E i \in instances[c] : i.pair = q /\ i.client = n
    BY <1>4
  <2>8. Busy' /\ handler'.pair = q /\ handler'.client = n <=> q = p /\ n = client
    BY <1>3
  <2> QED BY <2>1, <2>3, <2>6, <2>7, <2>8
<1>11. ReadsInv'
  BY <1>1 DEF PairsInv, ReadsInv, At
<1> QED BY <1>8, <1>9, <1>10, <1>11 DEF PairsInv

\* The steps of the handler leave threads and streams alone.
LEMMA HandlerLeaves ==
  ASSUME PairsInv, UNCHANGED <<thread, sent, got, stream>>,
         clientEnds' \subseteq clientEnds \cup Opened
  PROVE  /\ FreshInv' /\ ReadsInv' /\ Opened' = Opened
         /\ \A p, n : Serves(p, n)' <=> Serves(p, n)
         /\ \A p \in Pairs : At(p, "done")' <=> At(p, "done")
BY DEF PairsInv, FreshInv, ReadsInv, Serves, At, Opened

LEMMA PairsClose ==
  ASSUME TypeInv, PairsInv, NEW id \in Ids, Close(id)
  PROVE  PairsInv'
<1> PICK i \in instances[id] : CloseInstance(i)
  BY DEF Close
<1>1. /\ i \in Instances /\ i.client \in Fds /\ i.pair \in Pairs /\ instances[id] = {i}
      /\ fds[i.client] = <<i.pair, "client">>
  BY DEF TypeInv, TypeOK, Instances, PairsInv, InstancesInv, OwnersInv
<1>2. /\ \A n \in Fds : fds'[n] = IF n = i.client THEN NoEnd ELSE fds[n]
      /\ \A c \in Ids : instances'[c] = IF c = id THEN {} ELSE instances[c]
      /\ ~Busy /\ ~Busy' /\ UNCHANGED <<thread, clientEnds, sent, got, stream>>
  BY DEF TypeInv, TypeOK, Close, CloseInstance, CloseFd, Busy, clientVars
<1>3. /\ FreshInv' /\ ReadsInv' /\ Opened' = Opened
      /\ \A p, n : Serves(p, n)' <=> Serves(p, n)
      /\ \A p \in Pairs : At(p, "done")' <=> At(p, "done")
  BY <1>2, HandlerLeaves
<1>4. InstancesInv'
  BY <1>2, <1>3 DEF PairsInv, InstancesInv
<1>5. OwnersInv'
  <2> SUFFICES ASSUME NEW n \in Fds, NEW q \in Pairs
               PROVE  /\ fds'[n] = <<q, "client">> <=>
                           \E c \in Ids : \E j \in instances'[c] : j.pair = q /\ j.client = n
                      /\ fds'[n] = <<q, "server">> <=> q \in Opened /\ ~At(q, "done") /\ thread[q].fd = n
    BY <1>2, <1>3 DEF OwnersInv
  <2>1. /\ fds[n] = <<q, "client">> <=> \E c \in Ids : \E j \in instances[c] : j.pair = q /\ j.client = n
        /\ fds[n] = <<q, "server">> <=> q \in Opened /\ ~At(q, "done") /\ thread[q].fd = n
    BY <1>2 DEF PairsInv, OwnersInv
  <2>2. NoEnd # <<q, "client">> /\ NoEnd # <<q, "server">>
    BY EchoAssumption DEF NoEnd, Pairs
  <2>3. fds'[n] = <<q, "client">> <=> (fds[n] = <<q, "client">> /\ n # i.client)
    BY <1>2, <2>2
  <2>4. fds'[n] = <<q, "server">> <=> fds[n] = <<q, "server">>
    BY <1>1, <1>2, <2>2
  <2>5. ASSUME NEW c \in Ids, NEW j \in instances[c], j.pair = q, j.client = n
        PROVE  c = id <=> n = i.client
    <3>1. c = id => n = i.client
      BY <1>1, <2>5
    <3>2. n = i.client => q = i.pair
      BY <1>1, <2>1, <2>5
    <3> QED BY <2>5, <3>1, <3>2 DEF PairsInv, InstancesInv
  <2> QED BY <1>2, <2>1, <2>3, <2>4, <2>5
<1> QED BY <1>3, <1>4, <1>5 DEF PairsInv

LEMMA PairsConfig ==
  ASSUME TypeInv, PairsInv, NEW id \in Ids, NEW upper \in BOOLEAN, Config(id, upper)
  PROVE  PairsInv'
<1> PICK i \in instances[id] : instances' = [instances EXCEPT ![id] = {[i EXCEPT !.upper = upper]}]
  BY DEF Config
<1> DEFINE j == [i EXCEPT !.upper = upper]
<1>1. i \in Instances /\ instances[id] = {i}
  BY DEF TypeInv, TypeOK, PairsInv, InstancesInv
<1>2. j.pair = i.pair /\ j.client = i.client /\ j.server = i.server
  BY <1>1 DEF Instances
<1>3. /\ \A c \in Ids : instances'[c] = IF c = id THEN {j} ELSE instances[c]
      /\ ~Busy /\ ~Busy' /\ UNCHANGED <<fds, thread, clientEnds, sent, got, stream>>
  BY DEF TypeInv, TypeOK, Config, Busy, clientVars
<1> HIDE DEF j
<1>4. /\ FreshInv' /\ ReadsInv' /\ Opened' = Opened
      /\ \A p, n : Serves(p, n)' <=> Serves(p, n)
      /\ \A p \in Pairs : At(p, "done")' <=> At(p, "done")
  BY <1>3, HandlerLeaves
<1>5. InstancesInv'
  BY <1>1, <1>2, <1>3, <1>4 DEF PairsInv, InstancesInv
<1>6. OwnersInv'
  <2>1. \A p, n : (\E c \in Ids : \E k \in instances'[c] : k.pair = p /\ k.client = n)
                   <=> (\E c \in Ids : \E k \in instances[c] : k.pair = p /\ k.client = n)
    BY <1>1, <1>2, <1>3
  <2> QED BY <1>3, <1>4, <2>1 DEF PairsInv, OwnersInv
<1> QED BY <1>4, <1>5, <1>6 DEF PairsInv

LEMMA PairsTransferred ==
  ASSUME TypeInv, PairsInv, Transferred
  PROVE  PairsInv'
<1> DEFINE h == handler
<1>1. Busy /\ ~Busy'
  BY DEF Transferred, Store, Sending, Busy
<1>2. h.id \in Ids /\ h.pair \in Pairs /\ h.pair \in Opened /\ instances[h.id] = {}
  BY <1>1, BusyShape DEF TypeInv, PairsInv, InstancesInv, Serves
<1>3. /\ NewInstance.pair = h.pair /\ NewInstance.client = h.client /\ NewInstance.server = h.server
      /\ \A c \in Ids : instances'[c] = IF c = h.id THEN {NewInstance} ELSE instances[c]
      /\ clientEnds' = clientEnds \cup {h.pair} /\ UNCHANGED <<fds, thread, sent, got, stream>>
  BY DEF TypeInv, TypeOK, Transferred, Store, NewInstance
<1>4. /\ FreshInv' /\ ReadsInv' /\ Opened' = Opened
      /\ \A p, n : Serves(p, n)' <=> Serves(p, n)
      /\ \A p \in Pairs : At(p, "done")' <=> At(p, "done")
  BY <1>2, <1>3, HandlerLeaves
<1>5. InstancesInv'
  BY <1>1, <1>2, <1>3, <1>4 DEF PairsInv, InstancesInv
<1>6. OwnersInv'
  <2>1. \A p, n : (\E c \in Ids : \E k \in instances'[c] : k.pair = p /\ k.client = n)
                   <=> \/ \E c \in Ids : \E k \in instances[c] : k.pair = p /\ k.client = n
                       \/ h.pair = p /\ h.client = n
    BY <1>2, <1>3
  <2> QED BY <1>1, <1>3, <1>4, <2>1 DEF PairsInv, OwnersInv
<1> QED BY <1>4, <1>5, <1>6 DEF PairsInv

\* A read() takes some frames off the stream it is blocked on.
LEMMA ReadEffect ==
  ASSUME TypeInv, NEW p \in Pairs, ReadFrames(p)
  PROVE  \E n \in 1 .. Len(stream[thread[p].on]), t \in Threads :
           /\ t.fd = thread[p].fd /\ t.pc = "write"
           /\ t.data = SubSeq(stream[thread[p].on], 1, n)
           /\ thread' = [thread EXCEPT ![p] = t]
           /\ stream' = [stream EXCEPT ![thread[p].on] = SubSeq(@, n + 1, Len(@))]
<1> DEFINE end == thread[p].on
           n   == IF Len(stream[end]) < BufferSize THEN Len(stream[end]) ELSE BufferSize
           t   == [thread[p] EXCEPT !.pc = "write", !.on = NoEnd, !.data = SubSeq(stream[end], 1, n)]
<1>1. /\ p \in Opened /\ thread[p] \in Threads /\ end \in Ends
      /\ stream[end] \in Seq(Frames) /\ n > 0
  BY ThreadShape DEF TypeInv, TypeOK, Shape, ReadFrames, At, Opened
<1>2. n \in 1 .. Len(stream[end])
  BY <1>1, EchoAssumption
<1>3. SubSeq(stream[end], 1, n) \in Seq(Frames)
  BY <1>1, <1>2
<1>4. t \in Threads /\ t.fd = thread[p].fd /\ t.pc = "write" /\ t.data = SubSeq(stream[end], 1, n)
  BY <1>1, <1>3 DEF Threads
<1>5. thread' = [thread EXCEPT ![p] = t]
  BY <1>1 DEF ReadFrames, TypeInv, TypeOK
<1>6. stream' = [stream EXCEPT ![end] = SubSeq(stream[end], n + 1, Len(stream[end]))]
  BY DEF ReadFrames
<1> HIDE DEF t, n
<1> QED BY <1>2, <1>4, <1>5, <1>6

LEMMA PairsEcho ==
  ASSUME TypeInv, PairsInv, NEW p \in Pairs,
         EnterRead(p) \/ ReadFrames(p) \/ ReadEnd(p) \/ Write(p) \/ CloseServer(p)
  PROVE  PairsInv'
<1> USE DEF clientVars, history
<1>1. p \in Opened /\ thread[p] \in Threads /\ thread[p].fd \in Fds /\ TypeOK /\ ~At(p, "done")
  BY ThreadShape DEF TypeInv, EnterRead, ReadFrames, ReadEnd, Write, CloseServer, At, Opened
<1>2. fds[thread[p].fd] = <<p, "server">> /\ fds[thread[p].fd] # NoEnd
  BY <1>1, ServerEnd DEF PairsInv
<1>3. ASSUME NEW t \in Threads, thread' = [thread EXCEPT ![p] = t]
      PROVE  /\ Opened' = Opened
             /\ (t.pc = "blocked" => t.on = <<p, "server">>) => ReadsInv'
  <2>1. t # NoThread /\ \A q \in Pairs : thread'[q] = IF q = p THEN t ELSE thread[q]
    BY <1>1, <1>3 DEF TypeOK, Threads, NoThread
  <2>2. Opened' = Opened
    BY <1>1, <2>1 DEF Opened
  <2> QED BY <2>1, <2>2 DEF PairsInv, ReadsInv, At
<1>4. ASSUME UNCHANGED <<clientEnds, sent, got>>, Opened' = Opened,
             \A q \in Pairs \ Opened :
               UNCHANGED <<stream[<<q, "client">>], stream[<<q, "server">>]>>
      PROVE  FreshInv'
  BY <1>4 DEF PairsInv, FreshInv
<1>5. CASE EnterRead(p)
  <2> DEFINE t == [thread[p] EXCEPT !.pc = "blocked", !.on = <<p, "server">>]
  <2>1. t \in Threads /\ t.fd = thread[p].fd /\ t.pc = "blocked" /\ t.on = <<p, "server">>
    BY <1>1 DEF Threads, Ends
  <2>2. thread' = [thread EXCEPT ![p] = t]
    BY <1>1, <1>2, <1>5 DEF EnterRead, TypeOK
  <2> HIDE DEF t
  <2>3. InstancesInv' /\ OwnersInv'
    BY <1>1, <1>5, <2>1, <2>2, MovesOn DEF EnterRead, PairsInv
  <2> QED BY <1>3, <1>4, <1>5, <2>1, <2>2, <2>3 DEF EnterRead, PairsInv
<1>6. CASE ReadFrames(p)
  <2>1. PICK t \in Threads : /\ t.fd = thread[p].fd /\ t.pc = "write"
                             /\ thread' = [thread EXCEPT ![p] = t]
    BY <1>6, ReadEffect
  <2>4. InstancesInv' /\ OwnersInv'
    BY <1>1, <1>6, <2>1, MovesOn DEF ReadFrames, PairsInv
  <2>5. \A q \in Pairs : q # p =>
          UNCHANGED <<stream[<<q, "client">>], stream[<<q, "server">>]>>
    BY <1>1, <1>6 DEF ReadFrames, PairsInv, ReadsInv, TypeOK, Ends
  <2> QED BY <1>1, <1>3, <1>4, <1>6, <2>1, <2>4, <2>5 DEF ReadFrames, PairsInv
<1>7. CASE ReadEnd(p)
  <2> DEFINE t == [thread[p] EXCEPT !.pc = "close", !.on = NoEnd]
  <2>1. t \in Threads /\ t.fd = thread[p].fd /\ t.pc = "close"
    BY <1>1 DEF Threads
  <2>2. thread' = [thread EXCEPT ![p] = t]
    BY <1>1, <1>7 DEF ReadEnd, TypeOK
  <2> HIDE DEF t
  <2>3. ~Held(<<p, "client">>)
    <3>1. thread[p].on = <<p, "server">> /\ ~Held(Peer(thread[p].on))
      BY <1>7 DEF ReadEnd, PairsInv, ReadsInv
    <3> QED BY <3>1 DEF Peer
  <2>4. /\ \A id \in Ids : \A i \in instances[id] : i.pair # p
        /\ Busy => handler.pair # p
    BY <2>3, ServedIsHeld DEF PairsInv
  <2>5. InstancesInv' /\ OwnersInv'
    BY <1>1, <1>7, <2>1, <2>2, <2>4, MovesOn DEF ReadEnd, PairsInv
  <2> QED BY <1>3, <1>4, <1>7, <2>1, <2>2, <2>5 DEF ReadEnd, PairsInv
<1>8. CASE Write(p)
  <2> DEFINE t == [thread[p] EXCEPT !.pc = "start", !.data = <<>>]
  <2>0. <<>> \in Seq(Frames)
    OBVIOUS
  <2>1. t \in Threads /\ t.fd = thread[p].fd /\ t.pc = "start"
    BY <1>1, <2>0 DEF Threads
  <2>2. thread' = [thread EXCEPT ![p] = t]
    BY <1>1, <1>8 DEF Write, Rewind, TypeOK
  <2> HIDE DEF t
  <2>3. InstancesInv' /\ OwnersInv'
    BY <1>1, <1>8, <2>1, <2>2, MovesOn DEF Write, PairsInv
  <2>4. Peer(fds[thread[p].fd]) = <<p, "client">>
    BY <1>2 DEF Peer
  <2>5. \A q \in Pairs : q # p =>
          UNCHANGED <<stream[<<q, "client">>], stream[<<q, "server">>]>>
    <3>1. stream' = [stream EXCEPT ![<<p, "client">>] = @ \o Echoed(p)]
      BY <1>2, <1>8, <2>4 DEF Write, Unwritten
    <3> QED BY <1>1, <3>1 DEF TypeOK
  <2> QED BY <1>1, <1>3, <1>4, <1>8, <2>1, <2>2, <2>3, <2>5 DEF Write, PairsInv
<1>9. CASE CloseServer(p)
  <2> DEFINE t == [thread[p] EXCEPT !.pc = "done"]
  <2>1. t \in Threads /\ t.fd = thread[p].fd /\ t.pc = "done" /\ thread[p].pc = "close"
    BY <1>1, <1>9 DEF Threads, CloseServer, At
  <2>2. thread' = [thread EXCEPT ![p] = t]
    BY <1>1, <1>9 DEF CloseServer, TypeOK
  <2> HIDE DEF t
  <2>3. /\ \A q \in Pairs : thread'[q] = IF q = p THEN t ELSE thread[q]
        /\ \A n \in Fds : fds'[n] = IF n = thread[p].fd THEN NoEnd ELSE fds[n]
        /\ Opened' = Opened /\ UNCHANGED <<instances, handler, Busy>>
    BY <1>1, <1>3, <1>9, <2>1, <2>2 DEF CloseServer, CloseOwnEnd, CloseFd, TypeOK, Busy
  <2>4. \A q, n : Serves(q, n) => Serves(q, n)'
    BY <2>1, <2>3 DEF Serves, Opened
  <2>5. InstancesInv'
    BY <2>3, <2>4 DEF PairsInv, InstancesInv
  <2>6. OwnersInv'
    <3> SUFFICES ASSUME NEW n \in Fds, NEW q \in Pairs
                 PROVE  /\ fds'[n] = <<q, "client">> <=> fds[n] = <<q, "client">>
                        /\ fds'[n] = <<q, "server">> <=>
                             q \in Opened /\ ~At(q, "done")' /\ thread'[q].fd = n
      BY <2>3 DEF PairsInv, OwnersInv
    <3>1. NoEnd # <<q, "client">> /\ NoEnd # <<q, "server">>
      BY EchoAssumption DEF NoEnd, Pairs
    <3>2. fds[n] = <<q, "server">> <=> q \in Opened /\ ~At(q, "done") /\ thread[q].fd = n
      BY DEF PairsInv, OwnersInv
    <3>3. At(p, "done")' /\ (q # p => (At(q, "done")' <=> At(q, "done")))
      BY <1>1, <2>1, <2>3 DEF At, Threads, NoThread
    <3>4. CASE n = thread[p].fd
      BY <1>2, <2>3, <3>1, <3>2, <3>3, <3>4
    <3>5. CASE n # thread[p].fd
      BY <1>1, <2>3, <3>2, <3>3, <3>5
    <3> QED BY <3>4, <3>5
  <2> QED BY <1>3, <1>4, <1>9, <2>1, <2>2, <2>5, <2>6 DEF CloseServer, PairsInv
<1> QED BY <1>5, <1>6, <1>7, <1>8, <1>9

\* When a broken pipe ends the daemon, everything it had is gone.
LEMMA PairsDie ==
  ASSUME TypeInv, PairsInv, Killed
  PROVE  PairsInv'
<1>1. /\ \A n \in Fds : fds'[n] = NoEnd
      /\ \A id \in Ids : instances'[id] = {}
      /\ ~Busy' /\ UNCHANGED <<clientEnds, sent, got, stream>>
  BY DEF Killed, Busy, clientVars
<1>2. \A q \in Pairs : thread'[q] = IF thread[q] = NoThread THEN NoThread
                              ELSE [thread[q] EXCEPT !.pc = "done", !.on = NoEnd, !.data = <<>>]
  BY DEF Killed
<1>3. \A q \in Opened : thread'[q] # NoThread /\ thread'[q].pc = "done"
  <2> SUFFICES ASSUME NEW q \in Opened PROVE thread'[q] # NoThread /\ thread'[q].pc = "done"
    OBVIOUS
  <2>1. q \in Pairs /\ thread[q] # NoThread /\ thread[q] \in Threads
    BY ThreadShape DEF TypeInv, Opened
  <2>2. thread'[q].pc = "done"
    BY <1>2, <2>1 DEF Threads
  <2> QED BY <2>2 DEF NoThread
<1>4. Opened' = Opened
  BY <1>2, <1>3 DEF Opened
<1>5. FreshInv'
  BY <1>1, <1>4 DEF PairsInv, FreshInv
<1>6. InstancesInv'
  BY <1>1 DEF InstancesInv
<1>7. OwnersInv'
  <2>1. \A q \in Pairs : NoEnd # <<q, "client">> /\ NoEnd # <<q, "server">>
    BY EchoAssumption DEF NoEnd, Pairs
  <2>2. \A q \in Opened : At(q, "done")'
    BY <1>3 DEF At
  <2> QED BY <1>1, <1>4, <2>1, <2>2 DEF OwnersInv
<1>8. ReadsInv'
  BY <1>3, <1>4 DEF ReadsInv, At, Opened
<1> QED BY <1>5, <1>6, <1>7, <1>8 DEF PairsInv

LEMMA PairsClient ==
  ASSUME TypeInv, PairsInv, NEW p \in Pairs, ClientSend(p) \/ ClientReceive(p) \/ ClientExit(p)
  PROVE  PairsInv'
<1>1. UNCHANGED <<fds, instances, handler, thread>> /\ UNCHANGED <<Busy, Opened>>
  BY DEF ClientSend, ClientReceive, ClientExit, daemonVars, Busy, Opened
<1>2. p \in Opened
  BY DEF ClientSend, ClientReceive, ClientExit, PairsInv, FreshInv
<1>3. FreshInv'
  <2>1. \A q \in Pairs : q # p =>
          /\ UNCHANGED <<sent[q], got[q], stream[<<q, "client">>], stream[<<q, "server">>]>>
          /\ q \in clientEnds' <=> q \in clientEnds
    BY DEF ClientSend, ClientReceive, ClientExit, TypeInv, TypeOK, Ends
  <2> QED BY <1>1, <1>2, <2>1 DEF PairsInv, FreshInv
<1>4. InstancesInv' /\ OwnersInv' /\ ReadsInv'
  BY <1>1 DEF PairsInv, InstancesInv, OwnersInv, ReadsInv, Serves, At
<1> QED BY <1>3, <1>4 DEF PairsInv

LEMMA PairsStep ==
  ASSUME TypeInv, PairsInv, Next, failed' = {}
  PROVE  PairsInv'
<1>1. CASE Handler
  <2>1. ~TransferFails
    BY DEF TransferFails
  <2>2. ~CloseServerFd
    BY DEF CloseServerFd, PairsInv, InstancesInv, Busy
  <2> QED BY <1>1, <2>1, <2>2, PairsOpen, PairsClose, PairsConfig, PairsTransferred, PairsDie
     DEF Handler, TransferBreaks
<1>2. ASSUME NEW p \in Pairs, EchoStep(p) PROVE PairsInv'
  BY <1>2, PairsEcho, PairsDie DEF EchoStep, BrokenPipe
<1> QED BY <1>1, <1>2, PairsClient DEF Next

-----------------------------------------------------------------------------
\* The frames of one pair: a read moves some from there to here, a write moves
\* all of here to back, the client adds at one end and takes at the other.
LEMMA ReadInOrder ==
  ASSUME NEW g \in Nat, NEW s \in Nat, NEW back \in Seq(Frames), NEW there \in Seq(Frames),
         InOrder(g, s, back, <<>>, there), NEW n \in 1 .. Len(there)
  PROVE  InOrder(g, s, back, SubSeq(there, 1, n), SubSeq(there, n + 1, Len(there)))
<1>1. /\ Len(SubSeq(there, 1, n)) = n /\ \A k \in 1 .. n : SubSeq(there, 1, n)[k] = there[k]
      /\ Len(SubSeq(there, n + 1, Len(there))) = Len(there) - n
      /\ \A k \in 1 .. Len(there) - n : SubSeq(there, n + 1, Len(there))[k] = there[n + k]
  OBVIOUS
<1>2. /\ Len(back) \in Nat /\ Len(there) \in Nat /\ s = g + Len(back) + Len(there)
      /\ \A k \in 1 .. Len(there) : there[k] = AsSent(g + Len(back) + k)
      /\ \A k \in 1 .. Len(back) : back[k] = AsSent(g + k)
  BY DEF InOrder
<1>3. \A k \in 1 .. Len(there) - n : there[n + k] = AsSent(g + Len(back) + n + k)
  <2> SUFFICES ASSUME NEW k \in 1 .. Len(there) - n
               PROVE  there[n + k] = AsSent(g + Len(back) + n + k)
    OBVIOUS
  <2>1. n + k \in 1 .. Len(there) /\ g + Len(back) + (n + k) = g + Len(back) + n + k
    BY <1>2
  <2> QED BY <1>2, <2>1
<1> DEFINE h == SubSeq(there, 1, n)
           t == SubSeq(there, n + 1, Len(there))
<1>4. /\ Len(h) = n /\ \A k \in 1 .. n : h[k] = there[k]
      /\ Len(t) = Len(there) - n /\ \A k \in 1 .. Len(there) - n : t[k] = there[n + k]
  BY <1>1
<1> HIDE DEF h, t
<1>5. InOrder(g, s, back, h, t)
  BY <1>2, <1>3, <1>4 DEF InOrder
<1> QED BY <1>5 DEF h, t

LEMMA WriteInOrder ==
  ASSUME NEW g \in Nat, NEW s \in Nat, NEW back \in Seq(Frames), NEW here \in Seq(Frames),
         NEW there \in Seq(Frames), InOrder(g, s, back, here, there)
  PROVE  InOrder(g, s, back \o here, <<>>, there)
<1> DEFINE b == back \o here
<1>1. /\ Len(b) = Len(back) + Len(here) /\ Len(<<>>) = 0
      /\ \A k \in 1 .. Len(b) : b[k] = IF k <= Len(back) THEN back[k] ELSE here[k - Len(back)]
  OBVIOUS
<1>2. Len(back) \in Nat /\ Len(here) \in Nat /\ Len(there) \in Nat
  OBVIOUS
<1> HIDE DEF b
<1>3. \A k \in 1 .. Len(b) : b[k] = AsSent(g + k)
  <2> SUFFICES ASSUME NEW k \in 1 .. Len(b) PROVE b[k] = AsSent(g + k)
    OBVIOUS
  <2>1. CASE k <= Len(back)
    BY <1>1, <1>2, <2>1 DEF InOrder
  <2>2. CASE ~(k <= Len(back))
    <3>1. k - Len(back) \in 1 .. Len(here) /\ g + Len(back) + (k - Len(back)) = g + k
      BY <1>1, <1>2, <2>2
    <3> QED BY <1>1, <2>2, <3>1 DEF InOrder
  <2> QED BY <2>1, <2>2
<1>4. InOrder(g, s, b, <<>>, there)
  BY <1>1, <1>2, <1>3 DEF InOrder
<1> QED BY <1>4 DEF b

LEMMA SendInOrder ==
  ASSUME NEW g \in Nat, NEW s \in Nat, NEW back \in Seq(Frames), NEW here \in Seq(Frames),
         NEW there \in Seq(Frames), InOrder(g, s, back, here, there), AsSent(s + 1) \in Frames
  PROVE  InOrder(g, s + 1, back, here, Append(there, AsSent(s + 1)))
<1> DEFINE t == Append(there, AsSent(s + 1))
<1>1. /\ Len(t) = Len(there) + 1 /\ t[Len(there) + 1] = AsSent(s + 1)
      /\ \A k \in 1 .. Len(there) : t[k] = there[k]
  OBVIOUS
<1>2. Len(back) \in Nat /\ Len(here) \in Nat /\ Len(there) \in Nat
  OBVIOUS
<1> HIDE DEF t
<1>3. \A k \in 1 .. Len(t) : t[k] = AsSent(g + Len(back) + Len(here) + k)
  <2> SUFFICES ASSUME NEW k \in 1 .. Len(t)
               PROVE  t[k] = AsSent(g + Len(back) + Len(here) + k)
    OBVIOUS
  <2>1. CASE k <= Len(there)
    BY <1>1, <1>2, <2>1 DEF InOrder
  <2>2. CASE ~(k <= Len(there))
    <3>1. k = Len(there) + 1 /\ s + 1 = g + Len(back) + Len(here) + k
      BY <1>1, <1>2, <2>2 DEF InOrder
    <3> QED BY <1>1, <3>1
  <2> QED BY <2>1, <2>2
<1>4. InOrder(g, s + 1, back, here, t)
  BY <1>1, <1>2, <1>3 DEF InOrder
<1> QED BY <1>4 DEF t

LEMMA ReceiveInOrder ==
  ASSUME NEW g \in Nat, NEW s \in Nat, NEW back \in Seq(Frames), NEW here \in Seq(Frames),
         NEW there \in Seq(Frames), InOrder(g, s, back, here, there), back # <<>>
  PROVE  InOrder(g + 1, s, Tail(back), here, there)
<1> DEFINE b == Tail(back)
<1>1. /\ Len(b) = Len(back) - 1 /\ Len(back) > 0
      /\ \A k \in 1 .. Len(back) - 1 : b[k] = back[k + 1]
  OBVIOUS
<1>2. Len(back) \in Nat /\ Len(here) \in Nat /\ Len(there) \in Nat
  OBVIOUS
<1> HIDE DEF b
<1>3. \A k \in 1 .. Len(b) : b[k] = AsSent(g + 1 + k)
  <2> SUFFICES ASSUME NEW k \in 1 .. Len(b) PROVE b[k] = AsSent(g + 1 + k)
    OBVIOUS
  <2>1. k + 1 \in 1 .. Len(back) /\ g + (k + 1) = g + 1 + k
    BY <1>1, <1>2
  <2> QED BY <1>1, <2>1 DEF InOrder
<1>4. /\ s = (g + 1) + Len(b) + Len(here) + Len(there)
      /\ (g + 1) + Len(b) = g + Len(back)
  BY <1>1, <1>2 DEF InOrder
<1>5. InOrder(g + 1, s, b, here, there)
  BY <1>1, <1>2, <1>3, <1>4 DEF InOrder
<1> QED BY <1>5 DEF b

LEMMA StreamTypes ==
  ASSUME TypeOK, NEW p \in Pairs
  PROVE  /\ <<p, "client">> \in Ends /\ <<p, "server">> \in Ends
         /\ <<p, "client">> # <<p, "server">>
         /\ stream[<<p, "client">>] \in Seq(Frames) /\ stream[<<p, "server">>] \in Seq(Frames)
         /\ sent[p] \in Nat /\ got[p] \in Nat
BY EchoAssumption DEF TypeOK, Ends

\* A step that touches one pair keeps the frames of the others in order.
LEMMA OtherFrames ==
  ASSUME FramesInv, NEW p \in Opened, Opened' = Opened,
         \A q \in Opened : q # p =>
           UNCHANGED <<got[q], sent[q], thread[q].data, stream[<<q, "client">>], stream[<<q, "server">>]>>,
         InOrder(got[p], sent[p], stream[<<p, "client">>], thread[p].data, stream[<<p, "server">>])'
  PROVE  FramesInv'
BY DEF FramesInv

LEMMA FramesEcho ==
  ASSUME TypeInv, PairsInv, FramesInv, NEW p \in Pairs,
         EnterRead(p) \/ ReadFrames(p) \/ ReadEnd(p) \/ Write(p) \/ CloseServer(p)
  PROVE  FramesInv'
<1> USE DEF clientVars, history
<1>1. /\ p \in Opened /\ thread[p] \in Threads /\ TypeOK /\ ~At(p, "done")
      /\ thread[p].data \in Seq(Frames)
  BY ThreadShape DEF TypeInv, EnterRead, ReadFrames, ReadEnd, Write, CloseServer, At, Opened
<1>2. InOrder(got[p], sent[p], stream[<<p, "client">>], thread[p].data, stream[<<p, "server">>])
  BY <1>1 DEF FramesInv
<1>3. At(p, "write") \/ thread[p].data = <<>>
  BY <1>1 DEF TypeInv, Shape
<1>4. UNCHANGED <<got, sent>>
  BY DEF EnterRead, ReadFrames, ReadEnd, Write, CloseServer
<1>5. ASSUME NEW t \in Threads, thread' = [thread EXCEPT ![p] = t]
      PROVE  Opened' = Opened /\ thread'[p] = t /\ \A q \in Pairs : q # p => thread'[q] = thread[q]
  BY <1>1, <1>5 DEF TypeOK, Opened, Threads, NoThread
<1>6. CASE EnterRead(p) \/ ReadEnd(p) \/ CloseServer(p)
  <2>1. PICK t \in Threads : t.data = thread[p].data /\ thread' = [thread EXCEPT ![p] = t]
    <3>1. CASE EnterRead(p)
      <4> DEFINE t == [thread[p] EXCEPT !.pc = IF fds[thread[p].fd] = NoEnd THEN "close" ELSE "blocked",
                                        !.on = fds[thread[p].fd]]
      <4>1. fds[thread[p].fd] \in Ends \cup {NoEnd}
        BY <1>1, ThreadShape DEF TypeOK
      <4>2. t \in Threads /\ t.data = thread[p].data
        BY <1>1, <4>1 DEF Threads
      <4>3. thread' = [thread EXCEPT ![p] = t]
        BY <1>1, <3>1 DEF EnterRead, TypeOK
      <4> HIDE DEF t
      <4> QED BY <4>2, <4>3
    <3>2. CASE ReadEnd(p)
      <4>1. [thread[p] EXCEPT !.pc = "close", !.on = NoEnd] \in Threads
        BY <1>1 DEF Threads
      <4>2. thread' = [thread EXCEPT ![p] = [thread[p] EXCEPT !.pc = "close", !.on = NoEnd]]
        BY <1>1, <3>2 DEF ReadEnd, TypeOK
      <4> QED BY <1>1, <4>1, <4>2 DEF Threads
    <3>3. CASE CloseServer(p)
      <4>1. [thread[p] EXCEPT !.pc = "done"] \in Threads
        BY <1>1 DEF Threads
      <4>2. thread' = [thread EXCEPT ![p] = [thread[p] EXCEPT !.pc = "done"]]
        BY <1>1, <3>3 DEF CloseServer, TypeOK
      <4> QED BY <1>1, <4>1, <4>2 DEF Threads
    <3> QED BY <1>6, <3>1, <3>2, <3>3
  <2>2. UNCHANGED stream
    BY <1>6 DEF EnterRead, ReadEnd, CloseServer
  <2> QED BY <1>1, <1>2, <1>4, <1>5, <2>1, <2>2, OtherFrames DEF Opened
<1>7. CASE ReadFrames(p)
  <2>1. thread[p].on = <<p, "server">> /\ thread[p].data = <<>>
    BY <1>1, <1>3, <1>7 DEF ReadFrames, PairsInv, ReadsInv, At
  <2> DEFINE there == stream[<<p, "server">>]
  <2>2. PICK n \in 1 .. Len(there), t \in Threads :
          /\ t.data = SubSeq(there, 1, n) /\ thread' = [thread EXCEPT ![p] = t]
          /\ stream' = [stream EXCEPT ![<<p, "server">>] = SubSeq(there, n + 1, Len(there))]
    <3>1. PICK n \in 1 .. Len(stream[thread[p].on]), t \in Threads :
            /\ t.data = SubSeq(stream[thread[p].on], 1, n)
            /\ thread' = [thread EXCEPT ![p] = t]
            /\ stream' = [stream EXCEPT ![thread[p].on] = SubSeq(@, n + 1, Len(@))]
      BY <1>7, ReadEffect
    <3> QED BY <2>1, <3>1
  <2>3. /\ stream'[<<p, "server">>] = SubSeq(there, n + 1, Len(there))
        /\ stream'[<<p, "client">>] = stream[<<p, "client">>]
        /\ \A q \in Pairs : q # p =>
             UNCHANGED <<stream[<<q, "client">>], stream[<<q, "server">>]>>
    BY <1>1, <2>2, StreamTypes DEF TypeOK
  <2>4. InOrder(got[p], sent[p], stream[<<p, "client">>],
                SubSeq(there, 1, n), SubSeq(there, n + 1, Len(there)))
    BY <1>1, <1>2, <2>1, ReadInOrder, StreamTypes
  <2> HIDE DEF there
  <2> QED BY <1>1, <1>4, <1>5, <2>2, <2>3, <2>4, OtherFrames DEF Opened
<1>8. CASE Write(p)
  <2> DEFINE t == [thread[p] EXCEPT !.pc = "start", !.data = <<>>]
             here == thread[p].data
  <2>0. <<>> \in Seq(Frames)
    OBVIOUS
  <2>1. t \in Threads /\ t.data = <<>>
    BY <1>1, <2>0 DEF Threads
  <2>2. thread' = [thread EXCEPT ![p] = t]
    BY <1>1, <1>8 DEF Write, Rewind, TypeOK
  <2> HIDE DEF t
  <2>3. Echoed(p) = here
    <3>1. thread[p].upper = FALSE
      BY <1>1 DEF TypeInv, Shape
    <3>2. here \in Seq(Frames) /\ DOMAIN here = 1 .. Len(here)
      BY <1>1
    <3> HIDE DEF here
    <3>3. ASSUME NEW k \in DOMAIN here PROVE <<here[k][1], FALSE>> = here[k]
      <4>1. PICK m : here[k] = AsSent(m)
        BY <1>2, <3>2 DEF InOrder, here
      <4> QED BY <4>1 DEF AsSent
    <3>4. here = [k \in DOMAIN here |-> here[k]]
      BY <3>2
    <3>5. Echoed(p) = [k \in DOMAIN here |-> <<here[k][1], FALSE>>]
      BY <3>1 DEF Echoed, here
    <3> QED BY <3>3, <3>4, <3>5
  <2>4. stream' = [stream EXCEPT ![<<p, "client">>] = @ \o here]
    <3>1. fds[thread[p].fd] = <<p, "server">> /\ fds[thread[p].fd] # NoEnd
      BY <1>1, ServerEnd DEF PairsInv
    <3>2. Peer(fds[thread[p].fd]) = <<p, "client">>
      BY <3>1 DEF Peer
    <3> QED BY <1>8, <2>3, <3>1, <3>2 DEF Write, Unwritten
  <2>5. /\ stream'[<<p, "client">>] = stream[<<p, "client">>] \o here
        /\ stream'[<<p, "server">>] = stream[<<p, "server">>]
        /\ \A q \in Pairs : q # p =>
             UNCHANGED <<stream[<<q, "client">>], stream[<<q, "server">>]>>
    BY <1>1, <2>4, StreamTypes DEF TypeOK
  <2>6. InOrder(got[p], sent[p], stream[<<p, "client">>] \o here, <<>>, stream[<<p, "server">>])
    BY <1>1, <1>2, WriteInOrder, StreamTypes
  <2> HIDE DEF here
  <2> QED BY <1>1, <1>4, <1>5, <2>1, <2>2, <2>5, <2>6, OtherFrames DEF Opened
<1> QED BY <1>6, <1>7, <1>8

LEMMA FramesClient ==
  ASSUME TypeInv, PairsInv, FramesInv, NEW p \in Pairs,
         ClientSend(p) \/ ClientReceive(p) \/ ClientExit(p)
  PROVE  FramesInv'
<1>1. /\ p \in Opened /\ Opened' = Opened /\ UNCHANGED thread /\ TypeOK
      /\ thread[p].data \in Seq(Frames)
  <2>1. p \in Opened /\ TypeOK
    BY DEF ClientSend, ClientReceive, ClientExit, PairsInv, FreshInv, TypeInv
  <2> QED BY <2>1, ThreadShape DEF ClientSend, ClientReceive, ClientExit, daemonVars, Opened
<1>2. InOrder(got[p], sent[p], stream[<<p, "client">>], thread[p].data, stream[<<p, "server">>])
  BY <1>1 DEF FramesInv
<1>3. CASE ClientSend(p)
  <2>1. /\ sent'[p] = sent[p] + 1 /\ UNCHANGED got
        /\ stream'[<<p, "server">>] = Append(stream[<<p, "server">>], AsSent(sent[p] + 1))
        /\ stream'[<<p, "client">>] = stream[<<p, "client">>]
        /\ \A q \in Pairs : q # p =>
             UNCHANGED <<sent[q], stream[<<q, "client">>], stream[<<q, "server">>]>>
    BY <1>1, <1>3, StreamTypes DEF ClientSend, TypeOK, AsSent
  <2>2. sent[p] \in 0 .. MaxFrames /\ sent[p] < MaxFrames
    BY <1>1, <1>3 DEF TypeOK, ClientSend
  <2>3. AsSent(sent[p] + 1) \in Frames
    <3>1. sent[p] + 1 \in 1 .. MaxFrames
      BY <2>2, EchoAssumption
    <3> QED BY <3>1 DEF AsSent, Frames
  <2>4. InOrder(got[p], sent[p] + 1, stream[<<p, "client">>], thread[p].data,
                Append(stream[<<p, "server">>], AsSent(sent[p] + 1)))
    BY <1>1, <1>2, <2>3, SendInOrder, StreamTypes
  <2> QED BY <1>1, <2>1, <2>4, OtherFrames DEF Opened
<1>4. CASE ClientReceive(p)
  <2>1. /\ got'[p] = got[p] + 1 /\ UNCHANGED sent
        /\ stream'[<<p, "client">>] = Tail(stream[<<p, "client">>])
        /\ stream'[<<p, "server">>] = stream[<<p, "server">>]
        /\ \A q \in Pairs : q # p =>
             UNCHANGED <<got[q], stream[<<q, "client">>], stream[<<q, "server">>]>>
    BY <1>1, <1>4, StreamTypes DEF ClientReceive, TypeOK
  <2>2. InOrder(got[p] + 1, sent[p], Tail(stream[<<p, "client">>]), thread[p].data, stream[<<p, "server">>])
    BY <1>1, <1>2, <1>4, ReceiveInOrder, StreamTypes DEF ClientReceive
  <2> QED BY <1>1, <2>1, <2>2, OtherFrames DEF Opened
<1>5. CASE ClientExit(p)
  BY <1>1, <1>5 DEF ClientExit, FramesInv
<1> QED BY <1>3, <1>4, <1>5

LEMMA FramesOpen ==
  ASSUME TypeInv, PairsInv, FramesInv, NEW id \in Ids, OpenPair(id)
  PROVE  FramesInv'
<1>1. PICK p \in Pairs \ Opened : \E server \in Fds :
        /\ Opened' = Opened \cup {p}
        /\ thread' = [thread EXCEPT ![p] =
             [pc |-> "start", fd |-> server, upper |-> FALSE, on |-> NoEnd, data |-> <<>>]]
  BY NewPair
<1>2. thread'[p].data = <<>> /\ \A q \in Pairs : q # p => thread'[q] = thread[q]
  BY <1>1 DEF TypeInv, TypeOK
<1>3. UNCHANGED <<sent, got, stream>>
  BY DEF OpenPair, clientVars
<1>4. sent[p] = 0 /\ got[p] = 0 /\ stream[<<p, "client">>] = <<>> /\ stream[<<p, "server">>] = <<>>
  BY DEF PairsInv, FreshInv
<1>5. InOrder(0, 0, <<>>, <<>>, <<>>)
  <2>1. Len(<<>>) = 0
    OBVIOUS
  <2> QED BY <2>1 DEF InOrder
<1> QED BY <1>1, <1>2, <1>3, <1>4, <1>5 DEF FramesInv, Opened

LEMMA FramesStep ==
  ASSUME TypeInv, PairsInv, FramesInv, Next, alive'
  PROVE  FramesInv'
<1>1. CASE Handler
  <2>1. ASSUME NEW id \in Ids, Close(id) \/ \E upper \in BOOLEAN : Config(id, upper) PROVE FramesInv'
    BY <2>1 DEF FramesInv, Opened, Close, Config, clientVars
  <2>2. CASE Transferred \/ TransferFails \/ CloseServerFd
    BY <2>2 DEF FramesInv, Opened, Transferred, Store, TransferFails, CloseServerFd, clientVars
  <2> QED BY <1>1, <2>1, <2>2, FramesOpen DEF Handler, TransferBreaks, Killed
<1>2. ASSUME NEW p \in Pairs, EchoStep(p) PROVE FramesInv'
  BY <1>2, FramesEcho DEF EchoStep, BrokenPipe, Killed
<1> QED BY <1>1, <1>2, FramesClient DEF Next

LEMMA EchoInvHolds == Spec => []EchoInv
<1>1. Init => EchoInv
  <2> SUFFICES ASSUME Init PROVE EchoInv
    OBVIOUS
  <2>1. /\ Opened = {} /\ ~Busy /\ \A id \in Ids : instances[id] = {}
        /\ \A p \in Pairs : ~At(p, "blocked")
    BY DEF Init, Opened, Busy, At
  <2>2. FreshInv /\ InstancesInv /\ ReadsInv /\ FramesInv
    BY <2>1 DEF Init, FreshInv, InstancesInv, ReadsInv, FramesInv, Ends
  <2>3. OwnersInv
    <3>1. \A p \in Pairs : NoEnd # <<p, "client">> /\ NoEnd # <<p, "server">>
      BY EchoAssumption DEF NoEnd, Pairs
    <3> QED BY <2>1, <3>1 DEF Init, OwnersInv
  <2> QED BY <2>2, <2>3, TypeInit DEF EchoInv, PairsInv
<1>2. EchoInv /\ [Next]_vars => EchoInv'
  <2> SUFFICES ASSUME EchoInv, [Next]_vars PROVE EchoInv'
    OBVIOUS
  <2>1. TypeInv'
    BY TypeStep DEF EchoInv
  <2>2. CASE Next
    <3>1. failed' = {} => failed = {}
      BY <2>2 DEF Next, Handler, OpenPair, Close, CloseInstance, Config, Transferred, Store, TransferFails,
         CloseServerFd, EchoStep, EnterRead, ReadFrames, ReadEnd, Write, BrokenPipe, TransferBreaks, Killed, CloseServer, ClientSend,
         ClientReceive, ClientExit, history
    <3>2. alive' => alive
      BY <2>2 DEF Next, Handler, OpenPair, Close, Config, Transferred, Store, TransferFails,
         CloseServerFd, EchoStep, EnterRead, ReadFrames, ReadEnd, Write, BrokenPipe, TransferBreaks, Killed, CloseServer, ClientSend,
         ClientReceive, ClientExit, daemonVars
    <3> QED BY <2>1, <2>2, <3>1, <3>2, PairsStep, FramesStep DEF EchoInv
  <2>3. CASE UNCHANGED vars
    <3>1. PairsInv => PairsInv'
      BY <2>3 DEF vars, daemonVars, clientVars, PairsInv, FreshInv, InstancesInv, OwnersInv, ReadsInv,
         Opened, Busy, Serves, At
    <3>2. FramesInv => FramesInv'
      BY <2>3 DEF vars, daemonVars, clientVars, FramesInv, Opened
    <3> QED BY <2>1, <2>3, <3>1, <3>2 DEF EchoInv, vars, daemonVars, history
  <2> QED BY <2>2, <2>3
<1> QED BY <1>1, <1>2, PTL DEF Spec

-----------------------------------------------------------------------------
\* EchoBackend.cpp: as long as no transfer has failed, a descriptor is open for
\* exactly as long as somebody will close it: no path of handle_open,
\* handle_close or the threads leaks one or closes one twice.
THEOREM DescriptorsAreOwned == Spec => []DescriptorsHaveOwners
<1>1. EchoInv => DescriptorsHaveOwners
  <2> SUFFICES ASSUME EchoInv, failed = {}, NEW n \in Fds, NEW p \in Pairs
               PROVE  /\ fds[n] = <<p, "client">> <=>
                           \/ \E i \in Registered : i.pair = p /\ i.client = n
                           \/ handler # Idle /\ handler.pair = p /\ handler.client = n
                      /\ fds[n] = <<p, "server">> <=>
                           thread[p] # NoThread /\ thread[p].pc # "done" /\ thread[p].fd = n
    BY DEF DescriptorsHaveOwners
  <2> QED BY DEF EchoInv, PairsInv, OwnersInv, Registered, Busy, Opened, At
<1> QED BY <1>1, EchoInvHolds, PTL

\* EchoBackend.cpp:46-58: until it is closed an instance has a thread that reads
\* or writes its server end, and its stream does not end when the client goes.
THEOREM InstancesAreServed == Spec => []RegisteredIsServed
<1>1. EchoInv => RegisteredIsServed
  <2> SUFFICES ASSUME EchoInv, failed = {}, NEW id \in Ids, NEW i \in instances[id]
               PROVE  /\ thread[i.pair].pc \in {"start", "blocked", "write"}
                      /\ fds[thread[i.pair].fd] = <<i.pair, "server">> /\ Held(<<i.pair, "client">>)
    BY DEF RegisteredIsServed, Registered
  <2>1. i.pair \in Opened /\ thread[i.pair].pc \in {"start", "blocked", "write"} /\ i.pair \in Pairs
    BY DEF EchoInv, PairsInv, InstancesInv, Serves, Opened
  <2>2. fds[thread[i.pair].fd] = <<i.pair, "server">>
    BY <2>1, ServerEnd DEF EchoInv, PairsInv, At
  <2>3. Held(<<i.pair, "client">>)
    BY <2>1, ServedIsHeld DEF EchoInv, PairsInv
  <2> QED BY <2>1, <2>2, <2>3
<1> QED BY <1>1, EchoInvHolds, PTL

\* The echo loop: every frame comes back once and in order, however reads and
\* writes of the thread and of the client are interleaved, for every buffer and
\* every socket size.
THEOREM FramesComeBackInOrder == Spec => []EchoedInOrder
<1>1. ASSUME NEW g \in Nat, NEW s \in Nat, NEW back \in Seq(Frames), NEW here \in Seq(Frames),
             NEW there \in Seq(Frames), InOrder(g, s, back, here, there)
      PROVE  LET all == back \o (here \o there)
             IN Len(all) = s - g /\ \A i \in DOMAIN all : all[i] = AsSent(g + i)
  <2> DEFINE h   == here \o there
             all == back \o h
  <2>1. /\ h \in Seq(Frames) /\ Len(h) = Len(here) + Len(there)
        /\ \A k \in 1 .. Len(h) : h[k] = IF k <= Len(here) THEN here[k] ELSE there[k - Len(here)]
    OBVIOUS
  <2> HIDE DEF h
  <2>2. /\ DOMAIN all = 1 .. Len(all) /\ Len(all) = Len(back) + Len(h)
        /\ \A k \in 1 .. Len(all) : all[k] = IF k <= Len(back) THEN back[k] ELSE h[k - Len(back)]
    <3>1. h \in Seq(Frames)
      BY <2>1
    <3> QED BY <3>1
  <2> HIDE DEF all
  <2>3. Len(back) \in Nat /\ Len(here) \in Nat /\ Len(there) \in Nat
    OBVIOUS
  <2>4. Len(all) = s - g
    BY <1>1, <2>1, <2>2, <2>3 DEF InOrder
  <2>5. ASSUME NEW k \in 1 .. Len(all) PROVE all[k] = AsSent(g + k)
    <3>1. CASE k <= Len(back)
      <4>1. k \in 1 .. Len(back) /\ all[k] = back[k]
        BY <2>2, <2>3, <3>1
      <4> QED BY <1>1, <4>1 DEF InOrder
    <3>2. CASE ~(k <= Len(back)) /\ k - Len(back) <= Len(here)
      <4>1. /\ k - Len(back) \in 1 .. Len(here) /\ k - Len(back) \in 1 .. Len(h)
            /\ g + Len(back) + (k - Len(back)) = g + k
        BY <2>1, <2>2, <2>3, <3>2
      <4> QED BY <1>1, <2>1, <2>2, <3>2, <4>1 DEF InOrder
    <3>3. CASE ~(k <= Len(back)) /\ ~(k - Len(back) <= Len(here))
      <4> DEFINE m == (k - Len(back)) - Len(here)
      <4>1. /\ m \in 1 .. Len(there) /\ k - Len(back) \in 1 .. Len(h)
            /\ g + Len(back) + Len(here) + m = g + k
        BY <2>1, <2>2, <2>3, <3>3
      <4>2. all[k] = there[m]
        BY <2>1, <2>2, <3>3, <4>1
      <4> HIDE DEF m
      <4> QED BY <1>1, <4>1, <4>2 DEF InOrder
    <3> QED BY <3>1, <3>2, <3>3
  <2> QED BY <2>2, <2>4, <2>5 DEF all, h
<1>2. EchoInv => EchoedInOrder
  <2> SUFFICES ASSUME EchoInv, failed = {}, alive, NEW p \in Opened
               PROVE  LET back  == stream[<<p, "client">>]
                          there == thread[p].data \o stream[<<p, "server">>]
                          all   == back \o there
                      IN /\ Len(all) = sent[p] - got[p]
                         /\ \A i \in DOMAIN all : all[i][1] = got[p] + i
    BY DEF EchoedInOrder
  <2>1. /\ InOrder(got[p], sent[p], stream[<<p, "client">>], thread[p].data, stream[<<p, "server">>])
        /\ thread[p].data \in Seq(Frames) /\ p \in Pairs /\ TypeOK
    BY ThreadShape DEF EchoInv, FramesInv, TypeInv
  <2> DEFINE g     == got[p]
             s     == sent[p]
             back  == stream[<<p, "client">>]
             here  == thread[p].data
             there == stream[<<p, "server">>]
  <2>2. /\ g \in Nat /\ s \in Nat /\ back \in Seq(Frames) /\ here \in Seq(Frames)
        /\ there \in Seq(Frames) /\ InOrder(g, s, back, here, there)
    BY <2>1, StreamTypes
  <2> HIDE DEF g, s, back, here, there
  <2>3. LET all == back \o (here \o there)
        IN Len(all) = s - g /\ \A i \in DOMAIN all : all[i] = AsSent(g + i)
    BY <1>1, <2>2
  <2>4. \A k : AsSent(k)[1] = k
    BY DEF AsSent
  <2> QED BY <2>3, <2>4 DEF g, s, back, here, there
<1> QED BY <1>2, EchoInvHolds, PTL

\* EchoBackend.cpp:139, "server side will be closed by the thread": only a failed
\* transfer breaks this.  Without one, a registered instance keeps its end as
\* long as the daemon lives.
THEOREM EndsAreTakenByFailedTransfersOnly ==
  Spec => [][failed' = {} /\ alive' => \A i \in Registered :
               fds[i.server] = <<i.pair, "server">> => fds'[i.server] = <<i.pair, "server">>]_vars
<1> DEFINE Kept == failed' = {} /\ alive' => \A i \in Registered :
                     fds[i.server] = <<i.pair, "server">> => fds'[i.server] = <<i.pair, "server">>
<1>1. EchoInv /\ Next => Kept
  <2> SUFFICES ASSUME EchoInv, Next, failed' = {}, alive', NEW id \in Ids, NEW i \in instances[id],
                      fds[i.server] = <<i.pair, "server">>
               PROVE  fds'[i.server] = <<i.pair, "server">>
    BY DEF Registered
  <2>1. /\ TypeInv /\ i \in Instances /\ i.server \in Fds /\ i.pair \in Pairs
        /\ fds \in [Fds -> Ends \cup {NoEnd}] /\ fds[i.server] # NoEnd
    <3>1. i \in Instances /\ TypeInv /\ fds \in [Fds -> Ends \cup {NoEnd}]
      BY DEF EchoInv, TypeInv, TypeOK
    <3>2. i.pair \in Pairs /\ i.server \in Fds
      BY <3>1 DEF Instances
    <3> QED BY <3>1, <3>2, EchoAssumption DEF NoEnd, Pairs
  <2>2. PairsInv
    BY DEF EchoInv, Next, Handler, OpenPair, Close, CloseInstance, Config, Transferred, Store, TransferFails,
         CloseServerFd, EchoStep, EnterRead, ReadFrames, ReadEnd, Write, BrokenPipe, TransferBreaks, Killed, CloseServer, ClientSend,
         ClientReceive, ClientExit, history
  <2>3. ASSUME NEW c \in Ids, OpenPair(c) PROVE fds'[i.server] = fds[i.server]
    <3>1. PICK p \in Pairs \ Opened, client \in Fds, server \in Fds :
            /\ fds[client] = NoEnd /\ fds[server] = NoEnd
            /\ fds' = [fds EXCEPT ![client] = <<p, "client">>, ![server] = <<p, "server">>]
      BY <2>1, <2>3, NewPair
    <3> QED BY <2>1, <3>1
  <2>4. ASSUME NEW c \in Ids, Close(c) PROVE fds'[i.server] = fds[i.server]
    <3>1. PICK j \in instances[c] : CloseInstance(j)
      BY <2>4 DEF Close
    <3>2. j.client \in Fds /\ j.pair \in Pairs
      BY <2>1 DEF TypeInv, TypeOK, Instances
    <3>3. fds[j.client] = <<j.pair, "client">>
      BY <2>2, <3>2 DEF PairsInv, OwnersInv
    <3> QED BY <2>1, <3>1, <3>2, <3>3 DEF CloseInstance, CloseFd
  <2>5. ASSUME NEW p \in Pairs, CloseServer(p) PROVE fds'[i.server] = fds[i.server]
    <3>1. p \in Opened /\ ~At(p, "done") /\ At(p, "close")
      BY <2>5 DEF CloseServer, At, Opened
    <3>2. fds[thread[p].fd] = <<p, "server">> /\ thread[p].fd \in Fds
      BY <2>1, <2>2, <3>1, ServerEnd, ThreadShape DEF PairsInv, TypeInv
    <3>3. thread[p].fd # i.server
      BY <2>2, <3>1, <3>2 DEF PairsInv, InstancesInv, Serves, At
    <3> QED BY <2>1, <2>5, <3>2, <3>3 DEF CloseServer, CloseOwnEnd, CloseFd
  <2>6. ~TransferFails /\ ~CloseServerFd
    BY <2>2 DEF TransferFails, CloseServerFd, PairsInv, InstancesInv, Busy
  <2>7. CASE Handler
    BY <2>3, <2>4, <2>6, <2>7 DEF Handler, Config, Transferred, TransferBreaks, Killed
  <2>8. ASSUME NEW p \in Pairs, EchoStep(p) PROVE fds'[i.server] = fds[i.server]
    BY <2>5, <2>8 DEF EchoStep, EnterRead, ReadFrames, ReadEnd, Write, BrokenPipe, Killed
  <2> QED BY <2>7, <2>8 DEF Next, ClientSend, ClientReceive, ClientExit, daemonVars
<1>2. EchoInv /\ [Next]_vars => [Kept]_vars
  BY <1>1
<1> QED BY <1>2, EchoInvHolds, PTL DEF Spec
=============================================================================
