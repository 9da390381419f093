----------------------------- MODULE ReadProofs -----------------------------
(***************************************************************************)
(* The chain of reads of an interface.  Each open starts one chain: a read *)
(* is posted, registered, handled and posted again.  The argument counts   *)
(* the chains; where there is one, its place says whether the frame in     *)
(* m_read_buffer was delivered.                                            *)
(***************************************************************************)
EXTENDS RingProofs, FiniteSetTheorems

\* Where the chains of an interface are.
Reads(i) == {a \in active : a.op = ReadOf(i)}

Posters(i) == {t \in Threads : Submitting(t, ReadOf(i))}

InHand(i) == InCallback /\ cur.op = ReadOf(i)

Hand(i) == IF InHand(i) THEN 1 ELSE 0

\* Threads in a submission, and requests, come one at a time.
FiniteInv == IsFiniteSet(active) /\ IsFiniteSet({t \in Threads : step[t] # "none"})

Keeps(i) ==
  ifState[i] = "Open" /\ ReadOf(i) \notin dropped /\ lpc # "terminated" => ReadChains(i) > 0

ChainsInv == \A i \in Ifaces : ReadChains(i) <= opens[i] /\ Keeps(i)

\* A frame the kernel has read and the callback has not delivered.
Completed(i) == \E k \in Unhandled : cq[k].op = ReadOf(i) /\ cq[k].res.kind = "ok"

Called(i) == lpc = "call" /\ cur.op = ReadOf(i) /\ cur.res.kind = "ok"

Waiting(i) == IF Completed(i) \/ Called(i) THEN 1 ELSE 0

DeliveryInv ==
  ~early => \A i \in Ifaces : opens[i] <= 1 =>
    /\ buffer[i] = taken[i]
    /\ taken[i] = Len(delivered[i]) + Waiting(i)
    /\ \A k \in 1 .. Len(delivered[i]) : delivered[i][k] = k

ReadInv == SafeRing /\ FiniteInv /\ ChainsInv /\ DeliveryInv
-----------------------------------------------------------------------------
LEMMA ChainsCounted ==
  ASSUME NEW i
  PROVE  /\ ReadChains(i) = Cardinality(Reads(i)) + Cardinality(Posters(i)) + Hand(i)
         /\ ReadChains(i)' = Cardinality(Reads(i)') + Cardinality(Posters(i)') + Hand(i)'
BY DEF ReadChains, Reads, Posters, Hand, InHand, InCallback

LEMMA ReadInit == Init => ReadInv
<1> SUFFICES ASSUME Init PROVE ReadInv
  OBVIOUS
<1> USE DEF Init, RingInit, IfaceInit
<1>1. FiniteInv
  <2>1. {t \in Threads : step[t] # "none"} = {}
    OBVIOUS
  <2> QED BY <2>1, FS_EmptySet DEF FiniteInv
<1>2. ChainsInv
  <2> SUFFICES ASSUME NEW i \in Ifaces PROVE ReadChains(i) <= opens[i] /\ Keeps(i)
    BY DEF ChainsInv
  <2>1. Reads(i) = {} /\ Posters(i) = {} /\ Hand(i) = 0
    BY DEF Reads, Posters, Submitting, Hand, InHand, InCallback
  <2>2. Cardinality(Reads(i)) = 0 /\ Cardinality(Posters(i)) = 0
    BY <2>1, FS_EmptySet
  <2>3. ReadChains(i) = Cardinality(Reads(i)) + Cardinality(Posters(i)) + Hand(i)
    BY ChainsCounted
  <2>4. ReadChains(i) = 0
    <3> HIDE DEF Init, RingInit, IfaceInit
    <3> QED BY <2>1, <2>2, <2>3
  <2> QED BY <2>4 DEF Keeps
<1>3. DeliveryInv
  BY DEF DeliveryInv, Waiting, Completed, Called, Unhandled
<1>4. SafeRing
  BY RingTypeInit, PlaceInit DEF SafeRing
<1> QED BY <1>1, <1>2, <1>3, <1>4 DEF ReadInv

\* The places of a chain are finite, and its numbers are numbers.
LEMMA ChainsFinite ==
  ASSUME FiniteInv, NEW i
  PROVE  /\ IsFiniteSet(Reads(i)) /\ Cardinality(Reads(i)) \in Nat
         /\ IsFiniteSet(Posters(i)) /\ Cardinality(Posters(i)) \in Nat
         /\ Hand(i) \in {0, 1}
<1>1. Reads(i) \in SUBSET active
  BY DEF Reads
<1>2. Posters(i) \in SUBSET {t \in Threads : step[t] # "none"}
  BY DEF Posters, Submitting
<1>3. IsFiniteSet(Reads(i)) /\ IsFiniteSet(Posters(i))
  BY <1>1, <1>2, FS_Subset DEF FiniteInv
<1> QED BY <1>3, FS_CardinalityType DEF Hand

\* Steps that leave the places alone keep the chains.
LEMMA ChainsKept ==
  ASSUME ChainsInv, UNCHANGED <<active, step, want, opens, dropped>>,
         \A i \in Ifaces : Hand(i)' = Hand(i),
         \A i \in Ifaces : ifState'[i] = "Open" => ifState[i] = "Open",
         lpc = "terminated" => lpc' = "terminated"
  PROVE  ChainsInv'
<1> SUFFICES ASSUME NEW i \in Ifaces
             PROVE  ReadChains(i)' <= opens'[i] /\ Keeps(i)'
  BY DEF ChainsInv
<1>1. Reads(i)' = Reads(i) /\ Posters(i)' = Posters(i)
  BY DEF Reads, Posters, Submitting
<1>2. ReadChains(i)' = ReadChains(i)
  BY <1>1, ChainsCounted
<1> QED BY <1>2 DEF ChainsInv, Keeps

LEMMA FiniteKept ==
  ASSUME FiniteInv, UNCHANGED <<active, step>>
  PROVE  FiniteInv'
BY DEF FiniteInv

-----------------------------------------------------------------------------
\* A submission begins: one poster more, if it is of a read.
LEMMA PostersGrow ==
  ASSUME ReadInv, NEW t \in Threads, NEW op, BeginSubmit(t, op), NEW i
  PROVE  /\ op # ReadOf(i) => Posters(i)' = Posters(i)
         /\ op = ReadOf(i) => Cardinality(Posters(i)') = Cardinality(Posters(i)) + 1
<1>1. /\ step \in [Threads -> Steps]
      /\ want \in [Threads -> Operations \cup {None}]
  BY DEF ReadInv, SafeRing, TypeInv, TypeOK, RingTypeOK
<1>2. t \notin Posters(i)
  BY DEF Posters, Submitting, BeginSubmit
<1>3. op # ReadOf(i) => Posters(i)' = Posters(i)
  BY <1>1 DEF Posters, Submitting, BeginSubmit
<1>4. op = ReadOf(i) => Posters(i)' = Posters(i) \cup {t}
  BY <1>1 DEF Posters, Submitting, BeginSubmit
<1>5. IsFiniteSet(Posters(i))
  BY ChainsFinite DEF ReadInv
<1> QED BY <1>2, <1>3, <1>4, <1>5, FS_AddElement

LEMMA FiniteBegin ==
  ASSUME ReadInv, NEW t \in Threads, NEW op, BeginSubmit(t, op), UNCHANGED active
  PROVE  FiniteInv'
<1> DEFINE InCall == {u \in Threads : step[u] # "none"}
<1>1. step \in [Threads -> Steps]
  BY DEF ReadInv, SafeRing, TypeInv, TypeOK, RingTypeOK
<1>2. InCall' = InCall \cup {t}
  BY <1>1 DEF BeginSubmit
<1>3. IsFiniteSet(InCall)
  BY DEF ReadInv, FiniteInv
<1> HIDE DEF InCall
<1>4. IsFiniteSet(InCall')
  BY <1>2, <1>3, FS_AddElement
<1> QED BY <1>4 DEF ReadInv, FiniteInv, InCall

\* A submission ends: its thread is no poster any more.
LEMMA PostersShrink ==
  ASSUME ReadInv, NEW t \in Threads, step[t] \in {"get", "prepared"}, NEW i,
         \A u \in Threads \ {t} : step'[u] = step[u] /\ want'[u] = want[u],
         step'[t] \in {"none", "registered"}
  PROVE  /\ want[t] # ReadOf(i) => Posters(i)' = Posters(i)
         /\ want[t] = ReadOf(i) => Cardinality(Posters(i)') = Cardinality(Posters(i)) - 1
<1>1. want[t] # ReadOf(i) => t \notin Posters(i) /\ Posters(i)' = Posters(i)
  BY DEF Posters, Submitting
<1>2. want[t] = ReadOf(i) => t \in Posters(i) /\ Posters(i)' = Posters(i) \ {t}
  BY DEF Posters, Submitting
<1>3. IsFiniteSet(Posters(i))
  BY ChainsFinite DEF ReadInv
<1> QED BY <1>1, <1>2, <1>3, FS_RemoveElement

-----------------------------------------------------------------------------
LEMMA ReadOfIs ==
  ASSUME NEW i, NEW j
  PROVE  /\ ReadOf(i) = ReadOf(j) => i = j
         /\ WriteOf(j) # ReadOf(i)
         /\ ReadOf(i).iface = i /\ ReadOf(i).kind = "read"
BY DEF ReadOf, WriteOf

\* One poster more of one interface; its chains and its opens grow together.
LEMMA ChainsBegin ==
  ASSUME ReadInv, NEW t \in Threads, NEW op, BeginSubmit(t, op),
         UNCHANGED <<active, dropped, lpc, cur>>,
         \A i \in Ifaces : \/ op = ReadOf(i) /\ opens'[i] = opens[i] + 1
                           \/ op # ReadOf(i) /\ opens'[i] = opens[i] /\ ifState'[i] = ifState[i]
  PROVE  FiniteInv' /\ ChainsInv'
<1>1. FiniteInv'
  BY FiniteBegin
<1>2. ASSUME NEW i \in Ifaces
      PROVE  ReadChains(i)' <= opens'[i] /\ Keeps(i)'
  <2>1. Reads(i)' = Reads(i) /\ Hand(i)' = Hand(i)
    BY DEF Reads, Hand, InHand, InCallback
  <2>2. /\ op # ReadOf(i) => Posters(i)' = Posters(i)
        /\ op = ReadOf(i) => Cardinality(Posters(i)') = Cardinality(Posters(i)) + 1
    BY PostersGrow
  <2>3. /\ Cardinality(Reads(i)) \in Nat /\ Cardinality(Posters(i)) \in Nat
        /\ Hand(i) \in {0, 1} /\ opens[i] \in Nat
    BY ChainsFinite DEF ReadInv, SafeRing, TypeInv, TypeOK, IfaceTypeOK
  <2>4. ReadChains(i) <= opens[i] /\ Keeps(i)
    BY DEF ReadInv, ChainsInv
  <2>5. CASE op = ReadOf(i)
    <3>1. ReadChains(i)' = ReadChains(i) + 1 /\ ReadChains(i) \in Nat
      BY <2>1, <2>2, <2>3, <2>5, ChainsCounted
    <3> QED BY <2>3, <2>4, <2>5, <3>1 DEF Keeps
  <2>6. CASE op # ReadOf(i)
    <3>1. ReadChains(i)' = ReadChains(i)
      BY <2>1, <2>2, <2>6, ChainsCounted
    <3> QED BY <2>4, <2>6, <3>1 DEF Keeps
  <2> QED BY <2>5, <2>6
<1> QED BY <1>1, <1>2 DEF ChainsInv

\* A program's calls.
LEMMA ChainsApp ==
  ASSUME ReadInv, NEW t \in Threads, AppStep(t)
  PROVE  FiniteInv' /\ ChainsInv'
<1> USE DEF ReadInv, SafeRing, TypeInv, TypeOK, IfaceTypeOK
<1>1. ASSUME NEW j \in Ifaces, OpenInternal(t, j) PROVE FiniteInv' /\ ChainsInv'
  <2>1. /\ BeginSubmit(t, ReadOf(j)) /\ UNCHANGED <<active, dropped, lpc, cur>>
        /\ opens' = [opens EXCEPT ![j] = @ + 1] /\ ifState' = [ifState EXCEPT ![j] = "Open"]
    BY <1>1 DEF OpenInternal, loopVars, tableVars
  <2>2. \A i \in Ifaces :
          \/ ReadOf(j) = ReadOf(i) /\ opens'[i] = opens[i] + 1
          \/ ReadOf(j) # ReadOf(i) /\ opens'[i] = opens[i] /\ ifState'[i] = ifState[i]
    BY <2>1, ReadOfIs
  <2> HIDE DEF ReadInv
  <2> QED BY <2>1, <2>2, ChainsBegin
<1>2. ASSUME NEW j \in Ifaces, SendFrame(t, j) PROVE FiniteInv' /\ ChainsInv'
  <2>1. /\ BeginSubmit(t, WriteOf(j)) /\ UNCHANGED <<active, dropped, lpc, cur>>
        /\ UNCHANGED <<opens, ifState>>
    BY <1>2 DEF SendFrame, loopVars, tableVars
  <2>2. \A i \in Ifaces :
          \/ WriteOf(j) = ReadOf(i) /\ opens'[i] = opens[i] + 1
          \/ WriteOf(j) # ReadOf(i) /\ opens'[i] = opens[i] /\ ifState'[i] = ifState[i]
    BY <2>1, ReadOfIs
  <2> HIDE DEF ReadInv
  <2> QED BY <2>1, <2>2, ChainsBegin
<1>3. ASSUME (\E j \in Ifaces : CloseInternal(t, j)) \/ (Stop /\ UNCHANGED ifaceVars)
      PROVE  FiniteInv' /\ ChainsInv'
  <2>1. /\ UNCHANGED <<active, step, want, opens, dropped, lpc, cur>>
        /\ \A i \in Ifaces : ifState'[i] = "Open" => ifState[i] = "Open"
    BY <1>3 DEF CloseInternal, Stop, ringVars, loopVars, submitVars, threadVars, tableVars,
           ifaceVars
  <2>2. \A i \in Ifaces : Hand(i)' = Hand(i)
    BY <2>1 DEF Hand, InHand, InCallback
  <2> QED BY <2>1, <2>2, ChainsKept, FiniteKept
<1> QED BY <1>1, <1>2, <1>3 DEF AppStep

\* The steps inside a submission: what leaves the posters is registered, unless
\* the queue was full.
LEMMA ChainsThread ==
  ASSUME ReadInv, NEW t \in Threads, ThreadStep(t)
  PROVE  FiniteInv' /\ ChainsInv'
<1> DEFINE InCall == {u \in Threads : step[u] # "none"}
<1>0. /\ step \in [Threads -> Steps]
      /\ want \in [Threads -> Operations \cup {None}]
      /\ opens \in [Ifaces -> 0 .. MaxOpens]
  BY DEF ReadInv, SafeRing, TypeInv, TypeOK, RingTypeOK, IfaceTypeOK
<1>1. /\ UNCHANGED <<lpc, cur, opens, ifState>>
      /\ \A i : Hand(i)' = Hand(i)
  BY DEF ThreadStep, SubmitStep, QueueFull, ReadTail, AdvanceTail, Prepare, Register, SetData,
         loopVars, ifaceVars, Hand, InHand, InCallback
<1>2. InCall' = InCall \/ InCall' = InCall \ {t}
  BY <1>0 DEF ThreadStep, SubmitStep, QueueFull, ReadTail, AdvanceTail, Prepare, Register,
              SetData, Return
<1>3. IsFiniteSet(InCall)
  BY DEF ReadInv, FiniteInv
<1> HIDE DEF InCall
<1>4. IsFiniteSet(InCall')
  BY <1>2, <1>3, FS_RemoveElement
<1>5. ASSUME NEW i \in Ifaces
      PROVE  /\ ReadChains(i) <= opens[i] /\ Keeps(i) /\ opens[i] \in Nat
             /\ Cardinality(Reads(i)) \in Nat /\ Cardinality(Posters(i)) \in Nat
             /\ Hand(i) \in {0, 1}
  BY <1>0, ChainsFinite, OpensAssumption DEF ReadInv, ChainsInv
<1>6. CASE QueueFull(t)
  <2>1. FiniteInv'
    BY <1>4, <1>6 DEF QueueFull, tableVars, ReadInv, FiniteInv, InCall
  <2>2. ASSUME NEW i \in Ifaces
        PROVE  ReadChains(i)' <= opens'[i] /\ Keeps(i)'
    <3>1. Reads(i)' = Reads(i)
      BY <1>6 DEF QueueFull, tableVars, Reads
    <3>2. /\ \A u \in Threads \ {t} : step'[u] = step[u] /\ want'[u] = want[u]
          /\ step'[t] = "none" /\ step[t] = "get" /\ dropped' = dropped \cup {want[t]}
      BY <1>0, <1>6 DEF QueueFull, Return
    <3>3. /\ want[t] # ReadOf(i) => Posters(i)' = Posters(i)
          /\ want[t] = ReadOf(i) => Cardinality(Posters(i)') = Cardinality(Posters(i)) - 1
      BY <3>2, PostersShrink
    <3>4. CASE want[t] = ReadOf(i)
      <4>1. ReadChains(i)' = ReadChains(i) - 1 /\ ReadChains(i) \in Nat
        BY <1>1, <1>5, <3>1, <3>3, <3>4, ChainsCounted
      <4> QED BY <1>1, <1>5, <3>2, <3>4, <4>1 DEF Keeps
    <3>5. CASE want[t] # ReadOf(i)
      <4>1. ReadChains(i)' = ReadChains(i)
        BY <1>1, <3>1, <3>3, <3>5, ChainsCounted
      <4> QED BY <1>1, <1>5, <3>2, <4>1 DEF Keeps
    <3> QED BY <3>4, <3>5
  <2> QED BY <2>1, <2>2 DEF ChainsInv
<1>7. CASE ReadTail(t) \/ AdvanceTail(t) \/ Prepare(t) \/ SetData(t)
  <2>1. active' = active /\ dropped' = dropped
    BY <1>7 DEF ReadTail, AdvanceTail, Prepare, SetData, tableVars
  <2>2. FiniteInv'
    BY <1>4, <2>1 DEF ReadInv, FiniteInv, InCall
  <2>3. ASSUME NEW i \in Ifaces
        PROVE  ReadChains(i)' <= opens'[i] /\ Keeps(i)'
    <3>1. Reads(i)' = Reads(i)
      BY <2>1 DEF Reads
    <3>2. Posters(i)' = Posters(i)
      BY <1>0, <1>7 DEF ReadTail, AdvanceTail, Prepare, SetData, Return, Posters, Submitting
    <3>3. ReadChains(i)' = ReadChains(i)
      BY <1>1, <3>1, <3>2, ChainsCounted
    <3> QED BY <1>1, <1>5, <2>1, <3>3 DEF Keeps
  <2> QED BY <2>2, <2>3 DEF ChainsInv
<1>8. CASE Register(t)
  <2> DEFINE new == [op |-> want[t], id |-> nextId]
  <2>1. /\ active' = active \cup {new} /\ dropped' = dropped /\ step[t] = "prepared"
        /\ step'[t] = "registered" /\ new.op = want[t]
        /\ \A u \in Threads \ {t} : step'[u] = step[u] /\ want'[u] = want[u]
    BY <1>0, <1>8 DEF Register
  <2>2. new \notin active
    <3>1. new.id = nextId /\ nextId \in Nat
      BY DEF ReadInv, SafeRing, TypeInv, TypeOK, RingTypeOK, RequestIds
    <3>2. \A a \in active : a.id < nextId
      BY DEF ReadInv, SafeRing, PlaceInv, IdsInv
    <3> QED BY <3>1, <3>2
  <2> HIDE DEF new
  <2>3. IsFiniteSet(active')
    BY <2>1, FS_AddElement DEF ReadInv, FiniteInv
  <2>4. FiniteInv'
    BY <1>4, <2>3 DEF FiniteInv, InCall
  <2>5. ASSUME NEW i \in Ifaces
        PROVE  ReadChains(i)' <= opens'[i] /\ Keeps(i)'
    <3>1. /\ want[t] # ReadOf(i) => Posters(i)' = Posters(i)
          /\ want[t] = ReadOf(i) => Cardinality(Posters(i)') = Cardinality(Posters(i)) - 1
      BY <2>1, PostersShrink
    <3>2. /\ want[t] # ReadOf(i) => Reads(i)' = Reads(i)
          /\ want[t] = ReadOf(i) => Reads(i)' = Reads(i) \cup {new} /\ new \notin Reads(i)
      BY <2>1, <2>2 DEF Reads
    <3>3. want[t] = ReadOf(i) => Cardinality(Reads(i)') = Cardinality(Reads(i)) + 1
      BY <3>2, ChainsFinite, FS_AddElement DEF ReadInv
    <3>4. ReadChains(i)' = ReadChains(i)
      <4>1. CASE want[t] = ReadOf(i)
        BY <1>1, <1>5, <3>1, <3>3, <4>1, ChainsCounted
      <4>2. CASE want[t] # ReadOf(i)
        BY <1>1, <3>1, <3>2, <4>2, ChainsCounted
      <4> QED BY <4>1, <4>2
    <3> QED BY <1>1, <1>5, <2>1, <3>4 DEF Keeps
  <2> QED BY <2>4, <2>5 DEF ChainsInv
<1> QED BY <1>6, <1>7, <1>8 DEF ThreadStep, SubmitStep

\* A completion that is handled takes its chain from the table into the hand.
LEMMA ChainsNext ==
  ASSUME ReadInv, NextCompletion, UNCHANGED ifaceVars
  PROVE  FiniteInv' /\ ChainsInv'
<1>0. /\ lpc = "next" /\ UNCHANGED <<step, want, dropped, opens, ifState>>
      /\ active' = active \ Registered(cq[seen + 1].id)
  BY DEF NextCompletion, submitVars, threadVars, ifaceVars
<1>1. ASSUME Registered(cq[seen + 1].id) = {}, UNCHANGED <<cur, ran, lpc>>
      PROVE  FiniteInv' /\ ChainsInv'
  <2>1. active' = active /\ \A i : Hand(i)' = Hand(i)
    BY <1>0, <1>1 DEF Hand, InHand, InCallback
  <2> QED BY <1>0, <1>1, <2>1, ChainsKept, FiniteKept DEF ReadInv
<1> SUFFICES ASSUME CallBack(cq[seen + 1]) PROVE FiniteInv' /\ ChainsInv'
  BY <1>1 DEF NextCompletion
<1> PICK entry \in Registered(cq[seen + 1].id) :
      cur' = [op |-> entry.op, id |-> cq[seen + 1].id, res |-> cq[seen + 1].res]
  BY DEF CallBack
<1>2. entry \in active /\ Registered(cq[seen + 1].id) = {entry}
  BY DEF Registered, ReadInv, SafeRing, PlaceInv, IdsInv
<1>3. /\ active' = active \ {entry} /\ cur'.op = entry.op /\ lpc' = "call" /\ lpc = "next"
      /\ UNCHANGED <<step, want, dropped, opens, ifState>>
  BY <1>0, <1>2 DEF CallBack
<1>4. IsFiniteSet(active')
  BY <1>3, FS_RemoveElement DEF ReadInv, FiniteInv
<1>5. FiniteInv'
  BY <1>3, <1>4 DEF ReadInv, FiniteInv
<1>6. ASSUME NEW i \in Ifaces
      PROVE  ReadChains(i)' <= opens'[i] /\ Keeps(i)'
  <2>1. Posters(i)' = Posters(i) /\ Hand(i) = 0
    BY <1>3 DEF Posters, Submitting, Hand, InHand, InCallback
  <2>2. Hand(i)' = IF entry.op = ReadOf(i) THEN 1 ELSE 0
    BY <1>3 DEF Hand, InHand, InCallback
  <2>3. /\ entry.op = ReadOf(i) => entry \in Reads(i) /\ Reads(i)' = Reads(i) \ {entry}
        /\ entry.op # ReadOf(i) => Reads(i)' = Reads(i)
    BY <1>2, <1>3 DEF Reads
  <2>4. entry.op = ReadOf(i) => Cardinality(Reads(i)') = Cardinality(Reads(i)) - 1
    BY <2>3, ChainsFinite, FS_RemoveElement DEF ReadInv
  <2>5. Cardinality(Reads(i)) \in Nat /\ Cardinality(Posters(i)) \in Nat
    BY ChainsFinite DEF ReadInv
  <2>6. ReadChains(i)' = ReadChains(i)
    <3>1. CASE entry.op = ReadOf(i)
      BY <2>1, <2>2, <2>4, <2>5, <3>1, ChainsCounted
    <3>2. CASE entry.op # ReadOf(i)
      BY <2>1, <2>2, <2>3, <3>2, ChainsCounted
    <3> QED BY <3>1, <3>2
  <2> QED BY <1>3, <2>6 DEF ReadInv, ChainsInv, Keeps
<1> QED BY <1>5, <1>6 DEF ChainsInv

\* post_continuous_read puts the chain back into a submission, or ends it with
\* the interface.
LEMMA ChainsRepost ==
  ASSUME ReadInv, Repost
  PROVE  FiniteInv' /\ ChainsInv'
<1>1. /\ cur \in Calls /\ lpc' = "next" /\ lpc = "repost" /\ Loop \in Threads
      /\ UNCHANGED <<active, dropped, opens, ifState>>
  BY DEF Repost, tableVars, ifaceVars, Threads, ReadInv, SafeRing, TypeInv, Shape, InCallback
<1>2. ASSUME NEW i \in Ifaces
      PROVE  /\ ReadChains(i) <= opens[i] /\ Keeps(i) /\ opens[i] \in Nat
             /\ Cardinality(Reads(i)) \in Nat /\ Cardinality(Posters(i)) \in Nat
             /\ Reads(i)' = Reads(i) /\ Hand(i)' = 0
             /\ Hand(i) = IF cur.op = ReadOf(i) THEN 1 ELSE 0
  <2>1. ReadChains(i) <= opens[i] /\ Keeps(i)
    BY DEF ReadInv, ChainsInv
  <2>2. opens[i] \in Nat
    BY OpensAssumption DEF ReadInv, SafeRing, TypeInv, TypeOK, IfaceTypeOK
  <2>3. Cardinality(Reads(i)) \in Nat /\ Cardinality(Posters(i)) \in Nat
    BY ChainsFinite DEF ReadInv
  <2>4. Reads(i)' = Reads(i) /\ Hand(i)' = 0 /\ Hand(i) = IF cur.op = ReadOf(i) THEN 1 ELSE 0
    BY <1>1 DEF Reads, Hand, InHand, InCallback
  <2> QED BY <2>1, <2>2, <2>3, <2>4
<1>3. CASE ifState[cur.op.iface] = "Open"
  <2>1. BeginSubmit(Loop, cur.op)
    BY <1>3 DEF Repost
  <2>2. FiniteInv'
    BY <1>1, <2>1, FiniteBegin
  <2>3. ASSUME NEW i \in Ifaces
        PROVE  ReadChains(i)' <= opens'[i] /\ Keeps(i)'
    <3>1. /\ cur.op # ReadOf(i) => Posters(i)' = Posters(i)
          /\ cur.op = ReadOf(i) => Cardinality(Posters(i)') = Cardinality(Posters(i)) + 1
      BY <1>1, <2>1, PostersGrow
    <3>2. ReadChains(i)' = ReadChains(i)
      <4>1. CASE cur.op = ReadOf(i)
        BY <1>2, <3>1, <4>1, ChainsCounted
      <4>2. CASE cur.op # ReadOf(i)
        BY <1>2, <3>1, <4>2, ChainsCounted
      <4> QED BY <4>1, <4>2
    <3> QED BY <1>1, <1>2, <3>2 DEF Keeps
  <2> QED BY <2>2, <2>3 DEF ChainsInv
<1>4. CASE ifState[cur.op.iface] # "Open"
  <2>1. UNCHANGED <<step, want>>
    BY <1>4 DEF Repost, threadVars
  <2>2. FiniteInv'
    BY <1>1, <2>1, FiniteKept DEF ReadInv
  <2>3. ASSUME NEW i \in Ifaces
        PROVE  ReadChains(i)' <= opens'[i] /\ Keeps(i)'
    <3>1. Posters(i)' = Posters(i)
      BY <2>1 DEF Posters, Submitting
    <3>2. CASE cur.op = ReadOf(i)
      <4>1. ReadChains(i)' <= opens'[i]
        BY <1>1, <1>2, <3>1, <3>2, ChainsCounted
      <4>2. ifState'[i] # "Open"
        BY <1>1, <1>4, <3>2, ReadOfIs
      <4> QED BY <4>1, <4>2 DEF Keeps
    <3>3. CASE cur.op # ReadOf(i)
      <4>1. ReadChains(i)' = ReadChains(i)
        BY <1>2, <3>1, <3>3, ChainsCounted
      <4> QED BY <1>1, <1>2, <4>1 DEF Keeps
    <3> QED BY <3>2, <3>3
  <2> QED BY <2>2, <2>3 DEF ChainsInv
<1> QED BY <1>3, <1>4

\* An exception through run() ends the chain and the loop.
LEMMA ChainsError ==
  ASSUME ReadInv, DeliverError
  PROVE  FiniteInv' /\ ChainsInv'
<1>1. lpc' = "terminated" /\ UNCHANGED <<active, step, want, dropped, opens, ifState>>
  BY DEF DeliverError, submitVars, threadVars, tableVars, ifaceVars
<1>2. FiniteInv'
  BY <1>1, FiniteKept DEF ReadInv
<1>3. ASSUME NEW i \in Ifaces
      PROVE  ReadChains(i)' <= opens'[i] /\ Keeps(i)'
  <2>1. Reads(i)' = Reads(i) /\ Posters(i)' = Posters(i) /\ Hand(i)' = 0
    BY <1>1 DEF Reads, Posters, Submitting, Hand, InHand, InCallback
  <2>2. ReadChains(i) <= opens[i] /\ opens[i] \in Nat
    BY OpensAssumption DEF ReadInv, ChainsInv, SafeRing, TypeInv, TypeOK, IfaceTypeOK
  <2>3. /\ Cardinality(Reads(i)) \in Nat /\ Cardinality(Posters(i)) \in Nat
        /\ Hand(i) \in {0, 1}
    BY ChainsFinite DEF ReadInv
  <2>4. ReadChains(i)' <= opens'[i]
    BY <1>1, <2>1, <2>2, <2>3, ChainsCounted
  <2> QED BY <1>1, <2>4 DEF Keeps
<1> QED BY <1>2, <1>3 DEF ChainsInv

\* The other steps leave every chain where it is.
LEMMA ChainsRest ==
  ASSUME ReadInv,
         \/ /\ RunCheck \/ Enter \/ WaitReturns \/ BatchEnds \/ Advance \/ RunStart
               \/ WaitInterrupted
            /\ UNCHANGED ifaceVars
         \/ WriteCallback \/ DeliverFrame \/ KernelStep
         \/ \E i \in Ifaces : DeviceDelivers(i)
         \/ UNCHANGED vars
  PROVE  FiniteInv' /\ ChainsInv'
<1> USE DEF vars, ringVars, loopVars, submitVars, threadVars, tableVars, kernelVars, ifaceVars,
        frameVars
<1>1. /\ UNCHANGED <<active, step, want, dropped, opens, ifState>>
      /\ lpc = "terminated" => lpc' = "terminated"
      /\ \A i : Hand(i)' = Hand(i)
  <2>1. CASE /\ RunCheck \/ Enter \/ WaitReturns \/ BatchEnds \/ Advance \/ RunStart
                \/ WaitInterrupted
             /\ UNCHANGED ifaceVars
    BY <2>1 DEF RunCheck, Enter, WaitReturns, BatchEnds, Advance, RunStart, WaitInterrupted, Hand,
           InHand, InCallback
  <2>2. CASE WriteCallback
    BY <2>2, ReadOfIs DEF WriteCallback, Hand, InHand, InCallback
  <2>3. CASE DeliverFrame
    BY <2>3 DEF DeliverFrame, Hand, InHand, InCallback
  <2>4. CASE KernelStep
    BY <2>4 DEF KernelStep, ReadCompletes, ReadReturnsNothing, WriteCompletes,
           NothingCompletes, Complete, Hand, InHand, InCallback
  <2>5. CASE (\E i \in Ifaces : DeviceDelivers(i)) \/ UNCHANGED vars
    BY <2>5 DEF DeviceDelivers, Hand, InHand, InCallback
  <2> QED BY <2>1, <2>2, <2>3, <2>4, <2>5
<1>2. ChainsInv'
  BY <1>1, ChainsKept DEF ReadInv
<1> QED BY <1>1, <1>2, FiniteKept DEF ReadInv

LEMMA ChainsStep ==
  ASSUME ReadInv, [Next]_vars
  PROVE  FiniteInv' /\ ChainsInv'
<1>1. CASE UNCHANGED vars
  BY <1>1, ChainsRest
<1>2. CASE LoopStep
  BY <1>2, ChainsNext, ChainsRepost, ChainsError, ChainsRest DEF LoopStep, RunStep, CallbackStep
<1>3. CASE \/ UserCallback
           \/ \E t \in Apps : AppStep(t)
           \/ \E t \in Threads : ThreadStep(t)
  BY <1>3, ChainsApp, ChainsThread DEF UserCallback, Threads
<1> QED BY <1>1, <1>2, <1>3, ChainsRest DEF Next

-----------------------------------------------------------------------------
\* With one chain a completed read is alone, and there is none while a callback
\* of the interface runs.
LEMMA OneRead ==
  ASSUME ReadInv, NEW i \in Ifaces, opens[i] <= 1
  PROVE  /\ \A a, b \in Reads(i) : a = b
         /\ InHand(i) => Reads(i) = {}
<1>1. /\ IsFiniteSet(Reads(i)) /\ Cardinality(Reads(i)) \in Nat
      /\ Cardinality(Posters(i)) \in Nat /\ Hand(i) \in {0, 1}
  BY ChainsFinite DEF ReadInv
<1>2. Cardinality(Reads(i)) + Cardinality(Posters(i)) + Hand(i) <= opens[i] /\ opens[i] \in Nat
  BY ChainsCounted, OpensAssumption
     DEF ReadInv, ChainsInv, SafeRing, TypeInv, TypeOK, IfaceTypeOK
<1>3. Cardinality(Reads(i)) <= 1 /\ (Hand(i) = 1 => Cardinality(Reads(i)) = 0)
  BY <1>1, <1>2
<1>4. InHand(i) => Reads(i) = {}
  BY <1>1, <1>3, FS_EmptySet DEF Hand
<1>5. ASSUME NEW a \in Reads(i), NEW b \in Reads(i), a # b PROVE FALSE
  <2>1. IsFiniteSet(Reads(i) \ {a}) /\ Cardinality(Reads(i) \ {a}) = Cardinality(Reads(i)) - 1
    BY <1>1, FS_RemoveElement
  <2>2. Cardinality(Reads(i) \ {a}) \in Nat
    BY <2>1, FS_CardinalityType
  <2>3. Cardinality(Reads(i) \ {a}) = 0
    BY <1>1, <1>3, <2>1, <2>2
  <2>4. Reads(i) \ {a} = {}
    BY <2>1, <2>3, FS_EmptySet
  <2> QED BY <1>5, <2>4
<1> QED BY <1>4, <1>5

LEMMA CompletedIsRead ==
  ASSUME SafeRing, ~early, NEW i, NEW k \in Unhandled, cq[k].op = ReadOf(i)
  PROVE  Entry(k) \in Reads(i) /\ Entry(k).id = cq[k].id
BY DEF SafeRing, PlaceInv, PlacesInv, Entry, Reads

\* Steps that deliver and read nothing, and take no frame out of the hand.
LEMMA DeliveryKept ==
  ASSUME ReadInv, UNCHANGED <<buffer, taken, delivered>>, early => early',
         \A i \in Ifaces : opens'[i] <= 1 => opens[i] <= 1,
         \A i \in Ifaces : opens[i] <= 1 => Waiting(i)' = Waiting(i)
  PROVE  DeliveryInv'
BY DEF ReadInv, DeliveryInv

LEMMA WaitingKept ==
  ASSUME UNCHANGED <<cq, seen>>, NEW i,
         Called(i)' <=> Called(i)
  PROVE  Waiting(i)' = Waiting(i)
BY DEF Waiting, Completed, Unhandled

\* Steps outside the callbacks.
LEMMA DeliveryApart ==
  ASSUME ReadInv, UNCHANGED <<cq, seen, cur, buffer, taken, delivered>>, early => early',
         lpc' = lpc \/ (lpc # "call" /\ lpc' # "call"),
         opens' = opens \/ (\E j \in Ifaces : opens' = [opens EXCEPT ![j] = @ + 1])
  PROVE  DeliveryInv'
<1>1. \A i : Waiting(i)' = Waiting(i)
  BY WaitingKept DEF Called
<1>2. \A i \in Ifaces : opens'[i] <= 1 => opens[i] <= 1
  <2>1. opens \in [Ifaces -> 0 .. MaxOpens]
    BY DEF ReadInv, SafeRing, TypeInv, TypeOK, IfaceTypeOK
  <2> QED BY <2>1, OpensAssumption
<1> QED BY <1>1, <1>2, DeliveryKept

LEMMA DeliveryNext ==
  ASSUME ReadInv, NextCompletion, UNCHANGED ifaceVars
  PROVE  DeliveryInv'
<1> SUFFICES ASSUME ~early PROVE DeliveryInv'
  BY DEF NextCompletion, historyVars, DeliveryInv
<1>1. seen + 1 \in Unhandled /\ Entry(seen + 1) \in Registered(cq[seen + 1].id)
  BY DEF NextCompletion, ReadInv, SafeRing, TypeInv, TypeOK, RingTypeOK, PlaceInv, PlacesInv,
         Unhandled, Entry, Registered
<1>2. /\ lpc = "next" /\ UNCHANGED <<cq, opens, buffer, taken, delivered>> /\ seen' = seen + 1
      /\ CallBack(cq[seen + 1]) /\ early' = early
  BY <1>1 DEF NextCompletion, kernelVars, historyVars, ifaceVars, frameVars
<1>2a. lpc' = "call" /\ cur'.op = cq[seen + 1].op /\ cur'.res = cq[seen + 1].res
  <2>1. PICK a \in Registered(cq[seen + 1].id) :
          cur' = [op |-> a.op, id |-> cq[seen + 1].id, res |-> cq[seen + 1].res]
    BY <1>2 DEF CallBack
  <2>2. a = Entry(seen + 1)
    BY <1>1 DEF Registered, ReadInv, SafeRing, PlaceInv, IdsInv
  <2> QED BY <1>2, <2>1, <2>2 DEF CallBack, Entry
<1>3. Unhandled = Unhandled' \cup {seen + 1}
  BY <1>1, <1>2 DEF Unhandled, ReadInv, SafeRing, TypeInv, TypeOK, RingTypeOK
<1>4. ASSUME NEW i \in Ifaces PROVE Waiting(i)' = Waiting(i)
  <2>1. Completed(i) <=> Completed(i)' \/ Called(i)'
    BY <1>2, <1>2a, <1>3 DEF Completed, Called
  <2>2. ~ Called(i)
    BY <1>2 DEF Called
  <2> QED BY <2>1, <2>2 DEF Waiting
<1> QED BY <1>2, <1>4, DeliveryKept

\* The kernel puts a result behind the others.
LEMMA UnhandledGrows ==
  ASSUME SafeRing, NEW r, NEW res, Complete(r, res)
  PROVE  /\ Len(cq) + 1 \in Unhandled' /\ Unhandled' = Unhandled \cup {Len(cq) + 1}
         /\ \A k \in Unhandled : cq'[k] = cq[k]
         /\ cq'[Len(cq) + 1].op = r.op /\ cq'[Len(cq) + 1].res = res
         /\ UNCHANGED <<lpc, cur>>
<1>1. /\ cq \in Seq(Completions) /\ seen \in Nat /\ seen <= Len(cq)
      /\ cq' = Append(cq, [op |-> r.op, id |-> r.id, res |-> res])
      /\ UNCHANGED <<seen, lpc, cur>>
  BY DEF SafeRing, TypeInv, TypeOK, RingTypeOK, Shape, Complete, loopVars
<1>2. /\ Len(cq') = Len(cq) + 1 /\ \A k \in 1 .. Len(cq) : cq'[k] = cq[k]
      /\ cq'[Len(cq) + 1] = [op |-> r.op, id |-> r.id, res |-> res]
  BY <1>1
<1> QED BY <1>1, <1>2 DEF Unhandled

LEMMA WaitingAfter ==
  ASSUME SafeRing, NEW r, NEW res, Complete(r, res), NEW i,
         r.op # ReadOf(i) \/ res.kind # "ok"
  PROVE  Waiting(i)' = Waiting(i)
<1>1. Completed(i)' <=> Completed(i)
  BY UnhandledGrows DEF Completed
<1>2. Called(i)' <=> Called(i)
  BY UnhandledGrows DEF Called
<1> QED BY <1>1, <1>2 DEF Waiting

\* A frame is read into the buffer while no other waits there.
LEMMA DeliveryRead ==
  ASSUME ReadInv, NEW r \in inKernel, r.op # None, ReadCompletes(r)
  PROVE  DeliveryInv'
<1> DEFINE i == r.op.iface
           res == [kind |-> "ok", frame |-> taken[i] + 1]
<1> SUFFICES ASSUME ~early PROVE DeliveryInv'
  BY DEF ReadCompletes, Complete, historyVars, DeliveryInv
<1>1. /\ SafeRing /\ Task(r) \in active /\ r \in Taken /\ taken \in [Ifaces -> Frames]
      /\ buffer \in [Ifaces -> Frames] /\ delivered \in [Ifaces -> Seq(Frames)]
  BY DEF ReadInv, SafeRing, TypeInv, TypeOK, RingTypeOK, IfaceTypeOK, PlaceInv, PlacesInv
<1>2. r.op = ReadOf(i) /\ i \in Ifaces /\ Task(r) \in Reads(i)
  BY <1>1 DEF ReadCompletes, Taken, Operations, ReadOf, Reads, Task
<1>3. /\ taken' = [taken EXCEPT ![i] = @ + 1] /\ buffer' = [buffer EXCEPT ![i] = taken[i] + 1]
      /\ Complete(r, res) /\ UNCHANGED <<opens, delivered>> /\ res.kind = "ok"
  BY DEF ReadCompletes
<1> HIDE DEF i, res
<1> SUFFICES ASSUME NEW j \in Ifaces, opens'[j] <= 1
             PROVE  /\ buffer'[j] = taken'[j]
                    /\ taken'[j] = Len(delivered'[j]) + Waiting(j)'
                    /\ \A k \in 1 .. Len(delivered'[j]) : delivered'[j][k] = k
  BY DEF DeliveryInv
<1>4. /\ opens[j] <= 1 /\ buffer[j] = taken[j] /\ taken[j] = Len(delivered[j]) + Waiting(j)
      /\ \A k \in 1 .. Len(delivered[j]) : delivered[j][k] = k
  BY <1>3 DEF ReadInv, DeliveryInv
<1>5. CASE j = i
  <2>1. Waiting(j) = 0
    <3>1. ~ Called(j)
      BY <1>2, <1>4, <1>5, OneRead DEF Called, InHand, InCallback
    <3>2. ASSUME NEW k \in Unhandled, cq[k].op = ReadOf(j) PROVE FALSE
      <4>1. Entry(k) \in Reads(j) /\ Entry(k).id = cq[k].id
        BY <1>1, <3>2, CompletedIsRead
      <4>2. Entry(k) = Task(r)
        BY <1>2, <1>4, <1>5, <4>1, OneRead
      <4>3. Task(r).id = r.id
        BY DEF Task
      <4> QED BY <1>1, <4>1, <4>2, <4>3 DEF SafeRing, PlaceInv, ApartInv
    <3> QED BY <3>1, <3>2 DEF Waiting, Completed
  <2>2. Waiting(j)' = 1
    BY <1>1, <1>2, <1>3, <1>5, UnhandledGrows DEF Waiting, Completed
  <2> QED BY <1>1, <1>2, <1>3, <1>4, <1>5, <2>1, <2>2 DEF Frames
<1>6. CASE j # i
  <2>1. r.op # ReadOf(j)
    BY <1>2, <1>6, ReadOfIs
  <2>2. Waiting(j)' = Waiting(j)
    BY <1>1, <1>3, <2>1, WaitingAfter
  <2> QED BY <1>1, <1>3, <1>4, <1>6, <2>2
<1> QED BY <1>5, <1>6

\* The callback delivers the frame that waited, which is the next.
LEMMA DeliveryOfFrame ==
  ASSUME ReadInv, DeliverFrame
  PROVE  DeliveryInv'
<1> DEFINE i == cur.op.iface
<1> SUFFICES ASSUME ~early PROVE DeliveryInv'
  BY DEF DeliverFrame, historyVars, DeliveryInv
<1>1. /\ SafeRing /\ cur \in Calls /\ delivered \in [Ifaces -> Seq(Frames)]
      /\ taken \in [Ifaces -> Frames]
  BY DEF DeliverFrame, ReadInv, SafeRing, TypeInv, TypeOK, Shape, IfaceTypeOK, InCallback
<1>2. cur.op = ReadOf(i) /\ i \in Ifaces /\ cur.res.kind \in {"ok", "eof"}
  BY <1>1 DEF DeliverFrame, Calls, Operations, Results, ReadOf
<1>3. /\ lpc = "call" /\ lpc' = "repost" /\ UNCHANGED <<cq, seen, cur, opens, buffer, taken>>
      /\ delivered' = IF cur.res.kind = "eof" THEN delivered
                      ELSE [delivered EXCEPT ![i] = Append(@, buffer[i])]
  BY DEF DeliverFrame, kernelVars
<1> HIDE DEF i
<1> SUFFICES ASSUME NEW j \in Ifaces, opens'[j] <= 1
             PROVE  /\ buffer'[j] = taken'[j]
                    /\ taken'[j] = Len(delivered'[j]) + Waiting(j)'
                    /\ \A k \in 1 .. Len(delivered'[j]) : delivered'[j][k] = k
  BY DEF DeliveryInv
<1>4. /\ opens[j] <= 1 /\ buffer[j] = taken[j] /\ taken[j] = Len(delivered[j]) + Waiting(j)
      /\ \A k \in 1 .. Len(delivered[j]) : delivered[j][k] = k
  BY <1>3 DEF ReadInv, DeliveryInv
<1>5. CASE j = i /\ cur.res.kind = "ok"
  <2>1. ~ Completed(j)
    <3>1. InHand(j)
      BY <1>2, <1>3, <1>5 DEF InHand, InCallback
    <3> QED BY <1>1, <1>4, <3>1, OneRead, CompletedIsRead DEF Completed
  <2>2. Waiting(j) = 1
    BY <1>2, <1>3, <1>5 DEF Waiting, Called
  <2>3. Waiting(j)' = 0
    BY <1>3, <2>1 DEF Waiting, Completed, Called, Unhandled
  <2>4. delivered'[j] = Append(delivered[j], taken[j]) /\ delivered[j] \in Seq(Frames)
    BY <1>1, <1>3, <1>4, <1>5
  <2>5. taken[j] = Len(delivered[j]) + 1
    BY <1>4, <2>2
  <2>6. /\ Len(delivered'[j]) = Len(delivered[j]) + 1
        /\ delivered'[j][Len(delivered[j]) + 1] = taken[j]
        /\ \A k \in 1 .. Len(delivered[j]) : delivered'[j][k] = delivered[j][k]
    BY <2>4
  <2> QED BY <1>3, <1>4, <2>3, <2>4, <2>5, <2>6
<1>6. CASE ~ (j = i /\ cur.res.kind = "ok")
  <2>1. delivered'[j] = delivered[j]
    BY <1>1, <1>2, <1>3, <1>6
  <2>2. ~ Called(j) /\ ~ Called(j)'
    BY <1>2, <1>3, <1>6, ReadOfIs DEF Called
  <2>3. Waiting(j)' = Waiting(j)
    BY <1>3, <2>2, WaitingKept
  <2> QED BY <1>3, <1>4, <2>1, <2>3
<1> QED BY <1>5, <1>6

LEMMA DeliveryAdvance ==
  ASSUME ReadInv, Advance, UNCHANGED ifaceVars
  PROVE  DeliveryInv'
<1>1. /\ cq \in Seq(Completions) /\ seen \in Nat /\ seen <= Len(cq)
      /\ cq' = SubSeq(cq, seen + 1, Len(cq)) /\ seen' = 0
      /\ UNCHANGED <<cur, opens, buffer, taken, delivered>> /\ lpc = "advance" /\ lpc' = "check"
      /\ early' = early
  BY DEF Advance, historyVars, ifaceVars, frameVars, ReadInv, SafeRing, TypeInv, TypeOK, RingTypeOK, Shape
<1>2. Len(cq') = Len(cq) - seen /\ \A k \in 1 .. Len(cq') : cq'[k] = cq[seen + k]
  BY <1>1
<1>3. /\ \A k \in Unhandled' : seen + k \in Unhandled /\ cq'[k] = cq[seen + k]
      /\ \A k \in Unhandled : k - seen \in Unhandled' /\ cq'[k - seen] = cq[k]
  <2>1. \A k \in Unhandled' : seen + k \in Unhandled /\ cq'[k] = cq[seen + k]
    BY <1>1, <1>2 DEF Unhandled
  <2>2. ASSUME NEW k \in Unhandled PROVE k - seen \in Unhandled' /\ cq'[k - seen] = cq[k]
    <3>1. k - seen \in 1 .. Len(cq') /\ seen + (k - seen) = k
      BY <1>1, <1>2 DEF Unhandled
    <3> QED BY <1>1, <1>2, <3>1 DEF Unhandled
  <2> QED BY <2>1, <2>2
<1>4. \A i : Completed(i)' <=> Completed(i)
  BY <1>3 DEF Completed
<1>5. \A i : Waiting(i)' = Waiting(i)
  BY <1>1, <1>4 DEF Waiting, Called
<1> QED BY <1>1, <1>5, DeliveryKept

\* The other completions carry no frame.
LEMMA DeliveryKernel ==
  ASSUME ReadInv, KernelStep
  PROVE  DeliveryInv'
<1> PICK r \in inKernel :
      \/ r.op # None /\ (ReadCompletes(r) \/ ReadReturnsNothing(r) \/ WriteCompletes(r))
      \/ NothingCompletes(r)
  BY DEF KernelStep
<1>1. ASSUME NEW res, Complete(r, res),
             (\A i \in Ifaces : r.op # ReadOf(i)) \/ res.kind # "ok",
             UNCHANGED <<opens, buffer, taken, delivered>>
      PROVE  DeliveryInv'
  <2>1. \A i \in Ifaces : r.op # ReadOf(i) \/ res.kind # "ok"
    BY <1>1
  <2>2. \A i \in Ifaces : Waiting(i)' = Waiting(i)
    BY <1>1, <2>1, WaitingAfter DEF ReadInv
  <2>3. early' = early
    BY <1>1 DEF Complete, historyVars
  <2> QED BY <1>1, <2>2, <2>3, DeliveryKept
<1>2. CASE ReadReturnsNothing(r)
  <2>1. PICK kind \in {"eof", "error"} : Complete(r, [kind |-> kind, frame |-> 0])
    BY <1>2 DEF ReadReturnsNothing
  <2> QED BY <1>1, <1>2, <2>1 DEF ReadReturnsNothing, frameVars
<1>3. CASE WriteCompletes(r)
  <2>1. \A i \in Ifaces : r.op # ReadOf(i)
    BY <1>3, ReadOfIs DEF WriteCompletes
  <2> QED BY <1>1, <1>3, <2>1 DEF WriteCompletes, ifaceVars, frameVars
<1>4. CASE NothingCompletes(r)
  <2>1. \A i \in Ifaces : r.op # ReadOf(i)
    BY <1>4, OperationsOf, RingAssumption DEF NothingCompletes
  <2> QED BY <1>1, <1>4, <2>1 DEF NothingCompletes, ifaceVars, frameVars
<1> QED BY <1>2, <1>3, <1>4, DeliveryRead

LEMMA DeliveryStep ==
  ASSUME ReadInv, [Next]_vars
  PROVE  DeliveryInv'
<1> USE DEF vars, ringVars, loopVars, submitVars, kernelVars, historyVars, ifaceVars, frameVars
<1>1. ASSUME UNCHANGED vars \/ (\E i \in Ifaces : DeviceDelivers(i)) PROVE DeliveryInv'
  BY <1>1, DeliveryApart DEF DeviceDelivers
<1>2. ASSUME NEW t \in Threads, AppStep(t) \/ ThreadStep(t) PROVE DeliveryInv'
  <2>1. CASE AppStep(t)
    <3>1. ASSUME NEW i \in Ifaces, OpenInternal(t, i) PROVE DeliveryInv'
      BY <3>1, DeliveryApart DEF OpenInternal
    <3>2. ASSUME NEW i \in Ifaces, CloseInternal(t, i) \/ SendFrame(t, i) PROVE DeliveryInv'
      BY <3>2, DeliveryApart DEF CloseInternal, SendFrame
    <3>3. CASE Stop /\ UNCHANGED ifaceVars
      BY <3>3, DeliveryApart DEF Stop
    <3> QED BY <2>1, <3>1, <3>2, <3>3 DEF AppStep
  <2>2. CASE ThreadStep(t)
    <3>1. UNCHANGED <<loopVars, kernelVars, early>>
      <4>1. CASE QueueFull(t) \/ ReadTail(t) \/ AdvanceTail(t)
        BY <4>1 DEF QueueFull, ReadTail, AdvanceTail
      <4>2. CASE Prepare(t) \/ Register(t) \/ SetData(t)
        BY <4>2 DEF Prepare, Register, SetData
      <4> QED BY <2>2, <4>1, <4>2 DEF ThreadStep, SubmitStep
    <3>2. UNCHANGED ifaceVars
      BY <2>2 DEF ThreadStep
    <3> QED BY <3>1, <3>2, DeliveryApart
  <2> QED BY <1>2, <2>1, <2>2
<1>3. CASE /\ RunCheck \/ Enter \/ WaitReturns \/ BatchEnds \/ RunStart \/ WaitInterrupted
           /\ UNCHANGED ifaceVars
  <2>1. CASE Enter
    <3>1. UNCHANGED <<cq, seen, cur>> /\ lpc # "call" /\ lpc' # "call" /\ (early => early')
      BY <2>1 DEF Enter
    <3> QED BY <1>3, <3>1, DeliveryApart
  <2>2. CASE RunCheck \/ WaitReturns \/ BatchEnds \/ RunStart \/ WaitInterrupted
    BY <1>3, <2>2, DeliveryApart
       DEF RunCheck, WaitReturns, BatchEnds, RunStart, WaitInterrupted
  <2> QED BY <1>3, <2>1, <2>2
<1>4. CASE WriteCallback \/ DeliverError
  <2>1. \A i : ~ Called(i) /\ ~ Called(i)'
    BY <1>4, ReadOfIs DEF WriteCallback, DeliverError, Called
  <2>2. \A i : Waiting(i)' = Waiting(i)
    BY <1>4, <2>1, WaitingKept DEF WriteCallback, DeliverError
  <2> QED BY <1>4, <2>2, DeliveryKept DEF WriteCallback, DeliverError
<1>5. CASE Repost
  <2>1. \A i : Waiting(i)' = Waiting(i)
    BY <1>5, WaitingKept DEF Repost, Called
  <2> QED BY <1>5, <2>1, DeliveryKept DEF Repost
<1>6. CASE LoopStep
  <2> HIDE DEF vars, ringVars, loopVars, submitVars, kernelVars, historyVars, ifaceVars, frameVars
  <2> QED BY <1>3, <1>4, <1>5, <1>6, DeliveryNext, DeliveryAdvance, DeliveryOfFrame
          DEF LoopStep, RunStep, CallbackStep
<1> HIDE DEF vars, ringVars, loopVars, submitVars, kernelVars, historyVars, ifaceVars, frameVars
<1> QED BY <1>1, <1>2, <1>3, <1>6, DeliveryKernel DEF Next, UserCallback, Threads

LEMMA ReadInvariance == Spec => []ReadInv
<1>1. ReadInv /\ [Next]_vars => FiniteInv' /\ ChainsInv' /\ DeliveryInv'
  BY ChainsStep, DeliveryStep
<1>2. Init /\ [][Next]_vars => [](FiniteInv /\ ChainsInv /\ DeliveryInv)
  <2>1. SafeRing /\ (FiniteInv /\ ChainsInv /\ DeliveryInv) /\ [Next]_vars
          => (FiniteInv /\ ChainsInv /\ DeliveryInv)'
    BY <1>1 DEF ReadInv
  <2>2. Init => FiniteInv /\ ChainsInv /\ DeliveryInv
    BY ReadInit DEF ReadInv
  <2> QED BY <2>1, <2>2, RingInvariance, PTL DEF Spec
<1> QED BY <1>2, RingInvariance, PTL DEF Spec, ReadInv

\* Closing and opening again while a callback runs never loses the read of an
\* open interface: a posted read, a completion or a callback keeps its chain,
\* unless io_uring_get_sqe failed or an exception left run().
THEOREM OpenInterfacesKeepReading == Spec => []OpenInterfaceKeepsReading
<1>1. ReadInv => OpenInterfaceKeepsReading
  BY DEF ReadInv, ChainsInv, Keeps, OpenInterfaceKeepsReading
<1> QED BY <1>1, ReadInvariance, PTL

\* post_continuous_read never multiplies: an interface has at most as many reads
\* posted, completed or handled as open_internal ran for it.
THEOREM ReadsAreOpens == Spec => []OneReadPerOpen
<1>1. ReadInv => OneReadPerOpen
  BY DEF ReadInv, ChainsInv, OneReadPerOpen
<1> QED BY <1>1, ReadInvariance, PTL

\* An interface opened once delivers what the device sent, once and in order,
\* however many threads submit and however many frames are sent: m_read_buffer
\* is never overwritten before its callback ran, unless run() handed over an
\* entry that was not finished (`early`).
THEOREM FramesAreInOrder == Spec => []FramesInOrder
<1>1. ReadInv => FramesInOrder
  <2> SUFFICES ASSUME ReadInv, ~early, NEW i \in Ifaces, opens[i] <= 1
               PROVE  \A k \in DOMAIN delivered[i] : delivered[i][k] = k
    BY DEF FramesInOrder
  <2>1. DOMAIN delivered[i] = 1 .. Len(delivered[i])
    BY DEF ReadInv, SafeRing, TypeInv, TypeOK, IfaceTypeOK
  <2> QED BY <2>1 DEF ReadInv, DeliveryInv
<1> QED BY <1>1, ReadInvariance, PTL
=============================================================================
