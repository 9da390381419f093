--------------------------- MODULE DeviceService ---------------------------
(***************************************************************************)
(* What HyComm promises its clients, without processes, messages and       *)
(* sockets: a table of devices on which every issued request is decided    *)
(* atomically and at most once: a call has a number, and a number issues   *)
(* one request.  A call returns either the decision of its *)
(* own request or an error that promises nothing; an open call that        *)
(* succeeds hands out the descriptor its own decision created.             *)
(***************************************************************************)
EXTENDS Naturals

CONSTANTS Clients, Names, Requests, CallErrors

VARIABLES
  table,     \* per name: the descriptor of the open device, a set of at most one
  spent,     \* <<client, id>> of the calls whose request was issued, or never will be
  waiting,   \* requests issued and not decided
  verdicts,  \* <<request, decision>> that may still reach the caller
  offered,   \* descriptors created and not yet handed out
  owned,     \* per client: descriptors handed out
  result     \* per client: what its latest call returned

serviceVars == <<table, spent, waiting, verdicts, offered, owned, result>>

Device(r) == [name |-> r.name, origin |-> <<r.client, r.id>>]

Init ==
  /\ table = [n \in Names |-> {}]
  /\ spent = {} /\ waiting = {} /\ verdicts = {} /\ offered = {}
  /\ owned = [c \in Clients |-> {}]
  /\ result = [c \in Clients |-> "none"]

Begin(c) ==
  /\ result' = [result EXCEPT ![c] = "none"]
  /\ UNCHANGED <<table, spent, waiting, verdicts, offered, owned>>

\* Calls of the client may have ended before their request was sent.
Spends(c) == spent \subseteq spent' /\ \A call \in spent' \ spent : call[1] = c

Unsent(c) == Spends(c) /\ UNCHANGED <<table, waiting, verdicts, offered, owned, result>>

Issue(r) ==
  /\ <<r.client, r.id>> \notin spent
  /\ spent' = spent \cup {<<r.client, r.id>>}
  /\ waiting' = waiting \cup {r}
  /\ UNCHANGED <<table, verdicts, offered, owned, result>>

-----------------------------------------------------------------------------
Decided(r, v) ==
  /\ r \in waiting
  /\ waiting' = waiting \ {r}
  /\ verdicts' = verdicts \cup {<<r, v>>}
  /\ UNCHANGED <<spent, owned, result>>

\* Refusals: those the table demands, and those of the device or the transfer.
Refuse(r) ==
  /\ \/ r.op = "open" /\ table[r.name] # {} /\ Decided(r, "AlreadyOpen")
     \/ r.op = "open" /\ table[r.name] = {} /\
          \E v \in {"InterfaceNotFound", "InvalidArguments", "FdTransferFailed"} : Decided(r, v)
     \/ r.op # "open" /\ table[r.name] = {} /\ Decided(r, "InterfaceNotFound")
     \/ r.op = "config" /\ table[r.name] # {} /\ Decided(r, "InvalidArguments")
  /\ UNCHANGED <<table, offered>>

Open(r) ==
  /\ r.op = "open" /\ table[r.name] = {}
  /\ Decided(r, "Success")
  /\ table' = [table EXCEPT ![r.name] = {Device(r)}]
  /\ offered' = offered \cup {Device(r)}

Config(r) ==
  /\ r.op = "config" /\ table[r.name] # {}
  /\ Decided(r, "Success")
  /\ UNCHANGED <<table, offered>>

Close(r) ==
  /\ r.op = "close" /\ table[r.name] # {}
  /\ Decided(r, "Success")
  /\ table' = [table EXCEPT ![r.name] = {}]
  /\ UNCHANGED offered

Decide(r) == Refuse(r) \/ Open(r) \/ Config(r) \/ Close(r)

-----------------------------------------------------------------------------
\* A configure or close call returns the decision of its request.
ReturnControl(r) ==
  /\ r.op # "open"
  /\ \E v \in {verdict[2] : verdict \in {w \in verdicts : w[1] = r}} :
       /\ verdicts' = verdicts \ {<<r, v>>}
       /\ result' = [result EXCEPT ![r.client] = v]
  /\ UNCHANGED <<table, spent, waiting, offered, owned>>

\* An open call returns the descriptor its own decision created.
ReturnOpen(r) ==
  /\ <<r, "Success">> \in verdicts
  /\ Device(r) \in offered
  /\ verdicts' = verdicts \ {<<r, "Success">>}
  /\ offered' = offered \ {Device(r)}
  /\ owned' = [owned EXCEPT ![r.client] = @ \cup {Device(r)}]
  /\ result' = [result EXCEPT ![r.client] = "Success"]
  /\ UNCHANGED <<table, spent, waiting>>

\* A call returns an error of its own; its request may be decided all the same.
GiveUp(c) ==
  /\ \E e \in CallErrors : result' = [result EXCEPT ![c] = e]
  /\ Spends(c)
  /\ verdicts' \subseteq verdicts /\ offered' \subseteq offered
  /\ UNCHANGED <<table, waiting, owned>>

\* Decisions and descriptors nobody waits for are discarded.
Discard ==
  /\ verdicts' \subseteq verdicts /\ offered' \subseteq offered
  /\ UNCHANGED <<table, spent, waiting, owned, result>>

ClientGone(c) ==
  /\ Spends(c)
  /\ owned' = [owned EXCEPT ![c] = {}]
  /\ verdicts' \subseteq verdicts /\ offered' \subseteq offered
  /\ UNCHANGED <<table, waiting, result>>

\* The daemon restarts with an empty table and forgets what it had not decided.
ServiceLost ==
  /\ table' = [n \in Names |-> {}]
  /\ waiting' = {}
  /\ verdicts' \subseteq verdicts /\ offered' \subseteq offered
  /\ UNCHANGED <<spent, owned, result>>

Next ==
  \/ \E c \in Clients : Begin(c) \/ Unsent(c) \/ GiveUp(c) \/ ClientGone(c)
  \/ \E r \in Requests : Issue(r) \/ Decide(r) \/ ReturnControl(r) \/ ReturnOpen(r)
  \/ Discard \/ ServiceLost

Spec == Init /\ [][Next]_serviceVars
=============================================================================
