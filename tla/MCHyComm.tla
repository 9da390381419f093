----------------------------- MODULE MCHyComm -----------------------------
(***************************************************************************)
(* Instances of HyComm for TLC: sets of faults and the client symmetry.    *)
(***************************************************************************)
EXTENDS HyComm, TLC

CONSTANTS c1, c2, n1, n2

NoFaults == {}

\* Faults that abandon a call or a transfer half way.
CallFaults == {"listener", "notify", "signal", "accept", "exit", "open", "sendmsg"}

\* Faults that end no process and leave the task of std::async alone: a failed
\* accept() or recvmsg() can end the daemon through BrokenPipe.
LiveFaults == {"notify", "configure", "connect", "sendmsg"}

RefineFaults == {"notify", "sendmsg", "crash"}

ClientSymmetry == Permutations({c1, c2})
=============================================================================
