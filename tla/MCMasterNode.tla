---------------------------- MODULE MCMasterNode ----------------------------
(* Small instances of MasterNode for TLC. *)
EXTENDS MasterNode, TLC

CONSTANTS c1, c2, w1, w2

(* Every socket at a port of its own. *)
DistinctPorts ==
    [x \in Sockets |-> x]
(* Peers on different machines may use the same port. *)
EqualPorts == [x \in Sockets |-> 1]

(* At most two of the sockets leave. *)
MaxLeaving == 2
FewLeave == Cardinality({x \in Sockets : sock[x] \in {"gone", "deleted"}}) <= MaxLeaving

Symmetry == Permutations(Clients) \cup Permutations(Workers)
=============================================================================
