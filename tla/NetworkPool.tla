---------------------------- MODULE NetworkPool ----------------------------
(***************************************************************************)
(* NetworkPool (qemu/network.py): what one graph execution allocates for   *)
(* the networks of its machines, and keeps when a machine is restarted.    *)
(***************************************************************************)
EXTENDS Integers, Sequences, SequencesExt

CONSTANTS
  SocketNets,  \* the networks declared with NetSocket
  UserNets,    \* the networks declared with NetUser
  Subnets,     \* how many SLIRP subnets there are
  Hash         \* Hash[n]: the subnet the declaration of n hashes to

ASSUME NetworkAssumption ==
  /\ SocketNets \cap UserNets = {}
  /\ Subnets \in Nat
  /\ Hash \in [UserNets -> 0..(Subnets - 1)]

VARIABLES
  sourceIds,  \* of a NetSocket: the machines on it; the first one listens
  subnets     \* of a NetUser: its subnet, or Unused

Unused == -1

poolVars == <<sourceIds, subnets>>

PoolTypeOK(sources) ==
  /\ sourceIds \in [SocketNets -> Seq(sources)]
  /\ subnets \in [UserNets -> {Unused} \cup 0..(Subnets - 1)]

PoolInit ==
  /\ sourceIds = [n \in SocketNets |-> <<>>]
  /\ subnets = [n \in UserNets |-> Unused]

Taken == {subnets[n] : n \in UserNets}

\* _allocate_user_subnet: the first free subnet from the hash on, around.
Allocated(n) ==
  LET free == {k \in 0..(Subnets - 1) : (Hash[n] + k) % Subnets \notin Taken}
  IN  (Hash[n] + (CHOOSE k \in free : \A j \in free : k <= j)) % Subnets

\* attachments_for raises: a third machine, or no subnet left.
CannotAttach(s, networks) ==
  \E i \in DOMAIN networks :
    LET n == networks[i]
    IN  \/ n \in SocketNets /\ Len(sourceIds[n]) = 2 /\ ~Contains(sourceIds[n], s)
        \/ n \in UserNets /\ subnets[n] = Unused /\ 0..(Subnets - 1) \subseteq Taken

\* attachments_for, for one network that is new to this machine or the pool.
Attach(s, n) ==
  \/ /\ n \in SocketNets /\ ~Contains(sourceIds[n], s)
     /\ sourceIds' = [sourceIds EXCEPT ![n] = Append(@, s)]
     /\ UNCHANGED subnets
  \/ /\ n \in UserNets /\ subnets[n] = Unused
     /\ subnets' = [subnets EXCEPT ![n] = Allocated(n)]
     /\ UNCHANGED sourceIds

Attached(s, n) ==
  \/ n \in SocketNets /\ Contains(sourceIds[n], s)
  \/ n \in UserNets /\ subnets[n] # Unused

\* The networks of a run never share a subnet, and a link has two ends.
SubnetsDistinct ==
  /\ \A m, n \in UserNets : m # n /\ subnets[m] # Unused => subnets[m] # subnets[n]
  /\ \A n \in SocketNets : Len(sourceIds[n]) <= 2
==============================================================================
