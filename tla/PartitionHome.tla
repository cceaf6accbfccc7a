---------------------------- MODULE PartitionHome ----------------------------
(***************************************************************************)
(* What the migration machinery promises its clients, with no clock, epoch, *)
(* barrier or controller in it: a partition has one home, a write in flight *)
(* is aimed at the home of its partition, and a home moves only while no    *)
(* write of that partition is in flight (docs/06: "Enforce the epoch gate   *)
(* so no write lands in the wrong place across the flip").                  *)
(***************************************************************************)
CONSTANTS Partitions, Placements, NoPlacement, Clients

VARIABLES
  home,    \* partition -> the placement reads and writes resolve to
  writing  \* client -> the partition and placement of its write in flight

homeVars == <<home, writing>>

NoWrite == [partition |-> NoPlacement, placement |-> NoPlacement]

HomeInit ==
  /\ home = [p \in Partitions |-> NoPlacement]
  /\ writing = [c \in Clients |-> NoWrite]

StartWrite(c, p) ==
  /\ writing[c] = NoWrite
  /\ home[p] # NoPlacement
  /\ writing' = [writing EXCEPT ![c] = [partition |-> p, placement |-> home[p]]]
  /\ UNCHANGED home

EndWrite(c) ==
  /\ writing' = [writing EXCEPT ![c] = NoWrite]
  /\ UNCHANGED home

Move(p, to) ==
  /\ \A c \in Clients : writing[c].partition # p
  /\ home' = [home EXCEPT ![p] = to]
  /\ UNCHANGED writing

HomeNext ==
  \/ \E c \in Clients, p \in Partitions : StartWrite(c, p)
  \/ \E c \in Clients : EndWrite(c)
  \/ \E p \in Partitions, to \in Placements : Move(p, to)

HomeSpec == HomeInit /\ [][HomeNext]_homeVars
=============================================================================
