----------------------------- MODULE DesignMesh -----------------------------
(***************************************************************************)
(* The mesh as the design update sees it: elements, the nodes each one     *)
(* touches, and their volumes.  Two elements are neighbours when they      *)
(* share a node; a mask of elements is a set of elements.                  *)
(***************************************************************************)
EXTENDS Integers, FiniteSets, FiniteSetsExt

CONSTANTS
  Elements,   \* indices of the design elements
  NodesOf,    \* the nodes of each element
  Vol         \* the volume of each element, in whole units

ASSUME MeshAssumption ==
  /\ Elements \subseteq Nat
  /\ IsFiniteSet(Elements)
  /\ Vol \in [Elements -> Nat \ {0}]
  /\ \A e \in Elements : NodesOf[e] # {} /\ IsFiniteSet(NodesOf[e])

(* Elements sharing a node with one of S; every element touches itself.    *)
Adjacency == [e \in Elements |-> {f \in Elements : NodesOf[f] \cap NodesOf[e] # {}}]
Neighbours(S) == UNION {Adjacency[e] : e \in S}

(* S and everything within n hops of it.                                   *)
Hops(S, n) ==
  LET reach[i \in 0..n] == IF i = 0 THEN S
                           ELSE reach[i - 1] \cup Neighbours(reach[i - 1])
  IN  reach[n]

Volumes == [S \in SUBSET Elements |-> MapThenSumSet(LAMBDA e : Vol[e], S)]
VolumeOf(S) == Volumes[S]
V0 == VolumeOf(Elements)

(* Sets of living elements that hold the living seeds and all living       *)
(* neighbours of their own.                                                *)
ClosedAround(alive, seeds) ==
  {T \in SUBSET (alive \cap Elements) :
     \A e \in alive \cap Elements : e \in seeds \cup Neighbours(T) => e \in T}

(* What is connected to a living seed: with no seed alive, nothing.        *)
KeepConnected(alive, seeds) ==
  {e \in alive \cap Elements : \A T \in ClosedAround(alive, seeds) : e \in T}

(* K elements of pool from the top of the rank (or fewer if there are not  *)
(* K); the lowest K are the top of the opposite rank.                      *)
TopK(pool, rank, K) ==
  {C \in SUBSET pool :
     /\ Cardinality(C) = Min({K, Cardinality(pool)})
     /\ \A c \in C, u \in pool \ C : rank[c] >= rank[u]}
=============================================================================
