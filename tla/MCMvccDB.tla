------------------------------ MODULE MCMvccDB ------------------------------
(***************************************************************************)
(* The state database with two handles, for a bounded number of layers and *)
(* writes.                                                                 *)
(***************************************************************************)
EXTENDS MvccDB, TLC

CONSTANTS MaxLayers,    \* how many layers are ever made
          MaxPuts,      \* how many items are put
          MaxStops      \* how often the process is started again

VARIABLES puts, stops

MCMInit == MInit /\ puts = 0 /\ stops = 0

MCMNext ==
    \/ /\ puts < MaxPuts
       /\ \E h \in Handle, k \in Key, i \in Item : Put(h, k, i)
       /\ puts' = puts + 1
       /\ UNCHANGED stops
    \/ /\ NewLayer <= MaxLayers
       /\ \E h \in Handle :
             \/ \E t \in tags : Checkout(h, t)
             \/ Commit(h)
             \/ \E g \in Handle : ForkHandle(h, g)
       /\ UNCHANGED <<puts, stops>>
    \/ /\ \/ \E h \in Handle : GetStorage(h) \/ \E k \in Key : GetCache(h, k)
          \/ \E t \in tags : FlushWrite(t)
          \/ FreeBefore
          \/ FlushReturn
       /\ UNCHANGED <<puts, stops>>
    \/ /\ NewLayer <= MaxLayers
       /\ stops < MaxStops
       /\ Reopen
       /\ stops' = stops + 1
       /\ UNCHANGED puts

MCMSpec == MCMInit /\ [][MCMNext]_<<mvars, puts, stops>>

Symmetry == Permutations(Key) \cup Permutations(Value)
=============================================================================
