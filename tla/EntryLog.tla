------------------------------ MODULE EntryLog ------------------------------
(***************************************************************************)
(* What a write-ahead log promises to the block cache: entries are kept in *)
(* the order in which they were saved, across any stop of the process,     *)
(* until the cache says from which entry on it needs them.  Only a power   *)
(* failure may take entries away, the last ones.                           *)
(***************************************************************************)
EXTENDS Naturals, Sequences, Functions

VARIABLES log,      \* the entries, numbered in the order of saving
          from,     \* the entry from which on the cache needs the log
          outages   \* how often the power has failed

Init == log = <<>> /\ from = 0 /\ outages = 0

Save ==
    /\ \E d \in Range(log') :
          /\ \A i \in DOMAIN log : log[i] < d
          /\ log' = Append(log, d)
    /\ UNCHANGED <<from, outages>>

\* The cache needs the log from entry from' on: older entries may go.
RemoveBefore ==
    /\ \E k \in 0..Len(log) :
          /\ \A i \in 1..k : log[i] < from'
          /\ log' = SubSeq(log, k + 1, Len(log))
    /\ UNCHANGED outages

PowerFailure ==
    /\ \E k \in 0..Len(log) : log' = SubSeq(log, 1, k)
    /\ outages' = outages + 1
    /\ UNCHANGED from

Next == Save \/ RemoveBefore \/ PowerFailure

Spec == Init /\ [][Next]_<<log, from, outages>>
=============================================================================
