------------------------------- MODULE MCWal -------------------------------
(***************************************************************************)
(* The write-ahead log for a bounded number of entries, stops and power    *)
(* failures.                                                               *)
(***************************************************************************)
EXTENDS Wal

CONSTANTS MaxSaves, MaxStops, MaxOutages

VARIABLE stops

MCWInit == WInit /\ stops = 0

MCWNext ==
    \/ /\ UNCHANGED stops
       /\ \/ saves < MaxSaves /\ SaveSingle
          \/ GenFile
          \/ CutRename
          \/ CutNewFile
          \/ \E d \in DOMAIN index : RemoveFilesBefore(d)
          \/ Open
          \/ OpenFails
    \/ /\ stops < MaxStops
       /\ stops' = stops + 1
       /\ Crash \/ (outages < MaxOutages /\ PowerFailure)

MCWSpec == MCWInit /\ [][MCWNext]_<<wvars, stops>>
=============================================================================
