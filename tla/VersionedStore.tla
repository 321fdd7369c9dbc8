--------------------------- MODULE VersionedStore ---------------------------
(***************************************************************************)
(* What the state database promises to the node.  Every version that is    *)
(* committed is immutable and can be checked out; every handle reads a     *)
(* version and its own writes over it, whatever other handles do; one      *)
(* version is durable, and it is what a restart finds, whole.  When a      *)
(* version becomes durable, versions that do not build on it and the       *)
(* handles on them are abandoned: nothing is promised about them.          *)
(***************************************************************************)
EXTENDS Naturals, Functions

CONSTANTS Key, Item, Handle, Main, NoView

VARIABLES versions,     \* committed versions by tag: their contents
          views,        \* what each handle reads, NoView if abandoned
          durable       \* the contents on disk

vvars == <<versions, views, durable>>

Write ==
    /\ \E h \in Handle, k \in Key, i \in Item :
          /\ views[h] # NoView
          /\ views' = [views EXCEPT ![h][k] = i]
    /\ UNCHANGED <<versions, durable>>

\* Checkout, or Fork: a handle moves to a committed version, or is a fork of an
\* abandoned one.
Move ==
    /\ \E h \in Handle, v \in Range(versions) \cup {NoView} : views' = [views EXCEPT ![h] = v]
    /\ UNCHANGED <<versions, durable>>

Commit ==
    /\ \E h \in Handle, t \in DOMAIN versions' \ DOMAIN versions :
          /\ views[h] # NoView
          /\ versions' = [u \in DOMAIN versions \cup {t} |->
                            IF u = t THEN views[h] ELSE versions[u]]
    /\ UNCHANGED <<views, durable>>

Flush ==
    /\ \E t \in DOMAIN versions' : durable' = versions[t]
    /\ DOMAIN versions' \subseteq DOMAIN versions
    /\ versions' = Restrict(versions, DOMAIN versions')
    /\ \A h \in Handle : views'[h] \in {views[h], NoView}
    /\ DOMAIN views' = Handle

Restart ==
    /\ \E t \in DOMAIN versions : versions' = [u \in {t} |-> durable]
    /\ views' = [h \in Handle |-> IF h = Main THEN durable ELSE NoView]
    /\ UNCHANGED durable

Init ==
    /\ durable \in [Key -> Item]
    /\ Range(versions) = {durable}
    /\ views = [h \in Handle |-> IF h = Main THEN durable ELSE NoView]

Next == Write \/ Move \/ Commit \/ Flush \/ Restart

Spec == Init /\ [][Next]_vvars
=============================================================================
