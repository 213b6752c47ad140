---------------------------- MODULE GuardedVolume ----------------------------
(***************************************************************************)
(* What the upgrade of a hostpath PV promises, without how: the source of  *)
(* the volume changes only while one replica holds the volume, it never    *)
(* becomes a hostpath again, and a CSI volume appears only in the place of *)
(* a volume that is gone.  UpdatePipeline implements this specification.   *)
(***************************************************************************)
CONSTANTS Hosts, NoHost

VARIABLES source, holder

vars == <<source, holder>>

Sources == {"hostpath", "gone", "csi"}

Init == source = "hostpath" /\ holder = NoHost

\* A replica that finds no other holder takes the volume.
Acquire(h) ==
    /\ holder = NoHost /\ source # "csi"
    /\ holder' = h
    /\ UNCHANGED source

\* The end of a run, its undo, or the death of the replica.
Release ==
    /\ holder # NoHost
    /\ holder' = NoHost
    /\ UNCHANGED source

\* The holder deletes the volume it finds: the old one, or, in an undo, the
\* new one.
Remove ==
    /\ holder # NoHost /\ source # "gone"
    /\ source' = "gone"
    /\ UNCHANGED holder

\* The holder puts the CSI volume in the place of the old one.
Replace ==
    /\ holder # NoHost /\ source = "gone"
    /\ source' = "csi"
    /\ UNCHANGED holder

Next == (\E h \in Hosts : Acquire(h)) \/ Release \/ Remove \/ Replace

Spec == Init /\ [][Next]_vars
=============================================================================
