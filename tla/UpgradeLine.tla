----------------------------- MODULE UpgradeLine -----------------------------
(***************************************************************************)
(* What the PVUpdateManager promises of its queue, without channel, map or *)
(* handler: PVs stand in one line of any length, each at most once, and    *)
(* are served one at a time in the order in which they joined; a PV joins  *)
(* only while it neither stands in the line nor is being served; nobody    *)
(* leaves the line unserved, except that it breaks up with the process.    *)
(***************************************************************************)
EXTENDS Sequences

CONSTANTS
    Names,     \* who may join
    Nobody     \* not one of them

VARIABLES
    line,      \* who waits, in the order of service
    current    \* who is being served

vars == <<line, current>>

Standing == {line[i] : i \in DOMAIN line}

Init == line = <<>> /\ current = Nobody

Join(p) ==
    /\ p \notin Standing /\ p # current
    /\ line' = Append(line, p)
    /\ UNCHANGED current

Serve ==
    /\ current = Nobody /\ line # <<>>
    /\ current' = Head(line) /\ line' = Tail(line)

Leave ==
    /\ current # Nobody
    /\ current' = Nobody
    /\ UNCHANGED line

BreakUp == line' = <<>> /\ current' = Nobody

Next == (\E p \in Names : Join(p)) \/ Serve \/ Leave \/ BreakUp

Spec == Init /\ [][Next]_vars

=============================================================================
