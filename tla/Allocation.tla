----------------------------- MODULE Allocation -----------------------------
(***************************************************************************)
(* What the sub-folders of the remote sync folders are for: every one of   *)
(* them belongs to one local folder, whose processes alone work in it.     *)
(***************************************************************************)
CONSTANTS
    Process, Local, Folder,
    Nobody,     \* the owner of a sub-folder that does not exist
    Nothing,    \* what a process outside of any sub-folder uses
    LocalOf     \* the local folder a process synchronises

VARIABLES
    owner,      \* the local folder a sub-folder belongs to
    uses        \* the sub-folder a process works in

Init ==
    /\ owner = [f \in Folder |-> Nobody]
    /\ uses = [p \in Process |-> Nothing]

\* A process makes a sub-folder for its local folder.
Claim(p, f) ==
    /\ owner[f] = Nobody
    /\ owner' = [owner EXCEPT ![f] = LocalOf[p]]
    /\ UNCHANGED uses

Enter(p, f) ==
    /\ uses[p] = Nothing /\ owner[f] = LocalOf[p]
    /\ uses' = [uses EXCEPT ![p] = f]
    /\ UNCHANGED owner

Leave(p) ==
    /\ uses[p] # Nothing
    /\ uses' = [uses EXCEPT ![p] = Nothing]
    /\ UNCHANGED owner

Next ==
    \E p \in Process :
        Leave(p) \/ \E f \in Folder : Claim(p, f) \/ Enter(p, f)

Spec == Init /\ [][Next]_<<owner, uses>>
=============================================================================
