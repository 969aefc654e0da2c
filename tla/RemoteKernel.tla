---------------------------- MODULE RemoteKernel ----------------------------
(***************************************************************************)
(* The program from its release to the point where it connects: a checkout *)
(* is prepared (Packaging), the package is imported, which asks for its    *)
(* version (Version), and then main() runs (Commands).                     *)
(*                                                                         *)
(* These happen at different places, so an instance does one task: users   *)
(* run commands, or a developer imports his package while he works on it,  *)
(* or he prepares an archive that users import.                            *)
(***************************************************************************)
EXTENDS Commands, Packaging

VARIABLE task

vars == <<commandVars, versionVars, setupVars, task>>

Init ==
    \E k \in Packages :
        /\ task = k.task /\ VersionInit(k) /\ SetupInit
        /\ task # "release" => config = "ok"
        /\ CommandsInit(IF task = "use" THEN Disks ELSE {[l \in Place |-> Absent]})

\* python -m remote_kernel: __init__.py calls get_versions(), and main() runs
\* when that has returned.
Start(p) == stage = "done" /\ Run(p)

Use ==
    \/ \E p \in Process : Start(p) \/ CommandStep(p)
    \/ \E k \in Place : Remove(k)

Next ==
    \/ /\ task = "release" => tree # "checkout"
       /\ Import /\ UNCHANGED <<commandVars, setupVars, task>>
    \/ task = "develop" /\ Develop /\ UNCHANGED <<commandVars, setupVars, task>>
    \/ task = "release" /\ Release /\ UNCHANGED <<commandVars, task>>
    \/ task = "use" /\ Use /\ UNCHANGED <<versionVars, setupVars, task>>

Spec == Init /\ [][Next]_vars

\* Every variable keeps its type, and no command runs before its package is imported.
TypeOK ==
    /\ CommandsTypeOK /\ VersionTypeOK /\ PackagingTypeOK
    /\ \A p \in Process : ~At(p, "off") => stage = "done"
=============================================================================
