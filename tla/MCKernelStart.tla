---------------------------- MODULE MCKernelStart ---------------------------
(* Instances of KernelStart for TLC: sessions of one account.              *)
EXTENDS KernelStart, TLC

CONSTANTS s1, s2, h, l

MCHomeOf == [s \in Session |-> h]
MCLabelOf == [s \in Session |-> l]

\* With a file on the server, or with whatever options.
FilesOnly == [s \in Session |-> {[files |-> TRUE, sync |-> TRUE]}]
AnyOptions == [s \in Session |-> [files : BOOLEAN, sync : BOOLEAN]]

\* The sessions are alike where Options and Talking do not tell them apart.
Alike == Permutations(Session)
=============================================================================
