------------------------------- MODULE MCSync -------------------------------
(* Instances of Sync for TLC: a folder with one file in it, and a file     *)
(* beside the folder.                                                      *)
EXTENDS Sync, TLC

CONSTANTS folder, inside, beside

\* The server's clock is behind, and cut to whole seconds besides.
MCSkew == -1

MCParent == (folder :> Root) @@ (inside :> folder) @@ (beside :> Root)
MCAbove == (folder :> {}) @@ (inside :> {folder}) @@ (beside :> {})
============================================================================
