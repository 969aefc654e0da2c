---------------------------- MODULE MCSubfolder -----------------------------
(* An instance of Subfolder for TLC: two processes in local folder A, one  *)
(* in B.  A has kernels on both servers under the default name n1, and one *)
(* under a name of its own.  The two ids stand for 9 and 10.               *)
EXTENDS Subfolder, TLC

CONSTANTS p1, p2, p3, A, B, h1, h2, n1, n2

MCLocalOf == (p1 :> A) @@ (p2 :> A) @@ (p3 :> B)
MCArgs == (p1 :> {<<h1, n1>>}) @@ (p2 :> {<<h2, n1>>, <<h1, n2>>})
          @@ (p3 :> {<<h1, n1>>})
MCDigits == <<1, 2>>
=============================================================================
