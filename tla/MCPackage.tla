------------------------------ MODULE MCPackage ------------------------------
(***************************************************************************)
(* Two editors, bootstraps and images of different sizes, so that a part   *)
(* streamed at the offsets of an old manifest is another part.             *)
(***************************************************************************)
EXTENDS Package, TLC

MCSize == "boot" :> 1 @@ "runtime" :> 2 @@ "i" :> 1 @@ "j" :> 2

\* A caller may give the very mount point that is the default one of a place.
MCMounts == {DefaultMount(1)}
=============================================================================
