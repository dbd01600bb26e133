------------------------------ MODULE MCDlCache ------------------------------
(***************************************************************************)
(* Three mount points: two with the same base name, one of them below the  *)
(* third.  Two images hold a file "x"; one holds it a second time below    *)
(* "b", where the nested mount point shadows it.  One path is also spelled *)
(* with a slash written twice, which dlmap2file caches by itself, and one  *)
(* leads out of its mount point.                                           *)
(***************************************************************************)
EXTENDS DlCache

MCMountPoints == {<<"a">>, <<"a", "b">>, <<"b">>}
MCImages == {"i1", "i2"}
MCFiles == [i \in MCImages |-> IF i = "i1" THEN {<<"x">>, <<"b", "x">>} ELSE {<<"x">>}]
MCPaths == {<<"a", "x">>, <<"a", "", "x">>, <<"a", "..", "x">>, <<"a", "b", "x">>, <<"b", "x">>}

\* What the calls and the invariants depend on: neither reads the last answer,
\* and once the process has ended nothing but the disk is left.
Live == IF alive THEN <<mounts, cache, tmpdir, disk, under, asked>> ELSE <<disk>>
=============================================================================
