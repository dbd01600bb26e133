----------------------------- MODULE MCFsContext -----------------------------
(***************************************************************************)
(* Small instances of FsContext.  "/m" and "/m/n" nest, "/m/" is the same  *)
(* directory spelled with a slash, "/" covers everything.                  *)
(***************************************************************************)
EXTENDS FsContext, TLC

MCName == {"m", "n", "x"}

M == [comps |-> <<"m">>, slash |-> FALSE]
MSlash == [comps |-> <<"m">>, slash |-> TRUE]
MN == [comps |-> <<"m", "n">>, slash |-> FALSE]
Root == [comps |-> <<>>, slash |-> TRUE]

\* "/m/n/x" is n/x of an image mounted at /m and x of one mounted at /m/n.
MCPaths == {<<"m">>, <<"m", "n">>, <<"m", "n", "x">>, <<"n">>}
FewPaths == {<<"m">>, <<"m", "n">>, <<"m", "n", "x">>}
NestedPoints == {M, MN}
SlashPoints == {M, MSlash, Root, NoMountPoint}

\* a has m, x, n/ and n/x; b only x; u is unknown, s needs SquashFS, k is
\* corrupt.
MCImages == {"a", "b", "u", "s", "k"}
MCStatus == [i \in Images |->
  CASE i = "u" -> "unknown" [] i = "s" -> "unsupported" [] i = "k" -> "broken"
    [] OTHER -> "ok"]
MCFiles == [i \in Images |->
  CASE i = "a" -> {<<"m">>, <<"x">>, <<"n", "x">>} [] i = "b" -> {<<"x">>} [] OTHER -> {}]
MCDirs == [i \in Images |->
  IF i = "a" THEN {<<>>, <<"n">>} ELSE {<<>>}]

\* A package of 6 bytes: 2 of bootstrap, then images b and a.
Package == [exists |-> TRUE, size |-> 6, whole |-> "u",
            at |-> (1 :> [image |-> "k", len |-> 1] @@ 2 :> [image |-> "b", len |-> 2]
                    @@ 4 :> [image |-> "a", len |-> 2])]
Plain == [exists |-> TRUE, size |-> 3, whole |-> "a",
          at |-> (0 :> [image |-> "a", len |-> 3])]
Gone == [exists |-> FALSE, size |-> 0, whole |-> "u", at |-> <<>>]

\* What the calls and the properties of fs_descriptors depend on: neither
\* reads errno, of which Fail sets any value in any state, or lost.
WithoutResults == <<tables, orphans>>

MCSeekArgs == {-1, 1, 4}

MCHost == [f \in {"package", "plain", "gone"} |->
  CASE f = "package" -> Package [] f = "plain" -> Plain [] OTHER -> Gone]
=============================================================================
