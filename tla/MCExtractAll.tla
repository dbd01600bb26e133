----------------------------- MODULE MCExtractAll -----------------------------
(* ExtractAll with a ZIP archive that names a directory only by what is in    *)
(* it, trees with directories and files that may not be written, and one with *)
(* a symbolic link.                                                           *)
EXTENDS ExtractAll

E(path, type, mode) == [path |-> path, type |-> type, mode |-> mode, mtime |-> "then"]

MCNames == {"a", "d", "e", "f", "g", "h", "l", "m", "own"}

MCImage ==
  [zip    |-> [backend |-> "zip",
               entries |-> <<E(<<"d", "f">>, "file", "rw"), E(<<"d">>, "dir", "rw"),
                             E(<<"g">>, "file", "rw"), E(<<"d">>, "dir", "rw"),
                             E(<<"d", "e">>, "dir", "rw")>>],
   hidden |-> [backend |-> "zip",
               entries |-> <<E(<<"a">>, "file", "rw"), E(<<"d", "f">>, "file", "rw")>>],
   tree   |-> [backend |-> "dwarfs",
               entries |-> <<E(<<"d">>, "dir", "rw"), E(<<"d", "f">>, "file", "ro"),
                             E(<<"e">>, "dir", "ro")>>],
   locked |-> [backend |-> "squashfs",
               entries |-> <<E(<<"d">>, "dir", "ro"), E(<<"d", "f">>, "file", "rw")>>],
   link   |-> [backend |-> "squashfs",
               entries |-> <<E(<<"d">>, "dir", "rw"), E(<<"l">>, "other", "rw"),
                             E(<<"d", "h">>, "file", "rw")>>]]

Mounted(base, img) == [base |-> base, image |-> img]
MCTables ==
  {<<>>} \cup {<<Mounted("m", img)>> : img \in DOMAIN MCImage}
         \cup {<<Mounted("m", "zip"), Mounted("d", "tree")>>,
               <<Mounted("m", "tree"), Mounted("m", "locked")>>}

Empty == (<<>> :> Node("dir", "rw", Now, NoData))
MCDisks ==
  {<<>>, Empty,
   Empty @@ (<<"d">> :> Node("dir", "rw", Now, NoData))
         @@ (<<"d", "own">> :> Node("file", "ro", Now, <<"own">>)),
   Empty @@ (<<"e">> :> Node("file", "rw", Now, <<"own">>)),
   (<<>> :> Node("dir", "ro", Now, NoData)),
   (<<>> :> Node("file", "rw", Now, <<"own">>))}

===============================================================================
