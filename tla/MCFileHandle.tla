----------------------------- MODULE MCFileHandle -----------------------------
(***************************************************************************)
(* Files of up to four bytes, and offsets that fall before, inside, at the *)
(* end of and past them.                                                   *)
(***************************************************************************)
EXTENDS FileHandle

MCSeekBy == -5 .. 5
=============================================================================
