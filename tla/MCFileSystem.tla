----------------------------- MODULE MCFileSystem -----------------------------
(***************************************************************************)
(* Small instances of FileSystem for TLC.                                  *)
(***************************************************************************)
EXTENDS FileSystem

CONSTANTS f1, f2
=============================================================================
