-------------------------- MODULE MCDirectorySync --------------------------
(***************************************************************************)
(* Instances of DirectorySync for TLC.  One tick of the clock is one       *)
(* overlap; a window is two of them, so that a backfill takes two requests *)
(* and a record can change into a window that is already read.             *)
(***************************************************************************)
EXTENDS DirectorySync

MCEarliest == 0
MCOverlap  == 1
MCWidth    == 2

=============================================================================
