---------------------------- MODULE SourceFiles ----------------------------
(***************************************************************************)
(* The files a program may be made of, for the two loaders.  A file stands *)
(* for its normalised path.                                                *)
(***************************************************************************)
EXTENDS Integers, SequencesExt

CONSTANTS
  Files,        (* normalised paths of files                               *)
  Main,         (* the file named on the command line, or - for stdin      *)
  ImportLists   (* the lists of imports a module may have                  *)

ASSUME LoadingAssumption ==
  Main \in Files /\ ImportLists \subseteq Seq(Files)
=============================================================================
