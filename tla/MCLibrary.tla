------------------------------ MODULE MCLibrary ------------------------------
(***************************************************************************)
(* One library, deleted and created again, edited, with failing calls and  *)
(* operator restarts, and monitors that list it or stop listing it.        *)
(***************************************************************************)
EXTENDS LibraryFanout
=============================================================================
