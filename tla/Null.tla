---------------------------------- MODULE Null ----------------------------------
(* What a row or a field that is not there is for the modules that are put  *)
(* together: null of SQL, null and undefined of TypeScript.                 *)

CONSTANT None

=============================================================================
