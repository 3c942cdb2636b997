----------------------------- MODULE MCPaging -----------------------------
(* One reader of a list of up to three entries of its type and a foreign   *)
(* one, two to a page.  Readers share only the list, whose changes any     *)
(* client makes, so that a second one would show nothing more.             *)
EXTENDS Paging
=============================================================================
