------------------------------ MODULE MCPaging ------------------------------
(***************************************************************************)
(* Values for the constants of Paging: what the memory of the five tables  *)
(* may hold before anybody writes to it.                                   *)
(***************************************************************************)
EXTENDS Paging

\* Zeroes, what looks like a link to a table, and what looks like a large page.
MCGarbage == {Empty, Link("PD"), Link("APIC_PDPTE"), Huge(5, FALSE)}
=============================================================================
