----------------------------- MODULE MCElfParse -----------------------------
(***************************************************************************)
(* Values for the constants of ElfParse.                                   *)
(***************************************************************************)
EXTENDS ElfParse

\* The null section, sections in front of the table, one too far away for the fields of
\* FileHeader, and one behind the table.
MCSections == [offset : {1, 3, 4}, size : 0 .. 2]
              \cup {[offset |-> 0, size |-> 0], [offset |-> 9, size |-> 1],
                    [offset |-> 12, size |-> 1]}
=============================================================================
