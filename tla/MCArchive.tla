------------------------------ MODULE MCArchive ------------------------------
(***************************************************************************)
(* All archives of up to three entries over three names, with sizes below,   *)
(* at and above the limits and one that makes a sum overflow.              *)
(***************************************************************************)
EXTENDS Archive

CONSTANTS n1, n2, n3, irregular, outside

MCNames   == {n1, n2, n3}
MCFilters == {irregular, outside}
MCSizes   == {-1, 0, 1, 2, 3, 7}

MCEntries ==
  [name : MCNames, fails : {{}}, size : MCSizes]
    \cup [name : {n1}, fails : {{irregular}, {outside}}, size : {1}]

MCArchives == UNION {[1..n -> MCEntries] : n \in 0..3}

=============================================================================
