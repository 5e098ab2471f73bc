------------------------------ MODULE MCToolset ------------------------------
(***************************************************************************)
(* Flag values for checking Toolset: the two special targets, alone and in *)
(* a list, a core tool, an admin tool, an ordinary tool, a tool only       *)
(* Thanos has and a name nobody has, in lists of up to two.                *)
(***************************************************************************)
EXTENDS Toolset

ToolNames == {"all", "core", "query", "delete_series", "build_info", "list_stores", "nosuch"}

MCToolLists == {<<a>> : a \in ToolNames} \cup {<<a, b>> : a, b \in ToolNames}
MCBackends  == {Unset, "prometheus", "Prometheus", "thanos", "Thanos", "mimir"}

\* Skill directories: a good one, one whose name a URI survives but the
\* regular expression refuses, one whose name is no host; parsed under their
\* own and under another's name, and with each defect.
MCSkills     == {"alpha", "beta", "Upper", "a b"}
MCGoodNames  == {"alpha", "beta"}
MCHostNames  == {"alpha", "beta", "Upper"}

Good(d) == [dir |-> d, document |-> "parsed", name |-> d, nested |-> FALSE]

MCEntries ==
  {Good(d) : d \in MCSkills}
    \cup {[Good("alpha") EXCEPT !.name = "beta"], [Good("beta") EXCEPT !.name = "alpha"],
          [Good("alpha") EXCEPT !.nested = TRUE]}
    \cup {[Good("beta") EXCEPT !.document = d] : d \in Documents}

MCAssets == {<<>>} \cup {<<e>> : e \in MCEntries}
              \cup {p \in {<<e, f>> : e, f \in MCEntries} : p[1].dir # p[2].dir}

\* The skills do not depend on the flags: all flags are combined with one
\* directory, all directories with one combination of flags.
MCInit == /\ Init
          /\ \/ assets = <<Good("alpha")>>
             \/ mcpTools = <<"core">> /\ backend = Unset /\ adminEnabled = FALSE

MCSpec == MCInit /\ [][Next]_vars

=============================================================================
