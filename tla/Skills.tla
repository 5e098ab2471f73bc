-------------------------------- MODULE Skills --------------------------------
(***************************************************************************)
(* The runbooks embedded in the binary as Agent Skills                     *)
(* (pkg/mcp/runbooks.go) and the ways a client reaches them: the runbook   *)
(* tools, the skill:// resources (pkg/mcp/resources.go) and the prompts    *)
(* (pkg/mcp/prompts.go).                                                   *)
(*                                                                         *)
(* A skill's document is named by the directory it lies in.                *)
(***************************************************************************)
EXTENDS Sequences, FiniteSetsExt

CONSTANTS Assets,     \* contents of assets/skills: sequences of entries
          Names,      \* names of directories and skills
          SkillNames, \* those that skillNameRegexp matches
          HostNames   \* those that pass through the host part of a URI

\* What parseSkill makes of an entry: "malformed" stands for a frontmatter it
\* cannot find or parse, a description of the wrong length, a missing title.
Documents == {"not_a_directory", "missing", "malformed", "parsed"}
Entries   == [dir : Names, document : Documents, name : Names, nested : BOOLEAN]

ASSUME NamesAssumption == SkillNames \subseteq HostNames /\ HostNames \subseteq Names
ASSUME AssetsAssumption == Assets \subseteq Seq(Entries)

\* The checks of loadRunbookDefs and parseSkill.
Accepted(e) ==
  /\ e.document = "parsed"
  /\ e.name \in SkillNames
  /\ e.name = e.dir
  /\ ~e.nested

\* Mutant of LoadRunbookDefs: an entry that is not accepted is passed over.
LoadRunbookDefsLenient(entries) ==
  LET accepted == SelectSeq(entries, Accepted)
  IN  [failed |-> FALSE,
       defs   |-> [i \in DOMAIN accepted |->
                     [name |-> accepted[i].name, document |-> accepted[i].dir]]]

\* All of the entries, or an error.  ReadDir returns them in the order of
\* their names, so sorting the definitions changes nothing.
LoadRunbookDefs(entries) ==
  IF \E i \in DOMAIN entries : ~Accepted(entries[i])
  THEN [failed |-> TRUE, defs |-> <<>>]
  ELSE [failed |-> FALSE,
        defs   |-> [i \in DOMAIN entries |->
                      [name |-> entries[i].name, document |-> entries[i].dir]]]

-----------------------------------------------------------------------------
(* Serving them.  Every listing (runbooks_list, the instructions, the index *)
(* resource, resources/list, prompts/list) is made from the registry.      *)

Faces   == {"tool", "resource", "prompt"}
Refused == "refused"

Listed(defs) == {defs[i].name : i \in DOMAIN defs}

\* The places of the definitions of that name.
Called(defs, n) == {i \in DOMAIN defs : defs[i].name = n}

\* getRunbookContent: the first definition of that name.
GetRunbookContent(defs, n) ==
  IF n \in Listed(defs) THEN defs[Min(Called(defs, n))].document ELSE Refused

\* SkillReadResourceHandler: the name is the host of the URI.
SkillReadResource(defs, n) ==
  IF n \in HostNames THEN GetRunbookContent(defs, n) ELSE Refused

\* RunbooksReadHandler: the registry is asked, then the resource is read.
RunbooksRead(defs, n) ==
  IF n \in Listed(defs) THEN SkillReadResource(defs, n) ELSE Refused

\* prompts/get: a later prompt of the same name has replaced the former.
PromptGet(defs, n) ==
  IF n \in Listed(defs) THEN defs[Max(Called(defs, n))].document ELSE Refused

ReadSkill(face, defs, n) ==
  IF face = "tool" THEN RunbooksRead(defs, n)
  ELSE IF face = "resource" THEN SkillReadResource(defs, n)
  ELSE PromptGet(defs, n)

=============================================================================
