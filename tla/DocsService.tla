----------------------------- MODULE DocsService -----------------------------
(***************************************************************************)
(* What the documentation tools promise, without locks, indexes or         *)
(* goroutines inside swapDocsState: one documentation state is served at a *)
(* time, publishing a new one is a single step, and each container method  *)
(* a handler calls looks at the served state in a single step.  A search   *)
(* fails only when nothing is served, a read only when the served state    *)
(* lacks the file.  A replaced state is never served again.                *)
(***************************************************************************)
EXTENDS Naturals

CONSTANTS Readers, Files, Unsplittable, MaxStates

States == 1..MaxStates
Nil    == 0

VARIABLES
  served,    \* the state being served, Nil when there is none
  names,     \* the file names it holds
  retired,   \* the states served in the past
  stage,     \* reader: idle, about to look at the served state, or done
  searched,  \* reader: the state its search looked at
  todo,      \* reader: files still to be read
  got,       \* reader: the state each file's content came from
  failed     \* reader: the answer is an error

storeVars == <<served, names, retired>>
callVars  == <<stage, searched, todo, got, failed>>
vars      == <<storeVars, callVars>>

Stages == {"idle", "search", "list", "read", "done"}

NoFiles == [f \in Files |-> Nil]

Init ==
  /\ served \in {Nil, 1}
  /\ names \in SUBSET Files
  /\ served = Nil => names = {}
  /\ retired = {}
  /\ stage = [r \in Readers |-> "idle"]
  /\ searched = [r \in Readers |-> Nil]
  /\ todo = [r \in Readers |-> {}]
  /\ got = [r \in Readers |-> NoFiles]
  /\ failed = [r \in Readers |-> FALSE]

\* A state never served before replaces the served one.
Publish ==
  /\ \E s \in States \ (retired \cup {served}) : served' = s
  /\ names' \in SUBSET Files
  /\ retired' = retired \cup ({served} \ {Nil})
  /\ UNCHANGED callVars

Ask(r) ==
  /\ stage[r] = "idle"
  /\ \/ /\ \E st \in {"search", "list"} : stage' = [stage EXCEPT ![r] = st]
        /\ UNCHANGED todo
     \/ /\ stage' = [stage EXCEPT ![r] = "read"]
        /\ \E f \in Files : todo' = [todo EXCEPT ![r] = {f}]
  /\ UNCHANGED <<storeVars, searched, got, failed>>

Fail(r) ==
  /\ failed' = [failed EXCEPT ![r] = TRUE]
  /\ stage' = [stage EXCEPT ![r] = "done"]
  /\ UNCHANGED <<storeVars, searched, todo, got>>

\* The search finds files of the served state, all to be read, if any.
Search(r) ==
  /\ stage[r] = "search"
  /\ served # Nil
  /\ \E hits \in SUBSET (names \ Unsplittable) :
       /\ todo' = [todo EXCEPT ![r] = hits]
       /\ stage' = [stage EXCEPT ![r] = IF hits = {} THEN "done" ELSE "read"]
  /\ searched' = [searched EXCEPT ![r] = served]
  /\ UNCHANGED <<storeVars, got, failed>>

List(r) ==
  /\ stage[r] = "list"
  /\ served # Nil
  /\ stage' = [stage EXCEPT ![r] = "done"]
  /\ UNCHANGED <<storeVars, searched, todo, got, failed>>

Read(r) ==
  /\ stage[r] = "read"
  /\ \E f \in todo[r] \cap names :
       /\ got' = [got EXCEPT ![r][f] = served]
       /\ todo' = [todo EXCEPT ![r] = @ \ {f}]
       /\ stage' = [stage EXCEPT ![r] = IF todo[r] = {f} THEN "done" ELSE "read"]
  /\ UNCHANGED <<storeVars, searched, failed>>

\* The only ways a call may fail.
Unserved(r) == stage[r] \in {"search", "list"} /\ served = Nil /\ Fail(r)
Missing(r)  == stage[r] = "read" /\ todo[r] \ names # {} /\ Fail(r)

Reply(r) ==
  /\ stage[r] = "done"
  /\ stage' = [stage EXCEPT ![r] = "idle"]
  /\ searched' = [searched EXCEPT ![r] = Nil]
  /\ todo' = [todo EXCEPT ![r] = {}]
  /\ got' = [got EXCEPT ![r] = NoFiles]
  /\ failed' = [failed EXCEPT ![r] = FALSE]
  /\ UNCHANGED storeVars

Answer(r) == \/ Search(r) \/ List(r) \/ Read(r)
             \/ Unserved(r) \/ Missing(r) \/ Reply(r)

Next == Publish \/ \E r \in Readers : Ask(r) \/ Answer(r)

Spec     == Init /\ [][Next]_vars
FairSpec == Spec /\ \A r \in Readers : WF_vars(Answer(r))

=============================================================================
