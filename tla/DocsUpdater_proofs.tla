--------------------------- MODULE DocsUpdater_proofs ---------------------------
(***************************************************************************)
(* Proofs about DocsUpdater, for any callers, commits and faults: updates  *)
(* are mutually exclusive, all or nothing, never redundant and never       *)
(* install an older download, and "unchanged" is only said of the served   *)
(* documentation.                                                          *)
(***************************************************************************)
EXTENDS DocsUpdater, TLAPS

USE DEF envVars, servedVars, callerVars

\* A step of caller c, but for the environment's.
CallerStep(c) == Lock(c) \/ Update(c) \/ Tick(c) \/ Stop(c)

LEMMA InitIInv == Init => IInv
<1> SUFFICES ASSUME Init PROVE IInv
  OBVIOUS
<1> USE ConstantsAssumption
<1>1. PICK e \in Commits : log = <<e>>
  BY DEF Init
<1>2. log \in Seq(Commits) /\ Len(log) = 1 /\ log[1] = e /\ log # <<>>
  BY <1>1
<1>3. TypeOK
  <2>1. docsAt \in {0, 1}
    BY DEF Init
  <2>2. Outside \in [docsAt : Nat, hash : Commits \cup {NoHash}, failures : 0..MaxCount]
    BY DEF Outside
  <2>3. before \in [Callers -> [docsAt : Nat, hash : Commits \cup {NoHash},
                               failures : 0..MaxCount]]
    BY <2>2 DEF Init
  <2>4. hash \in Commits \cup {NoHash} /\ hashAt \in Nat
    BY <1>2 DEF Init
  <2>5. log \in Seq(Commits) /\ log # <<>>
    BY <1>2
  <2>6. upc \in [Callers -> PCs] /\ outcome \in [Callers -> Outcomes]
    BY DEF Init, PCs, Outcomes
  <2>7. /\ faults = 0 /\ cancelled = FALSE /\ mu = NoOne /\ failures = 0
        /\ stamped = FALSE /\ seen = [c \in Callers |-> 0]
        /\ archive = [c \in Callers |-> 0]
    BY DEF Init
  <2>8. failures \in 0..MaxCount /\ faults \in 0..MaxFaults
    BY <2>7
  <2>9. seen \in [Callers -> Nat] /\ archive \in [Callers -> Nat]
    BY <2>7
  <2>10. docsAt \in Nat
    BY <2>1
  <2>11. cancelled \in BOOLEAN /\ stamped \in BOOLEAN /\ mu \in Callers \cup {NoOne}
    BY <2>7
  <2>. QED  BY <2>3, <2>4, <2>5, <2>6, <2>8, <2>9, <2>10, <2>11 DEF TypeOK
<1>4. MutexOK /\ AllOrNothing
  BY DEF Init, MutexOK, AllOrNothing, Inside
<1>5. ServedOK
  BY <1>2 DEF Init, ServedOK, NoRepeats, Positions
<1>6. ASSUME NEW c \in Callers PROVE CallerOK(c)
  BY <1>6 DEF Init, CallerOK
<1>. QED  BY <1>3, <1>4, <1>5, <1>6 DEF IInv

-----------------------------------------------------------------------------
(* Type correctness.                                                       *)

LEMMA LogFacts ==
  ASSUME TypeOK
  PROVE  Len(log) \in Nat /\ Len(log) >= 1 /\ \A i \in Positions : log[i] \in Commits
  BY DEF TypeOK, Positions

LEMMA FaultsTyped ==
  ASSUME TypeOK, RequestFails \/ UNCHANGED faults
  PROVE  faults' \in 0..MaxFaults
  BY ConstantsAssumption DEF TypeOK, RequestFails

LEMMA FailTypeOK ==
  ASSUME TypeOK, NEW c \in Callers, Fail(c), faults' \in 0..MaxFaults
  PROVE  TypeOK'
<1>1. failures' \in 0..MaxCount
  BY ConstantsAssumption DEF TypeOK, Fail
<1>2. outcome' = [outcome EXCEPT ![c] = "error"] /\ upc' = [upc EXCEPT ![c] = "return"]
  BY DEF Fail, Return, Goto
<1>. QED  BY <1>1, <1>2 DEF TypeOK, PCs, Outcomes, Positions, Fail, servedVars

LEMMA StepTypeOK ==
  ASSUME TypeOK, \A d \in Callers : CallerOK(d), NEW c \in Callers, CallerStep(c)
  PROVE  TypeOK'
<1>0. Len(log) \in Nat /\ Len(log) >= 1 /\ \A i \in 1..Len(log) : log[i] \in Commits
  BY LogFacts DEF Positions
<1>00. upc[c] = "commit" => seen[c] \in 1..Len(log)
  BY DEF CallerOK, Positions
<1> USE <1>0, <1>00, ConstantsAssumption DEF TypeOK, PCs, Outcomes
<1>1. CASE Lock(c)              BY <1>1 DEF Lock, Goto, Known
<1>2. CASE CheckForUpdate(c)
  BY <1>2 DEF CheckForUpdate, Return, Goto, MainHead, Positions
<1>3. CASE CheckFails(c)        BY <1>3, FaultsTyped, FailTypeOK DEF CheckFails
<1>4. CASE Download(c)          BY <1>4 DEF Download, Goto
<1>5. CASE DownloadFails(c)     BY <1>5, FaultsTyped, FailTypeOK DEF DownloadFails
<1>6. CASE Extract(c)           BY <1>6 DEF Extract, Goto
<1>7. CASE ExtractFails(c)      BY <1>7, FaultsTyped, FailTypeOK DEF ExtractFails
<1>8. CASE SwapDocs(c)          BY <1>8 DEF SwapDocs, Goto
<1>9. CASE Commit(c)            BY <1>9 DEF Commit, Return, Goto, Positions
<1>10. CASE Unlock(c)           BY <1>10 DEF Unlock, Goto, Outside
<1>11. CASE Tick(c)             BY <1>11 DEF Tick, Goto
<1>12. CASE Stop(c)             BY <1>12 DEF Stop, Goto
<1>. QED
  BY <1>1, <1>2, <1>3, <1>4, <1>5, <1>6, <1>7, <1>8, <1>9, <1>10, <1>11, <1>12 DEF CallerStep, Update

LEMMA MoveKeepsLog ==
  ASSUME TypeOK, Move
  PROVE  /\ log' \in Seq(Commits) /\ log' # <<>>
         /\ Len(log') = Len(log) + 1
         /\ \A i \in Positions : log'[i] = log[i]
  BY DEF TypeOK, Move, Positions

LEMMA MoveTypeOK == TypeOK /\ Move => TypeOK'
  BY MoveKeepsLog DEF TypeOK, Move

LEMMA MoveIInv == IInv /\ Move => IInv'
<1> SUFFICES ASSUME IInv, Move PROVE IInv'
  OBVIOUS
<1>1. TypeOK /\ TypeOK'
  BY MoveTypeOK DEF IInv
<1>2. /\ UNCHANGED <<faults, cancelled, mu, servedVars, failures, callerVars>>
      /\ Len(log) \in Nat /\ Len(log') = Len(log) + 1
      /\ \A i \in Positions : log'[i] = log[i]
      /\ Positions \subseteq Positions'
  BY <1>1, LogFacts, MoveKeepsLog DEF Move, Positions
<1>3. MutexOK'
  BY <1>2 DEF IInv, MutexOK
<1>4. ~Rewrites => NoRepeats'
  BY <1>1 DEF IInv, ServedOK, NoRepeats, Positions, Move, TypeOK
<1>5. ServedOK'
  BY <1>1, <1>2, <1>4 DEF IInv, ServedOK, TypeOK
<1>6. ASSUME NEW c \in Callers PROVE CallerOK(c)'
  <2>1. CallerOK(c) /\ docsAt <= Len(log) /\ docsAt \in Nat
    BY <1>1 DEF IInv, ServedOK, TypeOK
  <2>2. archive[c] \in seen[c]..Len(log) => archive[c] \in seen[c]..Len(log')
    BY <1>1, <1>2 DEF TypeOK
  <2>3. docsAt # 0 => docsAt \in Positions
    BY <1>2, <2>1 DEF Positions
  <2>. QED  BY <1>2, <2>1, <2>2, <2>3 DEF CallerOK, Known
<1>7. AllOrNothing'
  <2>1. ASSUME NEW c \in Callers, outcome[c] = "updated" PROVE log'[seen[c]] = log[seen[c]]
    BY <1>2, <2>1 DEF IInv, CallerOK
  <2>. QED  BY <1>2, <2>1 DEF IInv, AllOrNothing, Known
<1>. QED  BY <1>1, <1>3, <1>5, <1>6, <1>7 DEF IInv

LEMMA StillIInv ==
  ASSUME IInv, UNCHANGED <<log, mu, servedVars, failures, callerVars>>, TypeOK'
  PROVE  IInv'
<1>1. MutexOK' /\ AllOrNothing'
  BY DEF IInv, MutexOK, AllOrNothing, Known
<1>2. ServedOK'
  BY DEF IInv, ServedOK, NoRepeats, Positions
<1>3. ASSUME NEW c \in Callers PROVE CallerOK(c)'
  BY DEF IInv, CallerOK, Known, Positions
<1>. QED  BY <1>1, <1>2, <1>3 DEF IInv

-----------------------------------------------------------------------------
(* A step of one caller: the others are outside Update whenever it moves   *)
(* anything they rely on.                                                  *)

LEMMA Others ==
  ASSUME IInv, NEW c \in Callers, CallerStep(c), NEW d \in Callers, d # c
  PROVE  /\ upc'[d] = upc[d] /\ outcome'[d] = outcome[d] /\ seen'[d] = seen[d]
         /\ archive'[d] = archive[d] /\ before'[d] = before[d]
<1> USE DEF IInv, TypeOK
<1>1. CASE Lock(c)              BY <1>1 DEF Lock, Goto, Known
<1>2. CASE CheckForUpdate(c)
  BY <1>2 DEF CheckForUpdate, Return, Goto, MainHead, Positions
<1>3. CASE CheckFails(c)        BY <1>3 DEF CheckFails, RequestFails, Fail, Return, Goto
<1>4. CASE Download(c)          BY <1>4 DEF Download, Goto
<1>5. CASE DownloadFails(c)     BY <1>5 DEF DownloadFails, RequestFails, Fail, Return, Goto
<1>6. CASE Extract(c)           BY <1>6 DEF Extract, Goto
<1>7. CASE ExtractFails(c)      BY <1>7 DEF ExtractFails, RequestFails, Fail, Return, Goto
<1>8. CASE SwapDocs(c)          BY <1>8 DEF SwapDocs, Goto
<1>9. CASE Commit(c)            BY <1>9 DEF Commit, Return, Goto, Positions
<1>10. CASE Unlock(c)           BY <1>10 DEF Unlock, Goto, Outside
<1>11. CASE Tick(c)             BY <1>11 DEF Tick, Goto
<1>12. CASE Stop(c)             BY <1>12 DEF Stop, Goto
<1>. QED
  BY <1>1, <1>2, <1>3, <1>4, <1>5, <1>6, <1>7, <1>8, <1>9, <1>10, <1>11, <1>12 DEF CallerStep, Update

\* Nobody else is inside when c enters, is inside or leaves; a step outside
\* changes nothing but c's place.
LEMMA Alone ==
  ASSUME IInv, NEW c \in Callers, CallerStep(c)
  PROVE  \/ \A d \in Callers : d # c => upc[d] \notin Inside
         \/ /\ upc[c] = "select" /\ upc'[c] \in {"lock", "stopped"}
            /\ UNCHANGED <<log, mu, servedVars, failures, seen, archive, outcome, before>>
<1>1. CASE Lock(c)
  BY <1>1, ConstantsAssumption DEF IInv, MutexOK, Lock
<1>2. CASE Update(c)
  <2>1. upc[c] \in Inside
    BY <1>2 DEF Update, CheckForUpdate, CheckFails, Download, DownloadFails, Extract,
       ExtractFails, SwapDocs, Commit, Unlock, Inside
  <2>. QED  BY <2>1 DEF IInv, MutexOK
<1>3. CASE Tick(c)  BY <1>3 DEF Tick, Goto, IInv, TypeOK
<1>4. CASE Stop(c)  BY <1>4 DEF Stop, Goto, IInv, TypeOK
<1>. QED  BY <1>1, <1>2, <1>3, <1>4 DEF CallerStep

LEMMA StepMutexOK ==
  ASSUME IInv, NEW c \in Callers, CallerStep(c)
  PROVE  MutexOK'
<1>1. mu' = c <=> upc'[c] \in Inside
  <2> USE ConstantsAssumption DEF IInv, TypeOK, MutexOK, Inside
  <2>1. CASE Lock(c)            BY <2>1 DEF Lock, Goto, Known
  <2>2. CASE CheckForUpdate(c)  BY <2>2 DEF CheckForUpdate, Return, Goto, MainHead, Positions
  <2>3. CASE CheckFails(c)      BY <2>3 DEF CheckFails, RequestFails, Fail, Return, Goto
  <2>4. CASE Download(c)        BY <2>4 DEF Download, Goto
  <2>5. CASE DownloadFails(c)   BY <2>5 DEF DownloadFails, RequestFails, Fail, Return, Goto
  <2>6. CASE Extract(c)         BY <2>6 DEF Extract, Goto
  <2>7. CASE ExtractFails(c)    BY <2>7 DEF ExtractFails, RequestFails, Fail, Return, Goto
  <2>8. CASE SwapDocs(c)        BY <2>8 DEF SwapDocs, Goto
  <2>9. CASE Commit(c)          BY <2>9 DEF Commit, Return, Goto, Positions
  <2>10. CASE Unlock(c)         BY <2>10 DEF Unlock, Goto, Outside
  <2>11. CASE Tick(c)           BY <2>11 DEF Tick, Goto
  <2>12. CASE Stop(c)           BY <2>12 DEF Stop, Goto
  <2>. QED
    BY <2>1, <2>2, <2>3, <2>4, <2>5, <2>6, <2>7, <2>8, <2>9, <2>10, <2>11, <2>12 DEF CallerStep, Update
<1>2. ASSUME NEW d \in Callers, d # c PROVE mu' = d <=> mu = d
  <2> USE <1>2, ConstantsAssumption DEF IInv, TypeOK, MutexOK, Inside
  <2>1. CASE Lock(c)            BY <2>1 DEF Lock, Goto, Known
  <2>2. CASE CheckForUpdate(c)  BY <2>2 DEF CheckForUpdate, Return, Goto, MainHead, Positions
  <2>3. CASE CheckFails(c)      BY <2>3 DEF CheckFails, RequestFails, Fail, Return, Goto
  <2>4. CASE Download(c)        BY <2>4 DEF Download, Goto
  <2>5. CASE DownloadFails(c)   BY <2>5 DEF DownloadFails, RequestFails, Fail, Return, Goto
  <2>6. CASE Extract(c)         BY <2>6 DEF Extract, Goto
  <2>7. CASE ExtractFails(c)    BY <2>7 DEF ExtractFails, RequestFails, Fail, Return, Goto
  <2>8. CASE SwapDocs(c)        BY <2>8 DEF SwapDocs, Goto
  <2>9. CASE Commit(c)          BY <2>9 DEF Commit, Return, Goto, Positions
  <2>10. CASE Unlock(c)         BY <2>10 DEF Unlock, Goto, Outside
  <2>11. CASE Tick(c)           BY <2>11 DEF Tick, Goto
  <2>12. CASE Stop(c)           BY <2>12 DEF Stop, Goto
  <2>. QED
    BY <2>1, <2>2, <2>3, <2>4, <2>5, <2>6, <2>7, <2>8, <2>9, <2>10, <2>11, <2>12 DEF CallerStep, Update
<1>. QED  BY <1>1, <1>2, Others DEF IInv, MutexOK

\* What "already up to date" means: the head was listed when the hash was, at
\* the end of the log, and the documentation is no older.
LEMMA HeadIsServed ==
  ASSUME IInv, NEW c \in Callers, upc[c] = "check", MainHead = hash,
         ~Rewrites, ~MayMissEmbedded
  PROVE  docsAt = Len(log)
<1>1. Len(log) \in Nat /\ Len(log) >= 1 /\ \A i \in Positions : log[i] \in Commits
  BY LogFacts DEF IInv
<1>2. \A d \in Callers : upc[d] # "commit"
  BY DEF IInv, MutexOK, Inside
<1>3. hashAt <= docsAt /\ docsAt <= Len(log)
  BY <1>2 DEF IInv, ServedOK
<1>4. Len(log) \in Positions
  BY <1>1 DEF Positions
<1>5. hash # NoHash
  BY <1>1, <1>4, ConstantsAssumption DEF MainHead
<1>6. hashAt \in Positions /\ log[hashAt] = log[Len(log)]
  BY <1>5 DEF IInv, ServedOK, MainHead
<1>7. hashAt = Len(log)
  BY <1>4, <1>6 DEF IInv, ServedOK, NoRepeats
<1>. QED  BY <1>1, <1>3, <1>7 DEF IInv, TypeOK

LEMMA OwnCallerOK ==
  ASSUME IInv, NEW c \in Callers, CallerStep(c)
  PROVE  CallerOK(c)'
<1>0. Len(log) \in Nat /\ Len(log) >= 1 /\ \A i \in 1..Len(log) : log[i] \in Commits
  BY LogFacts DEF IInv, Positions
<1>00. CallerOK(c) /\ TypeOK /\ docsAt <= Len(log)
  BY DEF IInv, ServedOK
<1>000. log' = log
  BY DEF CallerStep, Lock, Update, Tick, Stop, CheckForUpdate, CheckFails, Download,
     DownloadFails, Extract, ExtractFails, SwapDocs, Commit, Unlock, Fail
<1> USE <1>0, <1>00, <1>000 DEF TypeOK, CallerOK, Positions, Known
<1>1. CASE Lock(c)              BY <1>1 DEF Lock, Goto, Known
<1>2. CASE CheckForUpdate(c)
  <2>1. MainHead = hash /\ ~Rewrites /\ ~MayMissEmbedded => docsAt = Len(log)
    BY <1>2, HeadIsServed DEF CheckForUpdate
  <2>. QED  BY <1>2, <2>1 DEF CheckForUpdate, Return, Goto, MainHead
<1>3. CASE CheckFails(c)        BY <1>3 DEF CheckFails, RequestFails, Fail, Return, Goto
<1>4. CASE Download(c)          BY <1>4 DEF Download, Goto
<1>5. CASE DownloadFails(c)     BY <1>5 DEF DownloadFails, RequestFails, Fail, Return, Goto
<1>6. CASE Extract(c)           BY <1>6 DEF Extract, Goto
<1>7. CASE ExtractFails(c)      BY <1>7 DEF ExtractFails, RequestFails, Fail, Return, Goto
<1>8. CASE SwapDocs(c)          BY <1>8 DEF SwapDocs, Goto
<1>9. CASE Commit(c)            BY <1>9 DEF Commit, Return, Goto, Positions
<1>10. CASE Unlock(c)           BY <1>10 DEF Unlock, Goto, Outside
<1>11. CASE Tick(c)             BY <1>11 DEF Tick, Goto
<1>12. CASE Stop(c)             BY <1>12 DEF Stop, Goto
<1>. QED
  BY <1>1, <1>2, <1>3, <1>4, <1>5, <1>6, <1>7, <1>8, <1>9, <1>10, <1>11, <1>12 DEF CallerStep, Update

LEMMA StepServedOK ==
  ASSUME IInv, NEW c \in Callers, CallerStep(c)
  PROVE  ServedOK'
<1>1. log' = log
  BY DEF CallerStep, Lock, Update, Tick, Stop, CheckForUpdate, CheckFails, Download,
     DownloadFails, Extract, ExtractFails, SwapDocs, Commit, Unlock, Fail
<1>2. NoRepeats' <=> NoRepeats
  BY <1>1 DEF NoRepeats, Positions
<1>3. CASE SwapDocs(c)
  <2>1. upc'[c] = "commit"
    BY <1>3 DEF SwapDocs, Goto, IInv, TypeOK
  <2>2. docsAt' = archive[c] /\ archive[c] <= Len(log) /\ UNCHANGED <<hash, hashAt>>
    BY <1>3 DEF SwapDocs, IInv, CallerOK
  <2>. QED  BY <1>1, <1>2, <2>1, <2>2 DEF IInv, ServedOK, Positions
<1>4. CASE Commit(c)
  <2>1. /\ hash' = log[seen[c]] /\ hashAt' = seen[c] /\ docsAt' = docsAt
        /\ seen[c] \in Positions /\ docsAt = archive[c]
        /\ archive[c] \in seen[c]..Len(log)
    BY <1>4 DEF Commit, IInv, CallerOK
  <2>2. hashAt' # 0 /\ hashAt' <= docsAt'
    BY <2>1 DEF Positions
  <2>. QED  BY <1>1, <1>2, <2>1, <2>2 DEF IInv, ServedOK, Positions
<1>5. CASE ~SwapDocs(c) /\ ~Commit(c)
  <2>1. UNCHANGED servedVars
    BY <1>5 DEF CallerStep, Lock, Update, Tick, Stop, CheckForUpdate, CheckFails,
       Download, DownloadFails, Extract, ExtractFails, Unlock, Fail
  <2>2. upc[c] # "commit"
    BY <1>5 DEF CallerStep, Lock, Update, Tick, Stop, CheckForUpdate, CheckFails,
       Download, DownloadFails, Extract, ExtractFails, Unlock
  <2>3. (\E d \in Callers : upc[d] = "commit") => \E d \in Callers : upc'[d] = "commit"
    BY <2>2, Others
  <2>. QED  BY <1>1, <1>2, <2>1, <2>3 DEF IInv, ServedOK, Positions
<1>. QED  BY <1>3, <1>4, <1>5

\* Nobody but the holder of the mutex relies on what a step inside moves.
LEMMA OthersCallerOK ==
  ASSUME IInv, NEW c \in Callers, CallerStep(c), NEW d \in Callers, d # c
  PROVE  CallerOK(d)' /\ (upc'[d] = "return" => UNCHANGED <<log, servedVars, failures>>)
<1>1. CallerOK(d) /\ upc[d] \in PCs
  BY DEF IInv, TypeOK
<1>2. /\ upc'[d] = upc[d] /\ outcome'[d] = outcome[d] /\ seen'[d] = seen[d]
      /\ archive'[d] = archive[d] /\ before'[d] = before[d]
  BY Others
<1>3. CASE upc[d] \notin Inside
  BY <1>1, <1>2, <1>3 DEF CallerOK, Inside
<1>4. CASE upc[d] \in Inside
  <2>1. UNCHANGED <<log, mu, servedVars, failures>>
    BY <1>4, Alone
  <2>. QED  BY <1>1, <1>2, <2>1 DEF CallerOK, Known, Positions
<1>. QED  BY <1>3, <1>4

LEMMA StepAllOrNothing ==
  ASSUME IInv, TypeOK', NEW c \in Callers, CallerStep(c)
  PROVE  AllOrNothing'
<1> DEFINE Kept(d) ==
      upc[d] = "return" =>
        /\ outcome[d] = "error" =>
             /\ docsAt = before[d].docsAt /\ hash = before[d].hash
             /\ failures = MaxCount \/ failures = before[d].failures + 1
        /\ outcome[d] = "updated" =>
             /\ docsAt = archive[d] /\ hash = log[seen[d]]
             /\ failures = before[d].failures
        /\ outcome[d] = "unchanged" => Known = before[d]
<1>1. ASSUME NEW d \in Callers, d # c PROVE Kept(d)'
  <2>1. Kept(d)
    BY DEF IInv, AllOrNothing
  <2>2. /\ upc'[d] = upc[d] /\ outcome'[d] = outcome[d] /\ seen'[d] = seen[d]
        /\ archive'[d] = archive[d] /\ before'[d] = before[d]
    BY <1>1, Others
  <2>3. upc'[d] = "return" => UNCHANGED <<log, servedVars, failures>>
    BY <1>1, OthersCallerOK
  <2>. QED  BY <2>1, <2>2, <2>3 DEF Known
<1>2. Kept(c)'
  <2>1. CallerOK(c) /\ TypeOK
    BY DEF IInv
  <2> USE <2>1, ConstantsAssumption DEF TypeOK, CallerOK, Known
  <2>2. CASE Lock(c)            BY <2>2 DEF Lock, Goto
  <2>3. CASE CheckForUpdate(c)  BY <2>3 DEF CheckForUpdate, Return, Goto
  <2>4. CASE CheckFails(c)      BY <2>4 DEF CheckFails, Fail, Return, Goto
  <2>5. CASE Download(c)        BY <2>5 DEF Download, Goto
  <2>6. CASE DownloadFails(c)   BY <2>6 DEF DownloadFails, Fail, Return, Goto
  <2>7. CASE Extract(c)         BY <2>7 DEF Extract, Goto
  <2>8. CASE ExtractFails(c)    BY <2>8 DEF ExtractFails, Fail, Return, Goto
  <2>9. CASE SwapDocs(c)        BY <2>9 DEF SwapDocs, Goto
  <2>10. CASE Commit(c)         BY <2>10 DEF Commit, Return, Goto
  <2>11. CASE Unlock(c)         BY <2>11 DEF Unlock, Goto
  <2>12. CASE Tick(c)           BY <2>12 DEF Tick, Goto
  <2>13. CASE Stop(c)           BY <2>13 DEF Stop, Goto
  <2>. QED
    BY <2>2, <2>3, <2>4, <2>5, <2>6, <2>7, <2>8, <2>9, <2>10, <2>11, <2>12, <2>13
       DEF CallerStep, Update
<1>. QED  BY <1>1, <1>2 DEF AllOrNothing

LEMMA NextIInv == IInv /\ [Next]_vars => IInv'
<1> SUFFICES ASSUME IInv, [Next]_vars PROVE IInv'
  OBVIOUS
<1>1. CASE Move
  BY <1>1, MoveIInv
<1>2. CASE Cancel \/ Terminated \/ UNCHANGED vars
  <2>1. UNCHANGED <<log, mu, servedVars, failures, callerVars>>
    BY <1>2 DEF Cancel, Terminated, vars
  <2>2. TypeOK'
    BY <1>2, <2>1 DEF IInv, TypeOK, Cancel, Terminated, vars
  <2>. QED  BY <2>1, <2>2, StillIInv
<1>3. ASSUME NEW c \in Callers, CallerStep(c) PROVE IInv'
  <2>1. TypeOK'
    BY <1>3, StepTypeOK DEF IInv
  <2>2. \A d \in Callers : CallerOK(d)'
    BY <1>3, OwnCallerOK, OthersCallerOK
  <2>. QED
    BY <1>3, <2>1, <2>2, StepMutexOK, StepServedOK, StepAllOrNothing DEF IInv
<1>. QED  BY <1>1, <1>2, <1>3 DEF Next, CallerStep

\* The inductive invariant holds in every reachable state: type correctness,
\* mutual exclusion, and what hash, documentation and callers owe each other.
THEOREM Invariance == Spec => []IInv
  BY InitIInv, NextIInv, PTL DEF Spec

\* An update is all or nothing, whatever fails and whoever else calls.
THEOREM UpdatesAllOrNothing == Spec => []AllOrNothing
<1>1. IInv => AllOrNothing
  BY DEF IInv
<1>. QED  BY <1>1, Invariance, PTL

\* No two callers ever fetch the same commit one after the other: what a
\* caller is about to install is not installed yet.
THEOREM FetchesNotRedundant == Spec => []NoRedundantFetch
<1>1. IInv => NoRedundantFetch
  BY DEF IInv, CallerOK, NoRedundantFetch
<1>. QED  BY <1>1, Invariance, PTL

\* Between updates the hash is never ahead of the documentation.
THEOREM HashNeverAhead == Spec => []HashNotAheadOfDocs
<1>1. IInv => HashNotAheadOfDocs
  <2>1. ASSUME IInv, mu = NoOne, stamped PROVE hashAt <= docsAt
    <3>1. \A c \in Callers : upc[c] # "commit"
      BY <2>1, ConstantsAssumption DEF IInv, MutexOK, Inside
    <3>. QED  BY <2>1, <3>1 DEF IInv, ServedOK
  <2>. QED  BY <2>1 DEF HashNotAheadOfDocs, IInv, TypeOK
<1>. QED  BY <1>1, Invariance, PTL

\* "Already up to date" is only said while the documentation of the commit
\* that was seen is served, provided the embedded documentation was built
\* and upstream's branch never returns to a commit it has left.
THEOREM UnchangedIsCurrent ==
  ASSUME ~Rewrites, ~MayMissEmbedded
  PROVE  Spec => []UnchangedMeansCurrent
<1>1. IInv => UnchangedMeansCurrent
  BY DEF IInv, CallerOK, UnchangedMeansCurrent
<1>. QED  BY <1>1, Invariance, PTL

\* What is served moves forward along the branch's log or not at all.
LEMMA StepAdvances == IInv /\ [Next]_vars => docsAt' >= docsAt
<1>1. ASSUME IInv, Next PROVE docsAt' >= docsAt
  <2>0. docsAt \in Nat
    BY <1>1 DEF IInv, TypeOK
  <2>1. CASE Move \/ Cancel \/ Terminated
    BY <2>0, <2>1 DEF Move, Cancel, Terminated, vars
  <2>2. ASSUME NEW c \in Callers, SwapDocs(c) PROVE docsAt' >= docsAt
    BY <1>1, <2>2 DEF SwapDocs, IInv, TypeOK, CallerOK
  <2>3. ASSUME NEW c \in Callers, CallerStep(c), ~SwapDocs(c) PROVE docsAt' >= docsAt
    <3>1. docsAt' = docsAt
      BY <2>3 DEF CallerStep, Lock, Update, Tick, Stop, CheckForUpdate, CheckFails,
         Download, DownloadFails, Extract, ExtractFails, Commit, Unlock, Fail
    <3>. QED  BY <2>0, <3>1
  <2>. QED  BY <1>1, <2>1, <2>2, <2>3 DEF Next, CallerStep
<1>2. ASSUME IInv, UNCHANGED vars PROVE docsAt' >= docsAt
  BY <1>2 DEF IInv, TypeOK, vars, servedVars
<1>. QED  BY <1>1, <1>2

\* Served documentation is never replaced by an older download.
THEOREM DocsOnlyAdvance == Spec => DocsNeverGoBack
  BY StepAdvances, Invariance, PTL DEF Spec, DocsNeverGoBack

=============================================================================
