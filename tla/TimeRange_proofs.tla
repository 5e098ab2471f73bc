--------------------------- MODULE TimeRange_proofs ---------------------------
(***************************************************************************)
(* Proofs about TimeRange, for all arguments, clocks and constants: the    *)
(* automatic step is positive and makes a bounded number of points,        *)
(* relative bounds keep their order, deletions carry both bounds.          *)
(***************************************************************************)
EXTENDS TimeRange, TLAPS

-----------------------------------------------------------------------------
(* Division.                                                               *)

LEMMA DivBounds ==
  ASSUME NEW n \in Int, NEW d \in Nat \ {0}
  PROVE  /\ n \div d \in Int
         /\ d * (n \div d) <= n /\ n < d * (n \div d) + d
  OBVIOUS

LEMMA ProductMono ==
  ASSUME NEW a \in Nat, NEW b \in Int, NEW c \in Int, b <= c
  PROVE  a * b <= a * c
  OBVIOUS

LEMMA DivBelow ==
  ASSUME NEW n \in Int, NEW d \in Nat \ {0}, NEW k \in Int, n < d * k
  PROVE  n \div d < k
<1> DEFINE q == n \div d
<1>1. q \in Int /\ d * q <= n
  BY DivBounds
<1> HIDE DEF q
<1>2. ASSUME k <= q PROVE FALSE
  <2>1. d * k <= d * q
    BY <1>1, <1>2, ProductMono
  <2>. QED  BY <1>1, <2>1
<1>. QED  BY <1>1, <1>2 DEF q

LEMMA DivAtLeast ==
  ASSUME NEW n \in Int, NEW d \in Nat \ {0}, NEW k \in Int, d * k <= n
  PROVE  k <= n \div d
<1> DEFINE q == n \div d
<1>1. q \in Int /\ n < d * (q + 1)
  BY DivBounds
<1> HIDE DEF q
<1>2. ASSUME q < k PROVE FALSE
  <2>1. d * (q + 1) <= d * k
    BY <1>1, <1>2, ProductMono
  <2>. QED  BY <1>1, <2>1
<1>. QED  BY <1>1, <1>2 DEF q

-----------------------------------------------------------------------------
(* The automatic step, for a range that a time.Duration can hold.          *)

LEMMA AutoStepPositive ==
  ASSUME NEW start \in Int, NEW end \in Int
  PROVE  AutoStep(start, end) \in Nat \ {0}
<1> DEFINE W == Second * DataPoints
<1>1. W \in Nat \ {0}
  BY TimeAssumption
<1>2. Sub(end, start) \in Int
  BY TimeAssumption DEF Sub
<1> DEFINE q == Sub(end, start) \div W
           m == IF q < 1 THEN 1 ELSE q
<1>3. q \in Int
  BY <1>1, <1>2, DivBounds
<1>4. m \in Nat \ {0}
  BY <1>3
<1> HIDE DEF m
<1>5. m * Second \in Nat \ {0}
  BY <1>4, TimeAssumption
<1>. QED  BY <1>5 DEF AutoStep, m

LEMMA AutoStepPoints ==
  ASSUME NEW start \in Int, NEW end \in Int, end - start \in 0..MaxDuration
  PROVE  LET points == ((end - start) \div AutoStep(start, end)) + 1
         IN  /\ points <= 2 * DataPoints
             /\ end - start >= Second * DataPoints => points > DataPoints
<1> DEFINE R == end - start
           W == Second * DataPoints
           q == R \div W
           s == AutoStep(start, end)
<1>1. R \in Nat /\ W \in Nat \ {0} /\ Sub(end, start) = R
  BY TimeAssumption DEF Sub
<1>2. q \in Int /\ W * q <= R /\ R < W * q + W /\ 0 <= q
  BY <1>1, DivBounds, DivAtLeast
<1>3. s \in Nat \ {0}
  BY AutoStepPositive
<1>4. s = (IF q < 1 THEN 1 ELSE q) * Second
  BY <1>1 DEF AutoStep
<1> HIDE DEF R, W, q, s
<1>5. R < s * (2 * DataPoints)
  <2>1. CASE q < 1
    <3>1. q = 0 /\ s = Second
      BY <1>2, <1>4, <2>1, TimeAssumption
    <3>2. W * q = 0
      BY <1>1, <3>1
    <3>3. s * (2 * DataPoints) = 2 * W
      BY <3>1, TimeAssumption DEF W
    <3>. QED  BY <1>1, <1>2, <3>2, <3>3
  <2>2. CASE q >= 1
    <3>1. s = q * Second
      BY <1>2, <1>4, <2>2
    <3>2. s * (2 * DataPoints) = 2 * (W * q)
      BY <1>2, <3>1, TimeAssumption DEF W
    <3>3. W <= W * q
      BY <1>1, <1>2, <2>2, ProductMono
    <3>. QED  BY <1>1, <1>2, <3>2, <3>3
  <2>. QED  BY <1>2, <2>1, <2>2
<1>6. R \div s < 2 * DataPoints
  BY <1>1, <1>3, <1>5, DivBelow, TimeAssumption
<1>7. ASSUME W <= R PROVE DataPoints <= R \div s
  <2>1. 1 <= q
    BY <1>1, <1>7, DivAtLeast DEF q
  <2>2. s * DataPoints = W * q
    BY <1>2, <1>4, <2>1, TimeAssumption DEF W
  <2>. QED  BY <1>1, <1>2, <1>3, <2>2, DivAtLeast, TimeAssumption
<1>8. R \div s \in Int
  BY <1>1, <1>3, DivBounds
<1>. QED  BY <1>1, <1>6, <1>7, <1>8, TimeAssumption DEF R, W, s

-----------------------------------------------------------------------------
(* The invariant: one lemma per step.                                      *)

LEMMA InitIInv == Init => IInv
  BY TimeAssumption DEF Init, IInv, TypeOK, Sent, HasStart, HasEnd

LEMMA TickKeepsIInv ==
  ASSUME IInv, Tick
  PROVE  IInv'
  BY TimeAssumption
     DEF IInv, TypeOK, Tick, Answering, args, Sent, HasStart, HasEnd, Parsed,
         IsRelative, Offset, Forms

LEMMA CalledKeepsIInv ==
  ASSUME IInv, Called
  PROVE  IInv'
<1>1. /\ UNCHANGED <<clock, tool, startArg, endArg, stepArg, startTs, endTs, step>>
      /\ nowRead' = clock /\ TypeOK /\ clock \in Nat
  BY TimeAssumption DEF Called, args, IInv, TypeOK
<1>2. \/ phase' = "rejected"
      \/ phase' = "start" /\ tool \in Listing
      \/ phase' = "end" /\ tool \notin Listing
  BY DEF Called, Goto
<1>3. tool = "delete_series" /\ phase' # "rejected" =>
        startArg.form # "empty" /\ endArg.form # "empty"
  BY DEF Called, Goto
<1>4. tool = "query" => tool \notin Listing
  BY DEF Listing
<1>5. ~HasStart' /\ ~HasEnd' /\ ~Sent' /\ phase' # "step"
  BY <1>1, <1>2 DEF HasStart, HasEnd, Sent
<1>6. TypeOK'
  BY <1>1, <1>2 DEF TypeOK
<1>7. (0 <= nowRead /\ nowRead <= clock)'
  BY <1>1
<1>8. /\ tool' = "query" => phase' # "start"
      /\ tool' = "delete_series" /\ phase' \notin {"called", "rejected"} =>
           startArg'.form # "empty" /\ endArg'.form # "empty"
  BY <1>1, <1>2, <1>3, <1>4
<1>. QED  BY <1>5, <1>6, <1>7, <1>8 DEF IInv

LEMMA RejectKeepsIInv ==
  ASSUME IInv, RejectTime \/ RejectStep
  PROVE  IInv'
  BY TimeAssumption
     DEF IInv, TypeOK, RejectTime, RejectStep, Reject, Goto, args, Sent, HasStart, HasEnd

\* What the parser returns for an argument it accepts.
LEMMA ParseTimeMeaning ==
  ASSUME TypeOK, NEW arg \in TimeArgs, arg.form # "bad",
         NEW default \in Int, NEW relative \in BOOLEAN,
         relative => default \in 0..clock
  PROVE  /\ ParseTime(arg, default) \in Int
         /\ Parsed(arg, relative, ParseTime(arg, default))
         /\ arg.form = "empty" => ParseTime(arg, default) = default
<1>1. arg.form \in Forms /\ arg.by \in Int /\ clock \in Nat
  BY TimeAssumption DEF TypeOK
<1>. QED  BY <1>1 DEF ParseTime, Parsed, IsRelative, Offset, Abs, Forms

LEMMA OffsetType ==
  ASSUME NEW arg \in TimeArgs
  PROVE  Offset(arg) \in Int
  BY TimeAssumption DEF Offset

\* A relative argument is read off the clock of the moment.
LEMMA ParseTimeRelative ==
  ASSUME TypeOK, NEW arg \in TimeArgs, IsRelative(arg, FALSE), NEW default
  PROVE  ParseTime(arg, default) = clock + Offset(arg)
  BY TimeAssumption DEF TypeOK, ParseTime, IsRelative, Offset, Abs, Forms

LEMMA ParseEndKeepsIInv ==
  ASSUME IInv, ParseEnd
  PROVE  IInv'
<1> DEFINE default == IF tool \in Listing THEN Unset ELSE nowRead
           relative == tool \notin Listing
<1>1. /\ UNCHANGED <<clock, tool, startArg, endArg, stepArg, startTs, nowRead, step>>
      /\ phase = "end" /\ endArg \in TimeArgs /\ endArg.form # "bad"
      /\ endTs' = ParseTime(endArg, default)
      /\ TypeOK /\ clock \in Nat
  BY TimeAssumption DEF ParseEnd, args, IInv, TypeOK
<1>2. default \in Int /\ relative \in BOOLEAN /\ (relative => default \in 0..clock)
  BY <1>1, TimeAssumption DEF IInv, TypeOK
<1> HIDE DEF default, relative
<1>3. /\ endTs' \in Int
      /\ Parsed(endArg, relative, endTs')
      /\ endArg.form = "empty" => endTs' = default
  BY <1>1, <1>2, ParseTimeMeaning
<1>4. \/ phase' = "start" /\ tool \in {"range_query", "exemplar_query"}
      \/ phase' = "sent" /\ tool \notin {"range_query", "exemplar_query"}
  BY DEF ParseEnd, Goto
<1>5. TypeOK'
  BY <1>1, <1>3, <1>4 DEF TypeOK
<1>7. (HasEnd =>
        Parsed(endArg, tool \notin Listing, endTs))'
  BY <1>1, <1>3 DEF relative, Parsed
<1>8. (HasStart =>
        /\ Parsed(startArg, FALSE, startTs)
        /\ startArg.form = "empty" =>
             startTs = IF tool \in Listing THEN Unset ELSE endTs + Lookback)'
  <2>1. SUFFICES ASSUME HasStart' PROVE tool \in Listing /\ HasStart
    BY <1>1 DEF IInv, Parsed
  <2>. QED  BY <1>1, <1>4, <2>1 DEF HasStart
<1>9. (Sent => OrderKept)'
  <2>1. SUFFICES ASSUME Sent', tool # "query", startTs # Unset, endTs' # Unset
                 PROVE  OrderKept'
    BY <1>1 DEF OrderKept
  <2>2. tool \in Listing /\ HasStart /\ HasStart'
    BY <1>1, <1>4, <2>1 DEF Sent, Listing, Tools, TypeOK, HasStart
  <2>3. /\ startArg.form # "empty" /\ startTs \in Int /\ endTs' \in Int
        /\ Parsed(startArg, FALSE, startTs)
    BY <1>1, <1>3, <2>1, <2>2 DEF IInv, TypeOK
  <2>4. ASSUME IsRelative(startArg, FALSE), IsRelative(endArg, FALSE),
               Offset(startArg) <= Offset(endArg)
        PROVE  startTs <= endTs'
    <3>1. endTs' = clock + Offset(endArg)
      BY <1>1, <2>4, ParseTimeRelative
    <3>2. startTs <= clock + Offset(startArg)
      BY <1>1, <2>3, <2>4, OffsetType DEF Parsed, TypeOK
    <3>. QED  BY <1>1, <2>3, <2>4, <3>1, <3>2, OffsetType DEF TypeOK
  <2>. QED  BY <1>1, <2>2, <2>3, <2>4 DEF OrderKept, IsRelative
<1>10. (tool = "delete_series" /\ phase \notin {"called", "rejected"} =>
         startArg.form # "empty" /\ endArg.form # "empty")'
  BY <1>1 DEF IInv
<1>. QED  BY <1>1, <1>4, <1>5, <1>7, <1>8, <1>9, <1>10 DEF IInv, Sent

\* Two times parsed from relative arguments, in whatever order they were read.
LEMMA ParsedOrder ==
  ASSUME clock \in Nat, NEW s \in Int, NEW e \in Int,
         NEW sArg \in TimeArgs, NEW eArg \in TimeArgs, NEW relative \in BOOLEAN,
         Parsed(sArg, FALSE, s), Parsed(eArg, relative, e),
         IsRelative(sArg, FALSE), IsRelative(eArg, relative),
         Offset(sArg) <= Offset(eArg)
  PROVE  s <= e + clock
<1>1. s \in Offset(sArg)..(clock + Offset(sArg)) /\ e \in Offset(eArg)..(clock + Offset(eArg))
  BY DEF Parsed
<1>. QED  BY <1>1, OffsetType

LEMMA BeforeEnd ==
  ASSUME NEW e \in Int
  PROVE  e + Lookback \in Int /\ e + Lookback < e
  BY TimeAssumption

LEMMA ParseStartKeepsIInv ==
  ASSUME IInv, ParseStart
  PROVE  IInv'
<1> DEFINE default == IF tool \in Listing THEN Unset ELSE endTs + Lookback
<1>1. /\ UNCHANGED <<clock, tool, startArg, endArg, stepArg, endTs, nowRead, step>>
      /\ phase = "start" /\ startArg \in TimeArgs /\ endArg \in TimeArgs
      /\ startArg.form # "bad"
      /\ startTs' = ParseTime(startArg, default)
      /\ TypeOK /\ clock \in Nat
  BY TimeAssumption DEF ParseStart, args, IInv, TypeOK
<1>2. tool \notin Listing =>
        /\ tool \in {"range_query", "exemplar_query"}
        /\ endTs \in Int /\ Parsed(endArg, TRUE, endTs)
  BY <1>1 DEF IInv, HasEnd, TypeOK, Tools, Listing
<1>11. tool \notin Listing => endTs + Lookback \in Int /\ endTs + Lookback < endTs
  BY <1>2, BeforeEnd
<1>3. default \in Int
  BY <1>11, TimeAssumption
<1>4. /\ startTs' \in Int
      /\ Parsed(startArg, FALSE, startTs')
      /\ startArg.form = "empty" => startTs' = default
  <2> HIDE DEF default
  <2>. QED  BY <1>1, <1>3, ParseTimeMeaning
<1>5. \/ phase' = "end" /\ tool \in Listing
      \/ phase' = "step" /\ tool = "range_query"
      \/ phase' = "sent" /\ tool = "exemplar_query"
  BY <1>2 DEF ParseStart, Goto
<1>6. TypeOK'
  BY <1>1, <1>4, <1>5 DEF TypeOK
<1>7. (HasEnd =>
        Parsed(endArg, tool \notin Listing, endTs))'
  BY <1>1, <1>2, <1>5 DEF HasEnd, Parsed, Listing
<1>8. (HasStart =>
        /\ Parsed(startArg, FALSE, startTs)
        /\ startArg.form = "empty" =>
             startTs = IF tool \in Listing THEN Unset ELSE endTs + Lookback)'
  BY <1>1, <1>4 DEF Parsed
<1>9. (Sent => OrderKept)'
  <2>1. SUFFICES ASSUME Sent' PROVE OrderKept'
    OBVIOUS
  <2>2. /\ tool \notin Listing /\ endTs \in Int /\ Parsed(endArg, TRUE, endTs)
        /\ startTs' \in Int
        /\ startArg.form = "empty" => startTs' < endTs
    <3>1. tool \notin Listing
      BY <1>5, <2>1 DEF Sent, Listing
    <3>2. endTs \in Int /\ Parsed(endArg, TRUE, endTs) /\ default \in Int /\ default < endTs
      BY <1>2, <1>11, <3>1
    <3> HIDE DEF default
    <3>. QED  BY <1>4, <3>1, <3>2
  <2>3. ASSUME IsRelative(startArg, FALSE), IsRelative(endArg, TRUE),
               Offset(startArg) <= Offset(endArg)
        PROVE  startTs' <= endTs + clock
    BY <1>1, <1>4, <2>2, <2>3, ParsedOrder
  <2>. QED  BY <1>1, <2>2, <2>3 DEF OrderKept, IsRelative
<1>10. (tool = "delete_series" /\ phase \notin {"called", "rejected"} =>
         startArg.form # "empty" /\ endArg.form # "empty")'
  BY <1>1 DEF IInv
<1>. QED  BY <1>1, <1>5, <1>6, <1>7, <1>8, <1>9, <1>10 DEF IInv, Sent, Listing

LEMMA ChooseStepKeepsIInv ==
  ASSUME IInv, ChooseStep
  PROVE  IInv'
<1>1. /\ UNCHANGED <<clock, tool, startArg, endArg, stepArg, startTs, endTs, nowRead>>
      /\ phase = "step" /\ phase' = "sent" /\ tool = "range_query" /\ tool \notin Listing
      /\ startArg \in TimeArgs /\ endArg \in TimeArgs
      /\ TypeOK /\ clock \in Nat
  BY TimeAssumption DEF ChooseStep, Goto, args, IInv, TypeOK, Listing
<1>2. HasStart /\ HasEnd
  BY <1>1 DEF HasStart, HasEnd
<1>3. /\ endTs \in Int /\ Parsed(endArg, TRUE, endTs)
      /\ startTs \in Int /\ Parsed(startArg, FALSE, startTs)
      /\ startArg.form = "empty" => startTs = endTs + Lookback
  <2>1. endTs \in Int
    BY <1>1 DEF TypeOK
  <2>2. endTs + Lookback \in Int
    BY <2>1, BeforeEnd
  <2>. QED  BY <1>1, <1>2, <2>1, <2>2 DEF IInv, TypeOK
<1>4. AutoStep(startTs, endTs) \in Nat \ {0}
  BY <1>3, AutoStepPositive
<1>5. /\ step' \in Int
      /\ \/ stepArg = NoStep /\ step' = AutoStep(startTs, endTs)
         \/ stepArg # NoStep /\ step' > 0
  BY <1>4, TimeAssumption DEF ChooseStep
<1>6. TypeOK'
  BY <1>1, <1>5 DEF TypeOK
<1>7. (Sent => OrderKept)'
  <2>1. ASSUME IsRelative(startArg, FALSE), IsRelative(endArg, TRUE),
               Offset(startArg) <= Offset(endArg)
        PROVE  startTs <= endTs + clock
    BY <1>1, <1>3, <2>1, ParsedOrder
  <2>. QED  BY <1>1, <1>3, <2>1, TimeAssumption DEF OrderKept, IsRelative
<1>8. (Sent /\ tool = "range_query" =>
        \/ stepArg = NoStep /\ step = AutoStep(startTs, endTs)
        \/ stepArg # NoStep /\ step > 0)'
  BY <1>1, <1>5 DEF AutoStep, Sub
<1>9. (HasEnd =>
        Parsed(endArg, tool \notin Listing, endTs))'
  BY <1>1, <1>3 DEF Parsed
<1>10. (HasStart =>
        /\ Parsed(startArg, FALSE, startTs)
        /\ startArg.form = "empty" =>
             startTs = IF tool \in Listing THEN Unset ELSE endTs + Lookback)'
  BY <1>1, <1>3 DEF Parsed
<1>. QED  BY <1>1, <1>6, <1>7, <1>8, <1>9, <1>10 DEF IInv

LEMMA StutterKeepsIInv ==
  ASSUME IInv, UNCHANGED vars
  PROVE  IInv'
<1>1. UNCHANGED <<clock, tool, startArg, endArg, stepArg, phase, startTs, endTs, nowRead, step>>
  BY DEF vars, args
<1>2. (HasStart' <=> HasStart) /\ (HasEnd' <=> HasEnd) /\ (Sent' <=> Sent)
  BY <1>1 DEF HasStart, HasEnd, Sent
<1>3. TypeOK' /\ (OrderKept' <=> OrderKept)
  BY <1>1 DEF TypeOK, OrderKept, IInv, Sent
<1>. QED  BY <1>1, <1>2, <1>3 DEF IInv, Parsed

-----------------------------------------------------------------------------
(* Theorems.                                                               *)

\* IInv is an invariant of the handlers.
THEOREM Invariance == Spec => []IInv
<1>1. Init => IInv
  BY InitIInv
<1>2. IInv /\ [Next]_vars => IInv'
  <2> SUFFICES ASSUME IInv, [Next]_vars PROVE IInv'
    OBVIOUS
  <2>1. CASE Tick        BY <2>1, TickKeepsIInv
  <2>2. CASE Called      BY <2>2, CalledKeepsIInv
  <2>3. CASE ParseEnd    BY <2>3, ParseEndKeepsIInv
  <2>4. CASE ParseStart  BY <2>4, ParseStartKeepsIInv
  <2>5. CASE RejectTime  BY <2>5, RejectKeepsIInv
  <2>6. CASE ChooseStep  BY <2>6, ChooseStepKeepsIInv
  <2>7. CASE RejectStep  BY <2>7, RejectKeepsIInv
  <2>8. CASE UNCHANGED vars
    BY <2>8, StutterKeepsIInv
  <2>. QED  BY <2>1, <2>2, <2>3, <2>4, <2>5, <2>6, <2>7, <2>8 DEF Next, Terminated
<1>. QED  BY <1>1, <1>2, PTL DEF Spec

\* The step of a range query is positive; an automatic one makes at most twice
\* the points aimed at and, where whole seconds allow it, more than those.
THEOREM StepAlwaysSound == Spec => []StepSound
<1>1. IInv => StepSound
  <2> SUFFICES ASSUME IInv, Sent, tool = "range_query" PROVE StepSound
    BY DEF StepSound
  <2>1. HasStart /\ HasEnd /\ tool \notin Listing
    BY DEF HasStart, HasEnd, Sent, Listing
  <2>2. endTs \in Int /\ startTs \in Int
    BY DEF IInv, TypeOK
  <2>3. AutoStep(startTs, endTs) \in Nat \ {0}
    BY <2>2, AutoStepPositive
  <2>4. step > 0
    BY <2>3 DEF IInv
  <2>5. ASSUME stepArg = NoStep, endTs - startTs \in 0..MaxDuration
        PROVE  /\ Points <= 2 * DataPoints
               /\ endTs - startTs >= Second * DataPoints => Points > DataPoints
    <3>1. step = AutoStep(startTs, endTs)
      BY <2>5 DEF IInv
    <3>. QED  BY <2>2, <2>5, <3>1, AutoStepPoints DEF Points
  <2>. QED  BY <2>4, <2>5 DEF StepSound
<1>. QED  BY <1>1, Invariance, PTL

\* Relative bounds keep their order up to the time the call has taken.
THEOREM BoundsKeepTheirOrder == Spec => []OrderKept
<1>1. IInv => OrderKept
  BY DEF IInv, OrderKept, Sent
<1>. QED  BY <1>1, Invariance, PTL

\* A deletion is sent with both of its bounds, unless the client wrote the
\* zero time for one.
THEOREM DeletionAlwaysBounded == Spec => []DeletionBounded
<1>1. IInv => DeletionBounded
  <2>1. ASSUME NEW arg \in TimeArgs, NEW t \in Int, clock \in Nat,
               arg.form # "empty", Parsed(arg, FALSE, t), t = Unset
        PROVE  WroteZeroTime(arg)
    BY <2>1, TimeAssumption DEF Parsed, IsRelative, Offset, Forms, WroteZeroTime
  <2> SUFFICES ASSUME IInv, Sent, tool = "delete_series" PROVE DeletionBounded
    BY DEF DeletionBounded
  <2>2. tool \in Listing /\ HasStart /\ HasEnd
    BY DEF HasStart, HasEnd, Sent, Listing
  <2>3. /\ startArg.form # "empty" /\ Parsed(startArg, FALSE, startTs)
        /\ endArg.form # "empty" /\ Parsed(endArg, FALSE, endTs)
    BY <2>2 DEF IInv, Sent
  <2>4. /\ startArg \in TimeArgs /\ endArg \in TimeArgs /\ clock \in Nat
        /\ startTs \in Int /\ endTs \in Int
    BY TimeAssumption DEF IInv, TypeOK
  <2>. QED  BY <2>1, <2>3, <2>4 DEF DeletionBounded
<1>. QED  BY <1>1, Invariance, PTL

=============================================================================
