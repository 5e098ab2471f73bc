--------------------------- MODULE Truncation_proofs ---------------------------
(***************************************************************************)
(* Proofs about Truncation, for every limit and every result size, and     *)
(* whatever Prometheus leaves out of a metadata response: no text exceeds  *)
(* the limit asked for, and what is left out is announced.                 *)
(***************************************************************************)
EXTENDS Truncation, TLAPS

LEMMA InitIInv == Init => IInv
<1> SUFFICES ASSUME Init PROVE IInv
  OBVIOUS
<1>1. shown \in Text /\ warned \in BOOLEAN
  BY DEF Init, Text, Empty
<1>2. TypeOK
  BY <1>1 DEF Init, TypeOK
<1>. QED  BY <1>2 DEF Init, IInv

-----------------------------------------------------------------------------
(* What the helpers return.                                                *)

\* The argument of a tool that is not a metadata tool is a number.
LEMMA ArgIsInt ==
  ASSUME IInv, arg # Unset
  PROVE  arg \in Int
  BY LimitAssumption DEF IInv, TypeOK

LEMMA LimitOfType ==
  ASSUME IInv
  PROVE  LimitOf \in Int
<1>1. truncationLimit \in Int
  BY LimitAssumption DEF IInv, TypeOK
<1>2. CASE arg = Unset
  BY <1>1, <1>2 DEF LimitOf, MetadataLimit, IInv
<1>3. CASE arg # Unset
  <2>1. arg \in Int
    BY <1>3, ArgIsInt
  <2>. QED  BY <1>1, <1>3, <2>1 DEF LimitOf, MetadataLimit, GetEffectiveTruncationLimit
<1>. QED  BY <1>2, <1>3

\* A rendered result has one line per entry.
LEMMA RenderLines ==
  ASSUME NEW t, NEW n \in Nat
  PROVE  Render(t, n) \in Text /\ Lines(Render(t, n)) = n
<1>1. CASE t = "exemplar_query" \/ n = 0
  <2>1. Render(t, n) = [lines |-> n, tail |-> FALSE]
    BY <1>1 DEF Render
  <2>. QED  BY <2>1 DEF Text, Lines
<1>2. CASE ~(t = "exemplar_query" \/ n = 0)
  <2>1. Render(t, n) = [lines |-> n - 1, tail |-> TRUE]
    BY <1>2 DEF Render
  <2>. QED  BY <1>2, <2>1 DEF Text, Lines
<1>. QED  BY <1>1, <1>2

\* truncateStringByLines keeps at most limit lines, and the whole text unless
\* it says otherwise or the limit is off.
LEMMA TruncateKeeps ==
  ASSUME NEW s \in Text, NEW lim \in Int, NEW t, t = TruncateStringByLines(s, lim)
  PROVE  /\ t.text \in Text /\ t.truncated \in BOOLEAN
         /\ ~t.truncated => t.text = s
         /\ lim > 0 => Lines(t.text) <= lim
         /\ lim <= 0 => ~t.truncated
<1>0. s.lines \in Nat /\ s.tail \in BOOLEAN
  BY DEF Text
<1>1. CASE lim <= 0 \/ s.lines < lim
  <2>1. t = [text |-> s, truncated |-> FALSE]
    BY <1>1 DEF TruncateStringByLines
  <2>2. lim > 0 => Lines(s) <= lim
    BY <1>0, <1>1 DEF Lines
  <2>. QED  BY <2>1, <2>2
<1>2. CASE ~(lim <= 0 \/ s.lines < lim)
  <2>1. t = [text |-> [lines |-> lim, tail |-> FALSE], truncated |-> TRUE]
    BY <1>2 DEF TruncateStringByLines
  <2>2. [lines |-> lim, tail |-> FALSE] \in Text
    BY <1>2 DEF Text
  <2>3. Lines(t.text) = lim
    BY <2>1 DEF Lines
  <2>. QED  BY <1>2, <2>1, <2>2, <2>3
<1>. QED  BY <1>1, <1>2

-----------------------------------------------------------------------------

LEMMA NextIInv == IInv /\ [Next]_vars => IInv'
<1> SUFFICES ASSUME IInv, [Next]_vars PROVE IInv'
  OBVIOUS
<1> USE DEF call
<1>1. CASE Limit
  <2>1. limit' = LimitOf /\ LimitOf \in Int
    BY <1>1, LimitOfType DEF Limit, LimitOf
  <2>2. LimitOf' = LimitOf
    BY <1>1 DEF Limit, LimitOf
  <2>3. TypeOK'
    BY <1>1, <2>1 DEF Limit, IInv, TypeOK
  <2>. QED  BY <1>1, <2>1, <2>2, <2>3 DEF Limit, IInv
<1>2. CASE Fetch
  <2>1. LimitOf' = LimitOf
    BY <1>2 DEF Fetch, LimitOf
  <2>2. entries \in Nat /\ limit \in Int
    BY DEF IInv, TypeOK
  <2>3. fetched' \in Nat
    BY <1>2, <2>2 DEF Fetch, Returned
  <2>4. TypeOK'
    BY <1>2, <2>3 DEF Fetch, IInv, TypeOK
  <2>5. fetched' \in Returned(entries)'
    BY <1>2 DEF Fetch, Returned
  <2>. QED  BY <1>2, <2>1, <2>4, <2>5 DEF Fetch, IInv
<1>3. CASE FormatTruncated
  <2>1. LimitOf' = LimitOf
    BY <1>3 DEF FormatTruncated, LimitOf
  <2>2. fetched \in Nat /\ limit \in Int
    BY DEF IInv, TypeOK
  <2>3. Render(tool, fetched) \in Text
    BY <2>2, RenderLines
  <2>4. shown' \in Text /\ warned' \in BOOLEAN
    BY <1>3, <2>2, <2>3, TruncateKeeps DEF FormatTruncated
  <2>5. TypeOK'
    BY <1>3, <2>4 DEF FormatTruncated, IInv, TypeOK
  <2>. QED  BY <1>3, <2>1, <2>5 DEF FormatTruncated, IInv, Returned
<1>4. CASE FormatMetadata
  <2>1. LimitOf' = LimitOf
    BY <1>4 DEF FormatMetadata, LimitOf
  <2>2. warned' \in BOOLEAN
    BY <1>4 DEF FormatMetadata
  <2>3. TypeOK'
    BY <1>4, <2>2 DEF FormatMetadata, IInv, TypeOK
  <2>. QED  BY <1>4, <2>1, <2>3 DEF FormatMetadata, IInv, Returned
<1>5. CASE Terminated \/ UNCHANGED vars
  <2>1. UNCHANGED vars
    BY <1>5 DEF Terminated
  <2>2. LimitOf' = LimitOf
    BY <2>1 DEF vars, LimitOf
  <2>. QED  BY <2>1, <2>2 DEF vars, IInv, TypeOK, Returned
<1>. QED  BY <1>1, <1>2, <1>3, <1>4, <1>5 DEF Next

\* The inductive invariant holds in every reachable state.
THEOREM Invariance == Spec => []IInv
  BY InitIInv, NextIInv, PTL DEF Spec

\* What an answer delivers, by the kind of tool.
LEMMA Answered ==
  ASSUME IInv, phase = "answered"
  PROVE  /\ Delivered \in Nat /\ entries \in Nat /\ limit \in Int /\ limit = LimitOf
         /\ tool \notin MetadataTools /\ limit > 0 => Delivered <= limit
         /\ ~warned => Delivered = entries
         /\ limit <= 0 => ~warned
<1>1. entries \in Nat /\ limit \in Int /\ fetched \in Nat
  BY DEF IInv, TypeOK
<1>2. CASE tool \in MetadataTools
  <2>1. /\ Delivered = fetched
        /\ fetched # entries => limit > 0 /\ fetched \in limit..entries
    BY <1>1, <1>2 DEF Delivered, IInv, Returned
  <2>2. warned = /\ limit > 0 /\ fetched >= limit
                 /\ tool = "metric_metadata" => ~byMetric
    BY <1>2 DEF IInv
  <2>3. byMetric /\ tool = "metric_metadata" => entries <= 1
    BY DEF IInv
  <2>4. ASSUME ~warned, fetched # entries PROVE FALSE
    <3>1. limit > 0 /\ fetched >= limit /\ fetched < entries
      BY <1>1, <2>1, <2>4
    <3>2. tool = "metric_metadata" /\ byMetric
      BY <2>2, <2>4, <3>1
    <3>. QED  BY <1>1, <2>3, <3>1, <3>2
  <2>5. limit <= 0 => ~(limit > 0)
    BY <1>1
  <2>. QED  BY <1>1, <1>2, <2>1, <2>2, <2>4, <2>5 DEF IInv
<1>3. CASE tool \notin MetadataTools
  <2> DEFINE t == TruncateStringByLines(Render(tool, fetched), limit)
  <2>1. fetched = entries /\ shown = t.text /\ warned = t.truncated
    BY <1>1, <1>3 DEF IInv, Returned
  <2>2. Render(tool, fetched) \in Text /\ Lines(Render(tool, fetched)) = fetched
    BY <1>1, RenderLines
  <2>3. /\ t.text \in Text
        /\ ~t.truncated => t.text = Render(tool, fetched)
        /\ limit > 0 => Lines(t.text) <= limit
        /\ limit <= 0 => ~t.truncated
    BY <1>1, <2>2, TruncateKeeps
  <2>4. Delivered = Lines(t.text)
    BY <1>3, <2>1 DEF Delivered
  <2>5. Lines(t.text) \in Nat
    BY <2>3 DEF Text, Lines
  <2>. QED  BY <1>1, <2>1, <2>2, <2>3, <2>4, <2>5 DEF IInv
<1>. QED  BY <1>2, <1>3

\* Nothing is left out of an answer in silence, whatever the limits and
\* however large the result.
THEOREM LossIsAnnounced == Spec => []NoSilentLoss
<1>1. IInv => NoSilentLoss
  BY Answered DEF NoSilentLoss
<1>. QED  BY <1>1, Invariance, PTL

\* No text is longer than the limit its client asks for, the global one when
\* it asks for none; and a limit turned off leaves nothing out.
THEOREM LimitIsKept == Spec => []LimitAsAsked
<1>1. ASSUME IInv, phase = "answered"
      PROVE  /\ tool \notin MetadataTools /\ Asked > 0 => Delivered <= Asked
             /\ Asked <= 0 => Delivered = entries /\ ~warned
  <2>1. /\ Delivered \in Nat /\ limit = LimitOf
        /\ tool \notin MetadataTools /\ limit > 0 => Delivered <= limit
        /\ ~warned => Delivered = entries
        /\ limit <= 0 => ~warned
    BY <1>1, Answered
  <2>2. arg = Unset => tool \in MetadataTools
    BY <1>1 DEF IInv
  <2>3. arg # Unset => arg \in Int
    BY <1>1, ArgIsInt
  <2>4. Asked \in Int
    <3>1. truncationLimit \in Int
      BY <1>1, LimitAssumption DEF IInv, TypeOK
    <3>. QED  BY <2>2, <2>3, <3>1 DEF Asked, NotGiven
  <2>5. Asked > 0 => LimitOf = Asked
    BY <2>2, <2>3, <2>4
       DEF LimitOf, Asked, NotGiven, MetadataLimit, GetEffectiveTruncationLimit
  <2>6. Asked <= 0 => LimitOf <= 0
    BY <2>2, <2>3, <2>4
       DEF LimitOf, Asked, NotGiven, MetadataLimit, GetEffectiveTruncationLimit
  <2>. QED  BY <2>1, <2>4, <2>5, <2>6
<1>2. IInv => LimitAsAsked
  BY <1>1 DEF LimitAsAsked
<1>. QED  BY <1>2, Invariance, PTL

=============================================================================
