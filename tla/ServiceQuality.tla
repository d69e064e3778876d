--------------------------- MODULE ServiceQuality ---------------------------
(***************************************************************************)
(* The latency classes of the dashboard: the boundaries an administrator   *)
(* saves in the settings form, and the service quality page that ranks the *)
(* outbounds and gives each one a status (the table's badge) and a band    *)
(* (the chart's colour).                                                   *)
(*                                                                         *)
(* An average is kept as the sum and the number of its delays, because it  *)
(* need not be a whole number of milliseconds.  Samples are added one by   *)
(* one; a sample without success has no delay.                             *)
(***************************************************************************)
EXTENDS Integers, FiniteSets, Sequences

CONSTANTS
    Tags,          \* outbound tags: numbers, for their order
    Delays,        \* delays in milliseconds
    Typed,         \* what can be typed into a boundary field
    NotANumber,    \* text that is not a whole number
    MaxBoundary,   \* MAX_LATENCY_BOUNDARY_MS
    MaxSamples     \* bound: samples

VARIABLES
    definition,    \* the saved boundaries
    greenMax, yellowMax,   \* the fields of the form
    formError,
    rows,          \* aggregated samples by outbound
    samples        \* samples so far
qualityVars == <<definition, greenMax, yellowMax, formError, rows, samples>>

NoNumber == -1
Definitions == {d \in [green : 0..MaxBoundary, yellow : 0..MaxBoundary] : d.green < d.yellow}
Stat == [count : 0..MaxSamples, measured : 0..MaxSamples, sum : Nat, last : {"none", "failed", "succeeded"}]

ASSUME QualityAssumption ==
    /\ IsFiniteSet(Tags) /\ Tags \subseteq Int
    /\ Delays \subseteq Nat /\ MaxSamples \in Nat
    /\ MaxBoundary \in Nat /\ MaxBoundary >= 2
    /\ Typed \subseteq Nat \cup {NotANumber} /\ {1, 2} \subseteq Typed

QualityTypeOK ==
    /\ definition \in Definitions
    /\ greenMax \in Typed /\ yellowMax \in Typed
    /\ formError \in {"none", "number", "order"}
    /\ rows \in [Tags -> Stat] /\ samples \in 0..MaxSamples

(* Outbounds that a node reports are listed before their first sample.     *)
QualityInit ==
    /\ definition = [green |-> 1, yellow |-> 2]
    /\ greenMax = 1 /\ yellowMax = 2 /\ formError = "none"
    /\ rows = [t \in Tags |-> [count |-> 0, measured |-> 0, sum |-> 0, last |-> "none"]]
    /\ samples = 0

-----------------------------------------------------------------------------
(* The settings form.                                                      *)

parseBoundary(value) == IF value = NotANumber \/ value > MaxBoundary THEN NoNumber ELSE value

Type(green, yellow) ==
    /\ <<green, yellow>> # <<greenMax, yellowMax>>
    /\ greenMax' = green /\ yellowMax' = yellow
    /\ UNCHANGED <<definition, formError, rows, samples>>

(* submit, the update and its answer; the backend checks the same bounds.  *)
submit ==
    LET green == parseBoundary(greenMax)
        yellow == parseBoundary(yellowMax)
    IN  /\ IF green = NoNumber \/ yellow = NoNumber
             THEN formError' = "number" /\ UNCHANGED definition
           ELSE IF yellow <= green
             THEN formError' = "order" /\ UNCHANGED definition
             ELSE formError' = "none" /\ definition' = [green |-> green, yellow |-> yellow]
        /\ UNCHANGED <<greenMax, yellowMax, rows, samples>>

-----------------------------------------------------------------------------
(* The monitor's samples, aggregated by the backend.                       *)

Sample(t, success, delay) ==
    /\ samples < MaxSamples /\ samples' = samples + 1
    /\ rows' = [rows EXCEPT ![t] =
         [count |-> @.count + 1, last |-> IF success THEN "succeeded" ELSE "failed",
          measured |-> IF success THEN @.measured + 1 ELSE @.measured,
          sum |-> IF success THEN @.sum + delay ELSE @.sum]]
    /\ UNCHANGED <<definition, greenMax, yellowMax, formError>>

QualityNext ==
    \/ \E green, yellow \in Typed : Type(green, yellow)
    \/ submit
    \/ \E t \in Tags, delay \in Delays : Sample(t, TRUE, delay)
    \/ \E t \in Tags : Sample(t, FALSE, 0)

QualitySpec == QualityInit /\ [][QualityNext]_qualityVars

-----------------------------------------------------------------------------
(* average_latency_ms: Null without a measurement.                         *)
Unmeasured(row) == row.measured = 0
AverageAtMost(row, bound) == row.sum <= bound * row.measured

qualityStatus(row) ==
    IF row.count = 0 \/ row.last = "none" THEN "pending"
    ELSE IF row.last = "failed" THEN "offline"
    ELSE IF ~Unmeasured(row) /\ ~AverageAtMost(row, definition.yellow) THEN "attention"
    ELSE IF ~Unmeasured(row) /\ ~AverageAtMost(row, definition.green) THEN "degraded"
    ELSE "healthy"

latencyBand(row) ==
    IF Unmeasured(row) THEN "unknown"
    ELSE IF row.last = "failed" THEN "high"
    ELSE IF AverageAtMost(row, definition.green) THEN "good"
    ELSE IF AverageAtMost(row, definition.yellow) THEN "acceptable"
    ELSE "high"

(* compareValues by average_latency_ms: negative when a comes first, with  *)
(* rows that have no value last.                                           *)
Bug_compareValues(a, b) ==
    IF Unmeasured(rows[a]) THEN 1
    ELSE IF Unmeasured(rows[b]) THEN -1
    ELSE rows[a].sum * rows[b].measured - rows[b].sum * rows[a].measured

compareValues(a, b) ==
    IF Unmeasured(rows[a]) /\ Unmeasured(rows[b]) THEN 0
    ELSE IF Unmeasured(rows[a]) THEN 1
    ELSE IF Unmeasured(rows[b]) THEN -1
    ELSE rows[a].sum * rows[b].measured - rows[b].sum * rows[a].measured

(* The comparison the rows are sorted with: ties by tag.                   *)
Compare(a, b, direction) ==
    LET result == compareValues(a, b)
    IN  IF result = 0 THEN a - b ELSE IF direction = "asc" THEN result ELSE -result

-----------------------------------------------------------------------------
(* The badge and the colour of an outbound never contradict each other,    *)
(* whatever boundaries are saved and however the average falls between     *)
(* them: they are two functions with their own order of tests.             *)
StatusMatchesBand ==
    \A t \in Tags :
      LET band == latencyBand(rows[t])
      IN  CASE qualityStatus(rows[t]) = "pending" -> band = "unknown"
            [] qualityStatus(rows[t]) = "offline" -> band \in {"high", "unknown"}
            [] qualityStatus(rows[t]) = "attention" -> band = "high"
            [] qualityStatus(rows[t]) = "degraded" -> band = "acceptable"
            [] qualityStatus(rows[t]) = "healthy" -> band = "good"

(* The comparison is a strict order of the rows in both directions, with   *)
(* unmeasured rows and equal averages among them: two rows are told apart  *)
(* the same way from either side, and every row has a place of its own.    *)
(* Array.sort promises nothing for a comparison that contradicts itself.   *)
RankingIsOrder ==
    \A direction \in {"asc", "desc"} :
      /\ \A a, b \in Tags :
           a < b => Compare(a, b, direction) * Compare(b, a, direction) < 0
      /\ {Cardinality({b \in Tags : Compare(b, a, direction) < 0}) : a \in Tags}
           = 0..Cardinality(Tags) - 1

(* The invariant of service quality: badge, colour and order never         *)
(* contradict each other or themselves.                                    *)
QualityInv == QualityTypeOK /\ StatusMatchesBand /\ RankingIsOrder
=============================================================================
