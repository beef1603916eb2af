------------------------------- MODULE Judge -------------------------------
(***************************************************************************)
(* The verifier chain, ocr/verifiers.py: what becomes of a receipt the OCR *)
(* engine could read.  A store name is compared with every active shop by  *)
(* a similarity ratio, given here as a percentage.                         *)
(***************************************************************************)
EXTENDS Naturals, Sequences, FiniteSetsExt

CONSTANTS
    Names,       \* the store names an engine may read
    ShopOrder,   \* the shops by sort_order
    Similarity,  \* Similarity[name][shop]: SequenceMatcher.ratio(), in percent
    Null         \* a field the engine could not read, no shop

Shops == {ShopOrder[i] : i \in DOMAIN ShopOrder}

ASSUME JudgeAssumption ==
    /\ ShopOrder \in Seq(Shops)
    /\ \A i, j \in DOMAIN ShopOrder : ShopOrder[i] = ShopOrder[j] => i = j
    /\ Similarity \in [Names -> [Shops -> 0..100]]
    /\ Null \notin Shops \cup Names

StoreRejectBelow == 50
StorePassAt      == 70

\* The most similar of the active shops, the first by sort_order among equals;
\* a ratio of zero is no match at all.
BestMatch(name, active) ==
    LET ratio(s) == Similarity[name][s]
        best     == {i \in DOMAIN ShopOrder :
                       LET s == ShopOrder[i]
                       IN /\ s \in active
                          /\ ratio(s) > 0
                          /\ \A t \in active : ratio(t) <= ratio(s)}
        shop     == ShopOrder[Min(best)]
    IN IF best = {} THEN [shop |-> Null, ratio |-> 0]
                    ELSE [shop |-> shop, ratio |-> ratio(shop)]

When(condition, severity, code) ==
    IF condition THEN <<[severity |-> severity, code |-> code]>> ELSE <<>>

\* The failures of a reading in the order of the chain.  A missing date, and
\* the shop of a missing name, are skipped.
Failures(reading, ratio, today) ==
       When(reading.name = Null, "retry", "MISSING_REQUIRED_FIELD")
    \o When(reading.low, "review", "LOW_CONFIDENCE")
    \o When(reading.date \notin {Null, today}, "reject", "NOT_TODAY")
    \o (IF reading.name = Null THEN <<>>
        ELSE    When(ratio < StoreRejectBelow, "reject", "SHOP_NOT_PARTICIPATING")
             \o When(ratio \in StoreRejectBelow..(StorePassAt - 1),
                     "review", "SHOP_MATCH_UNCERTAIN"))

Severities(failures) == {failures[i].severity : i \in DOMAIN failures}

\* The first code of a severity, in the order of the chain.
FirstCode(failures, severity) ==
    failures[Min({i \in DOMAIN failures : failures[i].severity = severity})].code

\* Wrong: a review is approved like a clean pass, outside the audit queue.
Aggregate_NoAudit(failures) ==
    LET Says(severity) == severity \in Severities(failures)
    IN CASE Says("reject") ->
              [decision |-> "reject", reason |-> FirstCode(failures, "reject"), audit |-> FALSE]
         [] ~Says("reject") /\ Says("retry") ->
              [decision |-> "retry", reason |-> FirstCode(failures, "retry"), audit |-> FALSE]
         [] OTHER ->
              [decision |-> "approve", reason |-> "NONE", audit |-> FALSE]

\* reject before retry before review; a review alone is approved with an audit.
Aggregate(failures) ==
    LET Says(severity) == severity \in Severities(failures)
    IN CASE Says("reject") ->
              [decision |-> "reject", reason |-> FirstCode(failures, "reject"), audit |-> FALSE]
         [] ~Says("reject") /\ Says("retry") ->
              [decision |-> "retry", reason |-> FirstCode(failures, "retry"), audit |-> FALSE]
         [] ~Says("reject") /\ ~Says("retry") /\ Says("review") ->
              [decision |-> "approve", reason |-> FirstCode(failures, "review"), audit |-> TRUE]
         [] OTHER ->
              [decision |-> "approve", reason |-> "NONE", audit |-> FALSE]

Match(reading, active) ==
    IF reading.name = Null THEN [shop |-> Null, ratio |-> 0]
                           ELSE BestMatch(reading.name, active)

Evaluate(reading, active, today) ==
    Aggregate(Failures(reading, Match(reading, active).ratio, today))

\* The shop the outcome names: none under the threshold for a doubtful match.
MatchedShop(reading, active) ==
    LET match == Match(reading, active)
    IN IF match.ratio < StoreRejectBelow THEN Null ELSE match.shop

=============================================================================
