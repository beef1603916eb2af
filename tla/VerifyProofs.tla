---------------------------- MODULE VerifyProofs ----------------------------
(***************************************************************************)
(* Theorems about Verify, for every number of devices, photos, shops and   *)
(* workers, every table of similarities, every set of readings and every   *)
(* length of the day.                                                      *)
(***************************************************************************)
EXTENDS Verify, FiniteOrders, SequenceTheorems

-----------------------------------------------------------------------------
(* The chain: what follows from the decision it makes of a reading.        *)

Severity == {"reject", "retry", "review"}
Failure  == [severity: Severity, code: Reasons]

\* The first of a set of positions is one of them, and so is the last.
LEMMA EndsOfPositions ==
    ASSUME NEW n \in Nat, NEW S \in SUBSET (1..n), S # {}
    PROVE  Min(S) \in S /\ Max(S) \in S
<1>1. S \in SUBSET Nat /\ IsFiniteSet(S)
  <2>1. IsFiniteSet(1..n) /\ 1..n \subseteq Nat
    BY FS_Interval
  <2> QED
    BY <2>1, FS_Subset
<1>2. PICK i \in S : \A j \in S : i <= j
  BY <1>1, FirstMember
<1>3. PICK k \in S : \A j \in S : j <= k
  BY <1>1, LastMember
<1>4. Min(S) \in S
  BY <1>2 DEF Min
<1>5. \A j \in S : k >= j
  BY <1>1, <1>3
<1>6. Max(S) \in S
  BY <1>5 DEF Max
<1> QED
  BY <1>4, <1>6

LEMMA WhenFails ==
    ASSUME NEW condition, NEW severity \in Severity, NEW code \in Reasons
    PROVE  /\ When(condition, severity, code) \in Seq(Failure)
           /\ When(condition, severity, code) = <<>> => ~condition
<1> DEFINE failure == [severity |-> severity, code |-> code]
<1>1. failure \in Failure
  BY DEF Failure
<1>2. CASE condition
  <2>1. When(condition, severity, code) = <<failure>>
    BY <1>2 DEF When
  <2> HIDE DEF failure
  <2>2. <<failure>> \in Seq(Failure) /\ Len(<<failure>>) = 1
    BY <1>1
  <2> DEFINE failures == When(condition, severity, code)
  <2>3. failures \in Seq(Failure) /\ Len(failures) = 1
    BY <2>1, <2>2
  <2> HIDE DEF failures
  <2>4. failures # <<>>
    BY <2>3, EmptySeq
  <2> QED
    BY <2>3, <2>4 DEF failures
<1>3. CASE ~condition
  <2>1. When(condition, severity, code) = <<>>
    BY <1>3 DEF When
  <2> QED
    BY <1>3, <2>1, EmptySeq
<1> QED
  BY <1>2, <1>3

\* No failure at all means that every verifier of the chain passed.
LEMMA ChainOfFailures ==
    ASSUME NEW reading, NEW ratio, NEW today
    PROVE  /\ Failures(reading, ratio, today) \in Seq(Failure)
           /\ Failures(reading, ratio, today) = <<>> =>
                 /\ reading.name # Null
                 /\ ~reading.low
                 /\ reading.date \in {Null, today}
                 /\ ~(ratio < StoreRejectBelow)
                 /\ ratio \notin StoreRejectBelow..(StorePassAt - 1)
<1> DEFINE required   == When(reading.name = Null, "retry", "MISSING_REQUIRED_FIELD")
           confidence == When(reading.low, "review", "LOW_CONFIDENCE")
           date       == When(reading.date \notin {Null, today}, "reject", "NOT_TODAY")
           noShop     == When(ratio < StoreRejectBelow, "reject", "SHOP_NOT_PARTICIPATING")
           doubtful   == When(ratio \in StoreRejectBelow..(StorePassAt - 1),
                              "review", "SHOP_MATCH_UNCERTAIN")
           store      == IF reading.name = Null THEN <<>> ELSE noShop \o doubtful
<1>1. /\ required \in Seq(Failure) /\ (required = <<>> => reading.name # Null)
      /\ confidence \in Seq(Failure) /\ (confidence = <<>> => ~reading.low)
      /\ date \in Seq(Failure) /\ (date = <<>> => reading.date \in {Null, today})
      /\ noShop \in Seq(Failure) /\ (noShop = <<>> => ~(ratio < StoreRejectBelow))
      /\ doubtful \in Seq(Failure)
      /\ doubtful = <<>> => ratio \notin StoreRejectBelow..(StorePassAt - 1)
  BY WhenFails DEF Severity, Reasons
<1>2. Failures(reading, ratio, today) = required \o confidence \o date \o store
  BY DEF Failures
<1> HIDE DEF required, confidence, date, noShop, doubtful
<1>3. /\ store \in Seq(Failure)
      /\ store = <<>> /\ reading.name # Null => noShop = <<>> /\ doubtful = <<>>
  BY <1>1, ConcatProperties, ConcatEqualIffEmpty, EmptySeq
<1> HIDE DEF store
<1>4. /\ required \o confidence \in Seq(Failure)
      /\ required \o confidence = <<>> => required = <<>> /\ confidence = <<>>
  BY <1>1, ConcatProperties, ConcatEqualIffEmpty
<1>5. /\ required \o confidence \o date \in Seq(Failure)
      /\ required \o confidence \o date = <<>> => required \o confidence = <<>> /\ date = <<>>
  BY <1>1, <1>4, ConcatProperties, ConcatEqualIffEmpty
<1>6. /\ Failures(reading, ratio, today) \in Seq(Failure)
      /\ Failures(reading, ratio, today) = <<>> =>
            required \o confidence \o date = <<>> /\ store = <<>>
  BY <1>2, <1>3, <1>5, ConcatProperties, ConcatEqualIffEmpty
<1> QED
  BY <1>1, <1>3, <1>4, <1>5, <1>6

\* The code given for a severity is the code of a failure.
LEMMA FirstCodeIsReason ==
    ASSUME NEW failures \in Seq(Failure), NEW severity \in Severities(failures)
    PROVE  FirstCode(failures, severity) \in Reasons
<1> DEFINE S == {i \in DOMAIN failures : failures[i].severity = severity}
<1>1. Len(failures) \in Nat /\ DOMAIN failures = 1..Len(failures)
  BY LenProperties
<1>2. S \in SUBSET (1..Len(failures)) /\ S # {}
  BY <1>1 DEF Severities
<1> HIDE DEF S
<1>3. Min(S) \in S
  BY <1>1, <1>2, EndsOfPositions
<1>4. failures[Min(S)] \in Failure
  BY <1>1, <1>2, <1>3, ElementOfSeq
<1>5. FirstCode(failures, severity) = failures[Min(S)].code
  BY DEF FirstCode, S
<1> QED
  BY <1>4, <1>5 DEF Failure

\* What the failures are folded into; an approval outside the audit queue
\* means there were none.
LEMMA AggregateOutcome ==
    ASSUME NEW failures \in Seq(Failure)
    PROVE  /\ Aggregate(failures).reason \in Reasons
           /\ Aggregate(failures).audit \in BOOLEAN
           /\ Aggregate(failures).decision = "approve" /\ ~Aggregate(failures).audit =>
                 failures = <<>>
<1>1. ASSUME Severities(failures) = {}
      PROVE  failures = <<>>
  <2>1. DOMAIN failures = {}
    BY <1>1 DEF Severities
  <2>2. Len(failures) \in Nat /\ DOMAIN failures = 1..Len(failures)
    BY LenProperties
  <2> QED
    BY <2>1, <2>2, EmptySeq
<1>2. Severities(failures) \subseteq Severity
  <2>1. \A i \in DOMAIN failures : failures[i] \in Failure
    BY LenProperties, ElementOfSeq
  <2> QED
    BY <2>1 DEF Severities, Failure
<1>3. \A severity \in Severities(failures) : FirstCode(failures, severity) \in Reasons
  BY FirstCodeIsReason
<1>4. CASE "reject" \in Severities(failures)
  BY <1>3, <1>4 DEF Aggregate
<1>5. CASE "reject" \notin Severities(failures) /\ "retry" \in Severities(failures)
  BY <1>3, <1>5 DEF Aggregate
<1>6. CASE "reject" \notin Severities(failures) /\ "retry" \notin Severities(failures)
           /\ "review" \in Severities(failures)
  BY <1>3, <1>6 DEF Aggregate
<1>7. CASE Severities(failures) = {}
  <2>1. Aggregate(failures) = [decision |-> "approve", reason |-> "NONE", audit |-> FALSE]
    BY <1>7 DEF Aggregate
  <2> QED
    BY <1>1, <1>7, <2>1 DEF Reasons
<1> QED
  BY <1>2, <1>4, <1>5, <1>6, <1>7 DEF Severity

\* A match is none, with a ratio of zero, or a shop with its ratio.
LEMMA BestMatchIsShop ==
    ASSUME NEW name \in Names, NEW on \in SUBSET Shops
    PROVE  LET match == BestMatch(name, on)
           IN \/ match.shop = Null /\ match.ratio = 0
              \/ match.shop \in Shops /\ match.ratio = Similarity[name][match.shop]
<1> DEFINE best == {i \in DOMAIN ShopOrder :
                      LET s == ShopOrder[i]
                      IN /\ s \in on
                         /\ Similarity[name][s] > 0
                         /\ \A t \in on : Similarity[name][t] <= Similarity[name][s]}
<1>1. BestMatch(name, on) =
        IF best = {} THEN [shop |-> Null, ratio |-> 0]
                     ELSE [shop |-> ShopOrder[Min(best)],
                           ratio |-> Similarity[name][ShopOrder[Min(best)]]]
  BY DEF BestMatch
<1>2. Len(ShopOrder) \in Nat /\ DOMAIN ShopOrder = 1..Len(ShopOrder)
  BY JudgeAssumption, LenProperties
<1>3. best \in SUBSET (1..Len(ShopOrder))
  BY <1>2
<1> HIDE DEF best
<1>4. best # {} => ShopOrder[Min(best)] \in Shops
  BY <1>2, <1>3, EndsOfPositions DEF Shops
<1> QED
  BY <1>1, <1>4

\* What the chain asks of a reading that it lets through without an audit.
Clean(reading, shop, day) ==
    /\ ~reading.low
    /\ reading.name \in Names
    /\ Similarity[reading.name][shop] >= StorePassAt
    /\ reading.date # Null => reading.date <= day

\* The chain as a whole.
LEMMA JudgedOutcome ==
    ASSUME NEW reading \in Readings, NEW on \in SUBSET Shops, NEW today \in Nat
    PROVE  LET o == Evaluate(reading, on, today)
           IN /\ o.reason \in Reasons
              /\ o.audit \in BOOLEAN
              /\ MatchedShop(reading, on) \in Shops \cup {Null}
              /\ o.decision = "approve" /\ ~o.audit =>
                    Clean(reading, MatchedShop(reading, on), today)
<1> DEFINE match == Match(reading, on)
           failures == Failures(reading, match.ratio, today)
<1>1. \/ match.shop = Null /\ match.ratio = 0
      \/ /\ reading.name \in Names /\ match.shop \in Shops
         /\ match.ratio = Similarity[reading.name][match.shop]
  <2>1. reading.name \in Names \cup {Null} /\ Null \notin Names
    BY VerifyAssumption, JudgeAssumption
  <2>2. CASE reading.name = Null
    BY <2>2 DEF Match
  <2>3. CASE reading.name \in Names
    <3>1. match = BestMatch(reading.name, on)
      BY <2>1, <2>3 DEF Match
    <3> HIDE DEF match
    <3> QED
      BY <2>3, <3>1, BestMatchIsShop
  <2> QED
    BY <2>1, <2>2, <2>3
<1>2. MatchedShop(reading, on) = IF match.ratio < StoreRejectBelow THEN Null ELSE match.shop
  BY DEF MatchedShop
<1>3. Evaluate(reading, on, today) = Aggregate(failures)
  BY DEF Evaluate
<1> HIDE DEF match
<1>4. match.ratio \in Nat
  <2>1. \A name \in Names, s \in Shops : Similarity[name][s] \in 0..100
    BY JudgeAssumption
  <2> QED
    BY <1>1, <2>1
<1>5. /\ failures \in Seq(Failure)
      /\ failures = <<>> =>
            /\ reading.name # Null /\ ~reading.low /\ reading.date \in {Null, today}
            /\ ~(match.ratio < StoreRejectBelow)
            /\ match.ratio \notin StoreRejectBelow..(StorePassAt - 1)
  BY ChainOfFailures
<1> HIDE DEF failures
<1>6. ASSUME failures = <<>>
      PROVE  Clean(reading, MatchedShop(reading, on), today)
  <2>1. match.ratio >= StorePassAt
    BY <1>4, <1>5, <1>6 DEF StoreRejectBelow, StorePassAt
  <2>2. MatchedShop(reading, on) = match.shop
    BY <1>2, <1>5, <1>6
  <2>3. match.ratio = Similarity[reading.name][match.shop] /\ reading.name \in Names
    BY <1>1, <2>1 DEF StorePassAt
  <2> QED
    BY <1>5, <1>6, <2>1, <2>2, <2>3 DEF Clean
<1>7. MatchedShop(reading, on) \in Shops \cup {Null}
  BY <1>1, <1>2
<1> QED
  BY <1>3, <1>5, <1>6, <1>7, AggregateOutcome

-----------------------------------------------------------------------------
(* The inductive invariant.                                                *)

\* A row that is approved has a token and waits in the audit queue, was let
\* through by an audit, or is clean.
RowOK(row) ==
    /\ row.status = "approved" => row.token \in Tokens
    /\ row.audit = "waiting" => row.status = "approved"
    /\ row.status = "approved" /\ row.audit = "no" =>
          Clean(row.reading, row.shop, row.day)

\* No token is given twice.
TableOK ==
    /\ \A i \in RowIds : RowOK(rows[i])
    /\ \A i, j \in RowIds : rows[i].token = rows[j].token /\ rows[i].token # Null => i = j

\* The requests that may still add a row have room for it.
Submitting == {w \in Workers : req[w].pc \notin {"idle", "latest", "reply"}}
RoomOK == Cardinality(Submitting) + Len(rows) <= MaxRows

\* The row a request is about to insert: an approval is audited or clean, and
\* not a second one of a receipt that was approved before the request looked.
PreparedOK(r) ==
    /\ r.code = "none"
    /\ r.row \in Row
    /\ r.row.token = Null
    /\ r.row.status = "rejected" => r.row.audit = "no"
    /\ r.row.status = "approved" =>
          /\ r.row.audit \in {"no", "waiting"}
          /\ r.row.audit = "no" => Clean(r.row.reading, r.row.shop, r.row.day)
          /\ \A i \in 1..r.seen :
                rows[i].status = "approved" =>
                   ~SameReceipt(rows[i], r.row.photo, r.row.reading.number)

RequestOK(r) ==
    /\ r.pc \in {"shop", "engine", "judge", "duplicate", "latest"} => r.dev \in Devices
    /\ r.pc \in {"judge", "duplicate"} => r.reading \in Readings
    /\ r.pc = "duplicate" /\ ~r.out.audit => Clean(r.reading, r.out.shop, Today)
    /\ r.pc = "shop" => r.seen = 0
    /\ r.pc = "insert" => PreparedOK(r)
    /\ r.seen <= Len(rows)
    /\ r.code = "ALREADY_VERIFIED_TODAY" =>
          \E i \in RowIds : rows[i].device = r.dev /\ rows[i].token # Null

VerifyInv ==
    /\ TypeOK
    /\ TableOK
    /\ RoomOK
    /\ \A w \in Workers : RequestOK(req[w])

-----------------------------------------------------------------------------
(* Facts about the clock, the requests and the room for rows.              *)

LEMMA DaysGoOn ==
    ASSUME NEW t \in Nat
    PROVE  KstDay(t) \in Nat /\ KstDay(t + 1) \in Nat /\ KstDay(t) <= KstDay(t + 1)
<1>1. \A n \in Nat : n \div DayLen \in Nat
  BY KstAssumption
<1>2. \A n \in Nat : n \div DayLen <= (n + 1) \div DayLen
  BY KstAssumption
<1>3. t + KstOffset \in Nat /\ t + 1 + KstOffset = t + KstOffset + 1
  BY KstAssumption
<1> QED
  BY <1>1, <1>2, <1>3 DEF KstDay

LEMMA TodayIsDay ==
    ASSUME now \in Nat
    PROVE  Today \in Nat /\ Today \in DaysBy(now)
BY DaysGoOn DEF Today, DaysBy

LEMMA EmptyRequest == NoReq \in Request /\ NoReq.pc = "idle" /\ NoReq.seen = 0
BY VerifyAssumption DEF NoReq, Request, Outcome, NoOutcome, Reasons, Codes

\* An answer keeps the device and the code.
LEMMA AnsweredRequest ==
    ASSUME TypeOK, NEW dev \in Devices, NEW code \in Codes,
           code = "ALREADY_VERIFIED_TODAY" =>
              \E i \in RowIds : rows[i].device = dev /\ rows[i].token # Null
    PROVE  LET q == [NoReq EXCEPT !.pc = "reply", !.dev = dev, !.code = code]
           IN q \in Request /\ RequestOK(q) /\ q.pc = "reply"
<1> DEFINE q == [NoReq EXCEPT !.pc = "reply", !.dev = dev, !.code = code]
<1>1. q \in Request
  BY EmptyRequest DEF Request
<1>2. q.pc = "reply" /\ q.dev = dev /\ q.code = code /\ q.seen = 0
  BY EmptyRequest DEF Request
<1> HIDE DEF q
<1>3. Len(rows) \in Nat
  BY DEF TypeOK
<1>4. q.code = "ALREADY_VERIFIED_TODAY" =>
         \E i \in RowIds : rows[i].device = q.dev /\ rows[i].token # Null
  BY <1>2
<1>5. q.seen <= Len(rows)
  BY <1>2, <1>3
<1>6. RequestOK(q)
  BY <1>2, <1>4, <1>5 DEF RequestOK
<1> QED
  BY <1>1, <1>2, <1>6 DEF q

\* A step of a request changes the number of submissions by one at most.
LEMMA SubmissionsAfter ==
    ASSUME TypeOK, NEW w \in Workers, NEW q \in Request, req' = [req EXCEPT ![w] = q]
    PROVE  /\ Cardinality(Submitting) \in Nat /\ Cardinality(Submitting') \in Nat
           /\ Cardinality(Submitting') <= Cardinality(Submitting) + 1
           /\ q.pc \in {"idle", "latest", "reply"} \/ w \in Submitting =>
                 Cardinality(Submitting') <= Cardinality(Submitting)
           /\ q.pc \in {"idle", "latest", "reply"} /\ w \in Submitting =>
                 Cardinality(Submitting') = Cardinality(Submitting) - 1
<1>1. IsFiniteSet(Submitting) /\ IsFiniteSet(Submitting')
  BY VerifyAssumption, FS_Subset DEF Submitting
<1>2. \A v \in Workers : req'[v] = IF v = w THEN q ELSE req[v]
  BY DEF TypeOK
<1>3. Submitting' = IF q.pc \in {"idle", "latest", "reply"} THEN Submitting \ {w}
                                                            ELSE Submitting \cup {w}
  BY <1>2 DEF Submitting
<1>4. /\ Cardinality(Submitting \cup {w}) =
            IF w \in Submitting THEN Cardinality(Submitting) ELSE Cardinality(Submitting) + 1
      /\ Cardinality(Submitting \ {w}) =
            IF w \in Submitting THEN Cardinality(Submitting) - 1 ELSE Cardinality(Submitting)
  BY <1>1, FS_AddElement, FS_RemoveElement
<1>5. Cardinality(Submitting) \in Nat /\ Cardinality(Submitting') \in Nat
  BY <1>1, FS_CardinalityType
<1> QED
  BY <1>3, <1>4, <1>5

-----------------------------------------------------------------------------
(* What a step leaves of the requests it does not make.                    *)

\* Time goes on and rows are added; a row that is there keeps its device, its
\* receipt and its token, and is not approved again.
Evolves ==
    /\ now' \in {now, now + 1}
    /\ rows' \in Seq(Row')
    /\ Len(rows) <= Len(rows')
    /\ \A i \in RowIds :
          /\ rows'[i].device = rows[i].device
          /\ rows'[i].photo = rows[i].photo
          /\ rows'[i].reading = rows[i].reading
          /\ rows'[i].token = rows[i].token
          /\ rows'[i].status = "approved" => rows[i].status = "approved"

LEMMA DaysStay ==
    ASSUME now \in Nat, now' \in {now, now + 1}
    PROVE  DaysBy(now) \subseteq DaysBy(now') /\ Row \subseteq Row' /\ Request \subseteq Request'
<1>1. DaysBy(now) \subseteq DaysBy(now')
  BY DEF DaysBy
<1>2. Row \subseteq Row'
  BY <1>1 DEF Row
<1> QED
  BY <1>1, <1>2 DEF Request

LEMMA RequestKept ==
    ASSUME TypeOK, Evolves, NEW q \in Request, RequestOK(q)
    PROVE  q \in Request' /\ RequestOK(q)'
<1>1. now \in Nat /\ now' \in {now, now + 1}
  BY DEF TypeOK, Evolves
<1>2. q \in Request'
  BY <1>1, DaysStay
<1>3. /\ Len(rows) \in Nat /\ Len(rows') \in Nat /\ Len(rows) <= Len(rows')
      /\ RowIds = 1..Len(rows) /\ RowIds' = 1..Len(rows')
  BY LenProperties DEF TypeOK, Evolves, RowIds
<1>4. Today \in Nat /\ Today' \in Nat /\ Today <= Today'
  BY <1>1, DaysGoOn DEF Today
<1>5. ASSUME q.pc = "duplicate", ~q.out.audit
      PROVE  Clean(q.reading, q.out.shop, Today')
  <2>1. Clean(q.reading, q.out.shop, Today) /\ q.reading \in Readings
    BY <1>5 DEF RequestOK
  <2>2. q.reading.date # Null => q.reading.date \in Nat
    BY <2>1, VerifyAssumption
  <2> QED
    BY <1>4, <2>1, <2>2 DEF Clean
<1>6. ASSUME q.pc = "insert"
      PROVE  PreparedOK(q)'
  <2>1. PreparedOK(q)
    BY <1>6 DEF RequestOK
  <2>2. q.row \in Row'
    BY <1>1, <2>1, DaysStay DEF PreparedOK
  <2>3. q.seen <= Len(rows) /\ q.seen \in Nat
    BY DEF RequestOK, Request
  <2>4. ASSUME q.row.status = "approved", NEW i \in 1..q.seen, rows'[i].status = "approved"
        PROVE  ~SameReceipt(rows'[i], q.row.photo, q.row.reading.number)
    <3>1. i \in RowIds
      BY <1>3, <2>3
    <3>2. ~SameReceipt(rows[i], q.row.photo, q.row.reading.number)
      BY <2>1, <2>4, <3>1 DEF PreparedOK, Evolves
    <3> QED
      BY <3>1, <3>2 DEF SameReceipt, Evolves
  <2> QED
    BY <2>1, <2>2, <2>4 DEF PreparedOK
<1>7. ASSUME q.code = "ALREADY_VERIFIED_TODAY"
      PROVE  \E i \in RowIds' : rows'[i].device = q.dev /\ rows'[i].token # Null
  <2>1. PICK i \in RowIds : rows[i].device = q.dev /\ rows[i].token # Null
    BY <1>7 DEF RequestOK
  <2> QED
    BY <1>3, <2>1 DEF Evolves
<1>8. q.seen <= Len(rows')
  BY <1>3 DEF RequestOK, Request
<1> QED
  BY <1>2, <1>5, <1>6, <1>7, <1>8 DEF RequestOK

-----------------------------------------------------------------------------
(* The steps of requests that leave the table alone.                       *)

LEMMA RequestStep ==
    ASSUME VerifyInv, NEW w \in Workers, NEW q \in Request, RequestOK(q),
           q.pc \in {"idle", "latest", "reply"} \/ w \in Submitting \/ RowsLeft,
           req' = [req EXCEPT ![w] = q], Quiet
    PROVE  VerifyInv'
<1>1. TypeOK /\ TableOK /\ RoomOK /\ \A v \in Workers : RequestOK(req[v])
  BY DEF VerifyInv
<1>2. now' = now /\ rows' = rows /\ active' = active
  BY DEF Quiet
<1>3. Evolves /\ Row' = Row /\ Request' = Request
  BY <1>1, <1>2 DEF Evolves, TypeOK, Row, Request, DaysBy
<1>4. TypeOK'
  BY <1>1, <1>2, <1>3 DEF TypeOK
<1>5. TableOK'
  BY <1>1, <1>2 DEF TableOK, RowIds
<1>6. Len(rows) \in Nat /\ Cardinality(Submitting) \in Nat /\ Cardinality(Submitting') \in Nat
  <2>1. Len(rows) \in Nat
    BY <1>1 DEF TypeOK
  <2>2. Cardinality(Submitting) \in Nat /\ Cardinality(Submitting') \in Nat
    BY <1>1, SubmissionsAfter
  <2> QED
    BY <2>1, <2>2
<1>7. RowsLeft => Cardinality(Submitting) + Len(rows) < MaxRows
  BY DEF RowsLeft, Submitting
<1>8. RoomOK'
  <2>1. CASE q.pc \in {"idle", "latest", "reply"} \/ w \in Submitting
    <3>1. Cardinality(Submitting') <= Cardinality(Submitting)
      BY <1>1, <2>1, SubmissionsAfter
    <3> QED
      BY <1>1, <1>2, <1>6, <3>1, VerifyAssumption DEF RoomOK
  <2>2. CASE RowsLeft
    <3>1. Cardinality(Submitting') <= Cardinality(Submitting) + 1
      BY <1>1, SubmissionsAfter
    <3> QED
      BY <1>2, <1>6, <1>7, <2>2, <3>1, VerifyAssumption DEF RoomOK
  <2> QED
    BY <2>1, <2>2
<1>9. ASSUME NEW v \in Workers
      PROVE  RequestOK(req[v])'
  <2>1. req'[v] \in Request /\ RequestOK(req'[v])
    BY <1>1 DEF TypeOK
  <2> QED
    BY <1>1, <1>3, <2>1, RequestKept
<1> QED
  BY <1>4, <1>5, <1>8, <1>9 DEF VerifyInv

LEMMA AnswerStep ==
    ASSUME VerifyInv, NEW w \in Workers, NEW dev \in Devices, NEW code \in Codes,
           code = "ALREADY_VERIFIED_TODAY" => DayTaken(dev, Today),
           Answer(w, dev, code), Quiet
    PROVE  VerifyInv'
<1> DEFINE q == [NoReq EXCEPT !.pc = "reply", !.dev = dev, !.code = code]
<1>1. TypeOK /\ TableOK
  BY DEF VerifyInv
<1>2. ASSUME DayTaken(dev, Today)
      PROVE  \E i \in RowIds : rows[i].device = dev /\ rows[i].token # Null
  <2>1. PICK i \in RowIds : rows[i].status = "approved" /\ rows[i].device = dev
    BY <1>2 DEF DayTaken, ApprovedOn
  <2> QED
    BY <1>1, <2>1, VerifyAssumption DEF TableOK, RowOK
<1>3. q \in Request /\ RequestOK(q) /\ q.pc = "reply"
  BY <1>1, <1>2, AnsweredRequest
<1>4. req' = [req EXCEPT ![w] = q]
  BY DEF Answer
<1> HIDE DEF q
<1> QED
  BY <1>3, <1>4, RequestStep

\* What a request prepares, once its row is as it should be.
LEMMA PreparedRequest ==
    ASSUME VerifyInv, NEW w \in Workers, w \in Submitting,
           NEW q \in Request, RequestOK(q), q.dev \in Devices, NEW row \in Row,
           row.token = Null, row.status = "rejected" => row.audit = "no",
           row.status = "approved" =>
              /\ row.audit \in {"no", "waiting"}
              /\ row.audit = "no" => Clean(row.reading, row.shop, row.day)
              /\ \A i \in 1..q.seen :
                    rows[i].status = "approved" =>
                       ~SameReceipt(rows[i], row.photo, row.reading.number),
           Prepare(w, q, row), Quiet
    PROVE  VerifyInv'
<1> DEFINE p == [NoReq EXCEPT !.pc = "insert", !.dev = q.dev, !.row = row, !.seen = q.seen]
<1>1. p \in Request
  BY EmptyRequest DEF Request
<1>2. p.pc = "insert" /\ p.dev = q.dev /\ p.row = row /\ p.seen = q.seen /\ p.code = "none"
  BY EmptyRequest DEF Request, NoReq
<1>3. req' = [req EXCEPT ![w] = p]
  BY DEF Prepare
<1> HIDE DEF p
<1>4. PreparedOK(p)
  BY <1>2 DEF PreparedOK
<1>5. q.seen <= Len(rows)
  BY DEF RequestOK
<1>6. RequestOK(p)
  BY <1>2, <1>4, <1>5 DEF RequestOK
<1> QED
  BY <1>1, <1>3, <1>6, RequestStep

LEMMA FailureStep ==
    ASSUME VerifyInv, NEW w \in Workers, w \in Submitting,
           NEW q \in Request, RequestOK(q), q.dev \in Devices,
           NEW reason \in Reasons, NEW shop \in Shops \cup {Null},
           PrepareFailure(w, q, reason, shop), Quiet
    PROVE  VerifyInv'
<1> DEFINE row == [device |-> q.dev, photo |-> q.photo, shop |-> shop,
                   status |-> "rejected", audit |-> "no", reason |-> reason,
                   reading |-> q.reading, token |-> Null, day |-> Today]
<1>1. row \in Row
  <2>1. Today \in DaysBy(now)
    BY TodayIsDay DEF VerifyInv, TypeOK
  <2> QED
    BY <2>1 DEF Row, Request
<1>2. row.token = Null /\ row.status = "rejected" /\ row.audit = "no"
  OBVIOUS
<1>3. Prepare(w, q, row)
  BY DEF PrepareFailure
<1> HIDE DEF row
<1> QED
  BY <1>1, <1>2, <1>3, PreparedRequest

LEMMA ApprovalStep ==
    ASSUME VerifyInv, NEW w \in Workers, w \in Submitting,
           NEW q \in Request, RequestOK(q), q.dev \in Devices,
           NEW reason \in Reasons, NEW shop \in Shops \cup {Null}, NEW flagged \in BOOLEAN,
           ~flagged => Clean(q.reading, shop, Today),
           \A i \in 1..q.seen : rows[i].status = "approved" =>
              ~SameReceipt(rows[i], q.photo, q.reading.number),
           PrepareApproval(w, q, reason, shop, flagged), Quiet
    PROVE  VerifyInv'
<1> DEFINE row == [device |-> q.dev, photo |-> q.photo, shop |-> shop,
                   status |-> "approved", audit |-> IF flagged THEN "waiting" ELSE "no",
                   reason |-> reason, reading |-> q.reading, token |-> Null,
                   day |-> Today]
<1>1. row \in Row
  <2>1. Today \in DaysBy(now)
    BY TodayIsDay DEF VerifyInv, TypeOK
  <2> QED
    BY <2>1 DEF Row, Request
<1>2. /\ row.token = Null /\ row.status = "approved" /\ row.audit \in {"no", "waiting"}
      /\ row.audit = "no" => ~flagged
      /\ row.photo = q.photo /\ row.shop = shop /\ row.reading = q.reading /\ row.day = Today
  OBVIOUS
<1>3. Prepare(w, q, row)
  BY DEF PrepareApproval
<1> HIDE DEF row
<1> QED
  BY <1>1, <1>2, <1>3, PreparedRequest

\* POST /api/verify up to the choice of the path.
LEMMA BeginVerifyKeepsInv ==
    ASSUME VerifyInv, NEW w \in Workers, NEW dev \in Devices,
           NEW photo \in Photos \cup {Null}, NEW shop \in Shops \cup {Null},
           BeginVerify(w, dev, photo, shop)
    PROVE  VerifyInv'
<1>1. RowsLeft /\ Quiet
  BY DEF BeginVerify
<1>2. CASE DayTaken(dev, Today) /\ Answer(w, dev, "ALREADY_VERIFIED_TODAY")
  BY <1>1, <1>2, AnswerStep DEF Codes
<1>3. CASE Answer(w, dev, "INVALID_REQUEST")
  BY <1>1, <1>3, AnswerStep DEF Codes
<1>4. CASE Answer(w, dev, "INVALID_IMAGE")
  BY <1>1, <1>4, AnswerStep DEF Codes
<1>5. Len(rows) \in Nat
  BY DEF VerifyInv, TypeOK
<1>6. CASE shop # Null /\ Goto(w, [NoReq EXCEPT !.dev = dev, !.shop = shop], "shop")
  <2> DEFINE q == [[NoReq EXCEPT !.dev = dev, !.shop = shop] EXCEPT !.pc = "shop"]
  <2>1. q \in Request
    BY EmptyRequest DEF Request
  <2>2. q.pc = "shop" /\ q.dev = dev /\ q.seen = 0 /\ q.code = "none"
    BY EmptyRequest DEF Request, NoReq
  <2>3. req' = [req EXCEPT ![w] = q]
    BY <1>6 DEF Goto
  <2> HIDE DEF q
  <2>4. RequestOK(q)
    BY <1>5, <2>2 DEF RequestOK
  <2> QED
    BY <1>1, <2>1, <2>3, <2>4, RequestStep
<1>7. CASE photo \in ValidPhotos /\ Goto(w, [NoReq EXCEPT !.dev = dev, !.photo = photo], "engine")
  <2> DEFINE q == [[NoReq EXCEPT !.dev = dev, !.photo = photo] EXCEPT !.pc = "engine"]
  <2>1. q \in Request
    BY EmptyRequest DEF Request
  <2>2. q.pc = "engine" /\ q.dev = dev /\ q.seen = 0 /\ q.code = "none"
    BY EmptyRequest DEF Request, NoReq
  <2>3. req' = [req EXCEPT ![w] = q]
    BY <1>7 DEF Goto
  <2> HIDE DEF q
  <2>4. RequestOK(q)
    BY <1>5, <2>2 DEF RequestOK
  <2> QED
    BY <1>1, <2>1, <2>3, <2>4, RequestStep
<1> QED
  BY <1>2, <1>3, <1>4, <1>6, <1>7 DEF BeginVerify

\* What an invariant state says of the request a step continues.
LEMMA RequestOfWorker ==
    ASSUME VerifyInv, NEW w \in Workers
    PROVE  /\ req[w] \in Request /\ RequestOK(req[w])
           /\ req[w].pc \in {"shop", "engine", "judge", "duplicate", "insert"} => w \in Submitting
           /\ now \in Nat /\ Len(rows) \in Nat /\ active \in SUBSET Shops
BY DEF VerifyInv, TypeOK, Submitting

LEMMA ChooseShopKeepsInv ==
    ASSUME VerifyInv, NEW w \in Workers, ChooseShop(w)
    PROVE  VerifyInv'
<1>1. /\ req[w] \in Request /\ RequestOK(req[w]) /\ w \in Submitting /\ active \in SUBSET Shops
      /\ req[w].pc = "shop" /\ Quiet
  BY RequestOfWorker DEF ChooseShop
<1>2. req[w].dev \in Devices /\ req[w].seen = 0
  BY <1>1 DEF RequestOK
<1>3. CASE req[w].shop \in active
  <2>1. PrepareApproval(w, req[w], "MANUAL_SHOP_SELECTED", req[w].shop, TRUE)
    BY <1>3 DEF ChooseShop
  <2>2. req[w].shop \in Shops \cup {Null} /\ "MANUAL_SHOP_SELECTED" \in Reasons
    BY <1>1, <1>3 DEF Reasons
  <2>3. \A i \in 1..req[w].seen : rows[i].status = "approved" =>
           ~SameReceipt(rows[i], req[w].photo, req[w].reading.number)
    BY <1>2
  <2> QED
    BY <1>1, <1>2, <2>1, <2>2, <2>3, ApprovalStep
<1>4. CASE req[w].shop \notin active
  <2>1. Answer(w, req[w].dev, "INVALID_REQUEST")
    BY <1>4 DEF ChooseShop
  <2> QED
    BY <1>1, <1>2, <2>1, AnswerStep DEF Codes
<1> QED
  BY <1>3, <1>4

LEMMA EngineAnswersKeepsInv ==
    ASSUME VerifyInv, NEW w \in Workers, EngineAnswers(w)
    PROVE  VerifyInv'
<1>1. /\ req[w] \in Request /\ RequestOK(req[w]) /\ w \in Submitting
      /\ req[w].pc = "engine" /\ Quiet
  BY RequestOfWorker DEF EngineAnswers
<1>2. req[w].dev \in Devices
  BY <1>1 DEF RequestOK
<1>3. ASSUME NEW reading \in Readings, Goto(w, [req[w] EXCEPT !.reading = reading], "judge")
      PROVE  VerifyInv'
  <2> DEFINE q == [[req[w] EXCEPT !.reading = reading] EXCEPT !.pc = "judge"]
  <2>1. ASSUME NEW r \in Request
        PROVE  LET p == [[r EXCEPT !.reading = reading] EXCEPT !.pc = "judge"]
               IN /\ p \in Request
                  /\ p.pc = "judge" /\ p.dev = r.dev /\ p.reading = reading
                  /\ p.seen = r.seen /\ p.code = r.code
    BY DEF Request
  <2>2. /\ q \in Request
        /\ q.pc = "judge" /\ q.dev = req[w].dev /\ q.reading = reading
        /\ q.seen = req[w].seen /\ q.code = req[w].code
    BY <1>1, <2>1
  <2>3. req' = [req EXCEPT ![w] = q]
    BY <1>3 DEF Goto
  <2> HIDE DEF q
  <2>4. RequestOK(q)
    BY <1>1, <1>2, <2>2 DEF RequestOK
  <2> QED
    BY <1>1, <2>2, <2>3, <2>4, RequestStep
<1>4. CASE PrepareFailure(w, req[w], "NOT_RECEIPT", Null)
  BY <1>1, <1>2, <1>4, FailureStep DEF Reasons
<1>5. CASE Answer(w, req[w].dev, "OCR_UNAVAILABLE")
  BY <1>1, <1>2, <1>5, AnswerStep DEF Codes
<1> QED
  BY <1>3, <1>4, <1>5 DEF EngineAnswers

LEMMA JudgeReadingKeepsInv ==
    ASSUME VerifyInv, NEW w \in Workers, JudgeReading(w)
    PROVE  VerifyInv'
<1> DEFINE o    == Evaluate(req[w].reading, active, Today)
           shop == MatchedShop(req[w].reading, active)
           out  == [shop |-> shop, reason |-> o.reason, audit |-> o.audit]
<1>1. /\ req[w] \in Request /\ RequestOK(req[w]) /\ w \in Submitting
      /\ active \in SUBSET Shops /\ now \in Nat /\ req[w].pc = "judge" /\ Quiet
  BY RequestOfWorker DEF JudgeReading
<1>2. req[w].dev \in Devices /\ req[w].reading \in Readings
  BY <1>1 DEF RequestOK
<1>3. /\ o.reason \in Reasons /\ o.audit \in BOOLEAN /\ shop \in Shops \cup {Null}
      /\ o.decision = "approve" /\ ~o.audit => Clean(req[w].reading, shop, Today)
  BY <1>1, <1>2, TodayIsDay, JudgedOutcome
<1>4. \/ o.decision = "approve" /\ Goto(w, [req[w] EXCEPT !.out = out], "duplicate")
      \/ PrepareFailure(w, req[w], o.reason, shop)
  BY DEF JudgeReading
<1>5. out \in Outcome /\ out.shop = shop /\ out.audit = o.audit
  BY <1>3 DEF Outcome
<1> HIDE DEF o, shop, out
<1>6. CASE o.decision = "approve" /\ Goto(w, [req[w] EXCEPT !.out = out], "duplicate")
  <2> DEFINE q == [[req[w] EXCEPT !.out = out] EXCEPT !.pc = "duplicate"]
  <2>1. ASSUME NEW r \in Request
        PROVE  LET p == [[r EXCEPT !.out = out] EXCEPT !.pc = "duplicate"]
               IN /\ p \in Request
                  /\ p.pc = "duplicate" /\ p.dev = r.dev /\ p.reading = r.reading /\ p.out = out
                  /\ p.seen = r.seen /\ p.code = r.code
    BY <1>5 DEF Request
  <2>2. /\ q \in Request
        /\ q.pc = "duplicate" /\ q.dev = req[w].dev /\ q.reading = req[w].reading /\ q.out = out
        /\ q.seen = req[w].seen /\ q.code = req[w].code
    BY <1>1, <2>1
  <2>3. req' = [req EXCEPT ![w] = q]
    BY <1>6 DEF Goto
  <2> HIDE DEF q
  <2>4. RequestOK(q)
    BY <1>1, <1>2, <1>3, <1>5, <1>6, <2>2 DEF RequestOK
  <2> QED
    BY <1>1, <2>2, <2>3, <2>4, RequestStep
<1>7. CASE PrepareFailure(w, req[w], o.reason, shop)
  BY <1>1, <1>2, <1>3, <1>7, FailureStep
<1> QED
  BY <1>4, <1>6, <1>7

LEMMA CheckDuplicateKeepsInv ==
    ASSUME VerifyInv, NEW w \in Workers, CheckDuplicate(w)
    PROVE  VerifyInv'
<1> DEFINE q == [req[w] EXCEPT !.seen = Len(rows)]
<1>1. /\ req[w] \in Request /\ RequestOK(req[w]) /\ w \in Submitting
      /\ Len(rows) \in Nat /\ req[w].pc = "duplicate" /\ Quiet
  BY RequestOfWorker DEF CheckDuplicate
<1>2. Len(rows) \in 0..MaxRows /\ RowIds = 1..Len(rows)
  BY <1>1, VerifyAssumption DEF VerifyInv, TypeOK, RowIds
<1>3. ASSUME NEW r \in Request
      PROVE  LET p == [r EXCEPT !.seen = Len(rows)]
             IN /\ p \in Request
                /\ p.pc = r.pc /\ p.dev = r.dev /\ p.photo = r.photo /\ p.reading = r.reading
                /\ p.out = r.out /\ p.code = r.code /\ p.seen = Len(rows)
  BY <1>2 DEF Request
<1>4. /\ q \in Request
      /\ q.pc = "duplicate" /\ q.dev = req[w].dev /\ q.photo = req[w].photo
      /\ q.reading = req[w].reading /\ q.out = req[w].out /\ q.code = req[w].code
      /\ q.seen = Len(rows)
  BY <1>1, <1>3
<1>5. IF Duplicates(q.photo, q.reading.number) # {}
      THEN PrepareFailure(w, q, "DUPLICATE_RECEIPT", q.out.shop)
      ELSE PrepareApproval(w, q, q.out.reason, q.out.shop, q.out.audit)
  BY DEF CheckDuplicate
<1> HIDE DEF q
<1>6. RequestOK(q) /\ q.dev \in Devices
  BY <1>1, <1>4 DEF RequestOK
<1>7. q.out.shop \in Shops \cup {Null} /\ q.out.reason \in Reasons /\ q.out.audit \in BOOLEAN
  BY <1>4 DEF Request, Outcome
<1>8. CASE Duplicates(q.photo, q.reading.number) # {}
  BY <1>1, <1>4, <1>5, <1>6, <1>7, <1>8, FailureStep DEF Reasons
<1>9. CASE Duplicates(q.photo, q.reading.number) = {}
  <2>1. \A i \in 1..q.seen : rows[i].status = "approved" =>
           ~SameReceipt(rows[i], q.photo, q.reading.number)
    BY <1>2, <1>4, <1>9 DEF Duplicates
  <2>2. ~q.out.audit => Clean(q.reading, q.out.shop, Today)
    BY <1>4, <1>6 DEF RequestOK
  <2>3. PrepareApproval(w, q, q.out.reason, q.out.shop, q.out.audit)
    BY <1>5, <1>9
  <2> QED
    BY <1>1, <1>4, <1>6, <1>7, <2>1, <2>2, <2>3, ApprovalStep
<1> QED
  BY <1>8, <1>9

\* GET /api/verify/status, the answer's arrival and a request that is lost.
LEMMA BeginStatusKeepsInv ==
    ASSUME VerifyInv, NEW w \in Workers, NEW dev \in Devices, BeginStatus(w, dev)
    PROVE  VerifyInv'
<1>1. Quiet /\ Len(rows) \in Nat
  BY RequestOfWorker DEF BeginStatus
<1>2. CASE Answer(w, dev, "approved")
  BY <1>1, <1>2, AnswerStep DEF Codes
<1>3. CASE Goto(w, [NoReq EXCEPT !.dev = dev], "latest")
  <2> DEFINE q == [[NoReq EXCEPT !.dev = dev] EXCEPT !.pc = "latest"]
  <2>1. q \in Request
    BY EmptyRequest DEF Request
  <2>2. q.pc = "latest" /\ q.dev = dev /\ q.seen = 0 /\ q.code = "none"
    BY EmptyRequest DEF Request, NoReq
  <2>3. req' = [req EXCEPT ![w] = q]
    BY <1>3 DEF Goto
  <2> HIDE DEF q
  <2>4. RequestOK(q)
    BY <1>1, <2>2 DEF RequestOK
  <2> QED
    BY <1>1, <2>1, <2>2, <2>3, <2>4, RequestStep
<1> QED
  BY <1>2, <1>3 DEF BeginStatus

LEMMA ReadLatestKeepsInv ==
    ASSUME VerifyInv, NEW w \in Workers, ReadLatest(w)
    PROVE  VerifyInv'
<1> DEFINE mine == {i \in RowIds : rows[i].device = req[w].dev /\ rows[i].day = Today}
<1>1. /\ req[w] \in Request /\ RequestOK(req[w]) /\ Len(rows) \in Nat
      /\ req[w].pc = "latest" /\ Quiet
  BY RequestOfWorker DEF ReadLatest
<1>2. req[w].dev \in Devices
  BY <1>1 DEF RequestOK
<1>3. CASE Answer(w, req[w].dev, "none")
  BY <1>1, <1>2, <1>3, AnswerStep DEF Codes
<1>4. ASSUME NEW i \in mine,
             req' = [req EXCEPT ![w].pc = "reply", ![w].row = rows[i],
                                ![w].code = "rejected"]
      PROVE  VerifyInv'
  <2> DEFINE row == rows[i]
             q   == [req[w] EXCEPT !.pc = "reply", !.row = row, !.code = "rejected"]
  <2>1. row \in Row
    <3>1. RowIds = 1..Len(rows) /\ mine \in SUBSET (1..Len(rows))
      BY LenProperties DEF VerifyInv, TypeOK, RowIds
    <3> HIDE DEF mine
    <3>2. i \in 1..Len(rows)
      BY <3>1
    <3> QED
      BY <1>1, <3>2, ElementOfSeq DEF VerifyInv, TypeOK
  <2>2. req' = [req EXCEPT ![w] = q]
    BY <1>4 DEF VerifyInv, TypeOK
  <2> HIDE DEF row
  <2>3. ASSUME NEW r \in Request
        PROVE  LET p == [r EXCEPT !.pc = "reply", !.row = row, !.code = "rejected"]
               IN p \in Request /\ p.pc = "reply" /\ p.code = "rejected" /\ p.seen = r.seen
    BY <2>1 DEF Request, Codes
  <2>4. q \in Request /\ q.pc = "reply" /\ q.code = "rejected" /\ q.seen = req[w].seen
    BY <1>1, <2>3
  <2> HIDE DEF q
  <2>5. RequestOK(q)
    BY <1>1, <2>4 DEF RequestOK
  <2> QED
    BY <1>1, <2>2, <2>4, <2>5, RequestStep
<1> QED
  BY <1>3, <1>4 DEF ReadLatest

LEMMA RequestGone ==
    ASSUME VerifyInv, NEW w \in Workers, Deliver(w) \/ Abort(w)
    PROVE  VerifyInv'
<1>1. NoReq \in Request /\ NoReq.pc = "idle" /\ NoReq.seen = 0 /\ NoReq.code = "none"
  BY EmptyRequest DEF NoReq
<1>2. Len(rows) \in Nat /\ Quiet /\ req' = [req EXCEPT ![w] = NoReq]
  BY RequestOfWorker DEF Deliver, Abort
<1>3. RequestOK(NoReq)
  BY <1>1, <1>2 DEF RequestOK
<1> QED
  BY <1>1, <1>2, <1>3, RequestStep

-----------------------------------------------------------------------------
(* The steps that change the table, and the clock.                         *)

\* The rows of a table, in terms of what the invariant says.
LEMMA TableFacts ==
    ASSUME VerifyInv
    PROVE  /\ rows \in Seq(Row) /\ Len(rows) \in Nat /\ RowIds = 1..Len(rows)
           /\ \A i \in RowIds : rows[i] \in Row /\ RowOK(rows[i])
           /\ now \in Nat
<1>1. rows \in Seq(Row) /\ now \in Nat
  BY DEF VerifyInv, TypeOK
<1>2. Len(rows) \in Nat /\ RowIds = 1..Len(rows)
  BY <1>1, LenProperties DEF RowIds
<1>3. \A i \in RowIds : rows[i] \in Row
  BY <1>1, <1>2, ElementOfSeq
<1> QED
  BY <1>1, <1>2, <1>3 DEF VerifyInv, TableOK

LEMMA InsertRowKeepsInv ==
    ASSUME VerifyInv, NEW w \in Workers, InsertRow(w)
    PROVE  VerifyInv'
<1> DEFINE old == req[w].row
<1>1. /\ req[w] \in Request /\ RequestOK(req[w]) /\ w \in Submitting
      /\ req[w].pc = "insert" /\ now' = now /\ active' = active
  BY RequestOfWorker DEF InsertRow
<1>2. PreparedOK(req[w])
  BY <1>1 DEF RequestOK
<1>3. /\ old \in Row /\ old.token = Null /\ old.device \in Devices
      /\ old.status = "rejected" => old.audit = "no"
      /\ old.status = "approved" /\ old.audit = "no" =>
            Clean(old.reading, old.shop, old.day)
  BY <1>2 DEF PreparedOK, Row
<1>4. CASE DayTaken(old.device, old.day) /\ rows' = rows
           /\ Answer(w, old.device, "ALREADY_VERIFIED_TODAY")
  <2> DEFINE q == [NoReq EXCEPT !.pc = "reply", !.dev = old.device,
                                !.code = "ALREADY_VERIFIED_TODAY"]
  <2>1. PICK i \in RowIds : rows[i].status = "approved" /\ rows[i].device = old.device
    BY <1>4 DEF DayTaken, ApprovedOn
  <2>2. \E j \in RowIds : rows[j].device = old.device /\ rows[j].token # Null
    BY <2>1, VerifyAssumption DEF VerifyInv, TableOK, RowOK
  <2>3. q \in Request /\ RequestOK(q) /\ q.pc = "reply"
    BY <1>3, <2>2, AnsweredRequest DEF VerifyInv, Codes
  <2>4. req' = [req EXCEPT ![w] = q]
    BY <1>4 DEF Answer
  <2> HIDE DEF q
  <2> QED
    BY <1>1, <1>4, <2>3, <2>4, RequestStep DEF Quiet
<1>5. ASSUME NEW row \in Row, NEW code \in {"approved", "rejected"},
             rows' = Append(rows, row), RowOK(row), Answer(w, old.device, code),
             \A i \in RowIds : row.token # Null => rows[i].token # row.token
      PROVE  VerifyInv'
  <2> DEFINE q == [NoReq EXCEPT !.pc = "reply", !.dev = old.device, !.code = code]
  <2>1. /\ rows \in Seq(Row) /\ Len(rows) \in Nat /\ RowIds = 1..Len(rows)
        /\ \A i \in RowIds : rows[i] \in Row /\ RowOK(rows[i])
    BY TableFacts
  <2>2. /\ rows' \in Seq(Row) /\ Len(rows') = Len(rows) + 1 /\ RowIds' = 1..(Len(rows) + 1)
        /\ \A i \in 1..Len(rows) : rows'[i] = rows[i]
        /\ rows'[Len(rows) + 1] = row
    BY <1>5, <2>1 DEF RowIds
  <2>3. Row' = Row /\ Request' = Request
    BY <1>1 DEF Row, Request, DaysBy
  <2>4. Evolves
    BY <1>1, <2>1, <2>2, <2>3 DEF Evolves
  <2>5. q \in Request /\ RequestOK(q) /\ q.pc = "reply"
    BY <1>3, <1>5, AnsweredRequest DEF VerifyInv, Codes
  <2>6. req' = [req EXCEPT ![w] = q]
    BY <1>5 DEF Answer
  <2> HIDE DEF q
  <2>7. RoomOK'
    <3>1. /\ Cardinality(Submitting) \in Nat
          /\ Cardinality(Submitting') = Cardinality(Submitting) - 1
      BY <1>1, <2>5, <2>6, SubmissionsAfter DEF VerifyInv
    <3> QED
      BY <2>1, <2>2, <3>1, VerifyAssumption DEF VerifyInv, RoomOK
  <2>8. TypeOK'
    <3>1. Cardinality(Submitting') \in Nat
      BY <2>5, <2>6, SubmissionsAfter DEF VerifyInv
    <3>2. Len(rows') <= MaxRows
      BY <2>1, <2>2, <2>7, <3>1, VerifyAssumption DEF RoomOK
    <3>3. req' \in [Workers -> Request]
      BY <2>5, <2>6 DEF VerifyInv, TypeOK
    <3> QED
      BY <1>1, <2>2, <2>3, <3>2, <3>3 DEF VerifyInv, TypeOK
  <2>9. TableOK'
    <3>1. ASSUME NEW i \in RowIds'
          PROVE  RowOK(rows'[i])
      BY <1>5, <2>1, <2>2
    <3>2. ASSUME NEW i \in RowIds', NEW j \in RowIds',
                 rows'[i].token = rows'[j].token, rows'[i].token # Null
          PROVE  i = j
      <4>1. \A k \in RowIds' : k \in RowIds \/ k = Len(rows) + 1
        BY <2>1, <2>2
      <4>2. CASE i \in RowIds /\ j \in RowIds
        BY <2>1, <2>2, <3>2, <4>2 DEF VerifyInv, TableOK
      <4>3. CASE i = Len(rows) + 1 \/ j = Len(rows) + 1
        BY <1>5, <2>1, <2>2, <3>2, <4>1, <4>3
      <4> QED
        BY <4>1, <4>2, <4>3
    <3> QED
      BY <3>1, <3>2 DEF TableOK, RowOK, Clean
  <2>10. ASSUME NEW v \in Workers
         PROVE  RequestOK(req[v])'
    <3>1. req'[v] \in Request /\ RequestOK(req'[v])
      BY <2>5, <2>6 DEF VerifyInv, TypeOK
    <3> QED
      BY <2>4, <3>1, RequestKept DEF VerifyInv
  <2> QED
    BY <2>7, <2>8, <2>9, <2>10 DEF VerifyInv
<1>6. CASE old.status = "rejected" /\ rows' = Append(rows, old)
           /\ Answer(w, old.device, "rejected")
  <2>1. RowOK(old)
    BY <1>3, <1>6 DEF RowOK
  <2> QED
    BY <1>3, <1>5, <1>6, <2>1
<1>7. ASSUME NEW tok \in UnusedTokens, old.status = "approved",
             rows' = Append(rows, [old EXCEPT !.token = tok]),
             Answer(w, old.device, "approved")
      PROVE  VerifyInv'
  <2> DEFINE row == [old EXCEPT !.token = tok]
  <2>1. tok \in Tokens /\ \A i \in RowIds : rows[i].token # tok
    BY DEF UnusedTokens
  <2>2. ASSUME NEW r \in Row
        PROVE  LET p == [r EXCEPT !.token = tok]
               IN /\ p \in Row /\ p.token = tok /\ p.status = r.status /\ p.audit = r.audit
                  /\ p.reading = r.reading /\ p.shop = r.shop /\ p.day = r.day
    BY <2>1 DEF Row
  <2>3. /\ row \in Row /\ row.token = tok /\ row.status = "approved" /\ row.audit = old.audit
        /\ row.reading = old.reading /\ row.shop = old.shop /\ row.day = old.day
    BY <1>3, <1>7, <2>2
  <2>4. rows' = Append(rows, row)
    BY <1>7
  <2> HIDE DEF row
  <2>5. RowOK(row)
    BY <1>3, <1>7, <2>1, <2>3 DEF RowOK
  <2> QED
    BY <1>5, <1>7, <2>1, <2>3, <2>4, <2>5
<1> QED
  BY <1>4, <1>6, <1>7 DEF InsertRow

LEMMA AuditKeepsInv ==
    ASSUME VerifyInv, NEW i \in RowIds, AuditOk(i) \/ AuditRevoke(i)
    PROVE  VerifyInv'
<1> DEFINE row == rows'[i]
<1>1. /\ rows \in Seq(Row) /\ Len(rows) \in Nat /\ RowIds = 1..Len(rows)
      /\ \A j \in RowIds : rows[j] \in Row /\ RowOK(rows[j])
  BY TableFacts
<1>2. Waiting(i) /\ now' = now /\ active' = active /\ req' = req
  BY DEF AuditOk, AuditRevoke
<1>3. PICK r : /\ rows' = [rows EXCEPT ![i] = r]
               /\ \/ r = [rows[i] EXCEPT !.audit = "done"]
                  \/ r = [rows[i] EXCEPT !.audit = "done", !.status = "rejected",
                                         !.reason = "REVOKED_BY_AUDIT"]
  BY <1>1 DEF AuditOk, AuditRevoke
<1>4. /\ r \in Row /\ r.audit = "done" /\ r.token = rows[i].token
      /\ r.device = rows[i].device /\ r.photo = rows[i].photo /\ r.reading = rows[i].reading
      /\ r.status = "approved" => rows[i].status = "approved"
  <2>1. ASSUME NEW o \in Row
        PROVE  /\ LET p == [o EXCEPT !.audit = "done"]
                  IN /\ p \in Row /\ p.audit = "done" /\ p.token = o.token
                     /\ p.device = o.device /\ p.photo = o.photo /\ p.reading = o.reading
                     /\ p.status = o.status
               /\ LET p == [o EXCEPT !.audit = "done", !.status = "rejected",
                                     !.reason = "REVOKED_BY_AUDIT"]
                  IN /\ p \in Row /\ p.audit = "done" /\ p.token = o.token
                     /\ p.device = o.device /\ p.photo = o.photo /\ p.reading = o.reading
                     /\ p.status = "rejected"
    BY DEF Row, Reasons
  <2>2. rows[i] \in Row
    BY <1>1
  <2>3. CASE r = [rows[i] EXCEPT !.audit = "done"]
    BY <2>1, <2>2, <2>3
  <2>4. CASE r = [rows[i] EXCEPT !.audit = "done", !.status = "rejected",
                                 !.reason = "REVOKED_BY_AUDIT"]
    BY <2>1, <2>2, <2>4
  <2> QED
    BY <1>3, <2>3, <2>4
<1>5. /\ rows' \in Seq(Row) /\ Len(rows') = Len(rows) /\ RowIds' = RowIds
      /\ \A j \in RowIds : rows'[j] = IF j = i THEN r ELSE rows[j]
  BY <1>1, <1>3, <1>4, ExceptSeq DEF RowIds
<1>6. Row' = Row /\ Request' = Request
  BY <1>2 DEF Row, Request, DaysBy
<1>7. Evolves
  BY <1>1, <1>2, <1>4, <1>5, <1>6 DEF Evolves
<1>8. TypeOK' /\ RoomOK'
  BY <1>2, <1>5, <1>6 DEF VerifyInv, TypeOK, RoomOK, Submitting
<1>9. TableOK'
  <2>1. RowOK(r)
    BY <1>1, <1>4 DEF RowOK
  <2>2. \A j \in RowIds' : RowOK(rows'[j])
    BY <1>1, <1>5, <2>1
  <2>3. \A j \in RowIds : rows'[j].token = rows[j].token
    BY <1>4, <1>5
  <2> QED
    BY <1>5, <2>2, <2>3 DEF VerifyInv, TableOK, RowOK, Clean
<1>10. ASSUME NEW v \in Workers
       PROVE  RequestOK(req[v])'
  <2>1. req'[v] \in Request /\ RequestOK(req'[v])
    BY <1>2 DEF VerifyInv, TypeOK
  <2> QED
    BY <1>7, <2>1, RequestKept DEF VerifyInv
<1> QED
  BY <1>8, <1>9, <1>10 DEF VerifyInv

LEMMA ShopsKeepInv ==
    ASSUME VerifyInv, NEW s \in Shops, SwitchShop(s)
    PROVE  VerifyInv'
<1>1. active' \in SUBSET Shops /\ now' = now /\ rows' = rows /\ req' = req
  BY DEF SwitchShop, VerifyInv, TypeOK
<1>2. Row' = Row /\ Request' = Request /\ Today' = Today
  BY <1>1 DEF Row, Request, DaysBy, Today
<1>3. TypeOK' /\ TableOK' /\ RoomOK'
  BY <1>1, <1>2 DEF VerifyInv, TypeOK, TableOK, RoomOK, RowIds, Submitting, RowOK, Clean
<1>4. Evolves
  BY <1>1, <1>2 DEF Evolves, VerifyInv, TypeOK
<1>5. ASSUME NEW v \in Workers
      PROVE  RequestOK(req[v])'
  <2>1. req'[v] \in Request /\ RequestOK(req'[v])
    BY <1>1 DEF VerifyInv, TypeOK
  <2> QED
    BY <1>4, <2>1, RequestKept DEF VerifyInv
<1> QED
  BY <1>3, <1>5 DEF VerifyInv

LEMMA TimeKeepsInv ==
    ASSUME VerifyInv, TimePasses
    PROVE  VerifyInv'
<1>1. now' = now + 1 /\ rows' = rows /\ active' = active /\ req' = req
  BY DEF TimePasses
<1>2. now \in Nat /\ Row \subseteq Row' /\ Request \subseteq Request'
  BY <1>1, DaysStay DEF VerifyInv, TypeOK
<1>3. rows \in Seq(Row')
  BY <1>2, SeqMonotonic DEF VerifyInv, TypeOK
<1>4. TypeOK'
  BY <1>1, <1>2, <1>3 DEF VerifyInv, TypeOK
<1>5. TableOK' /\ RoomOK'
  BY <1>1 DEF VerifyInv, TableOK, RoomOK, RowIds, Submitting, RowOK, Clean
<1>6. Evolves
  BY <1>1, <1>3 DEF Evolves, VerifyInv, TypeOK
<1>7. ASSUME NEW v \in Workers
      PROVE  RequestOK(req[v])'
  <2>1. req'[v] \in Request /\ RequestOK(req'[v])
    BY <1>1 DEF VerifyInv, TypeOK
  <2> QED
    BY <1>6, <2>1, RequestKept DEF VerifyInv
<1> QED
  BY <1>4, <1>5, <1>7 DEF VerifyInv

-----------------------------------------------------------------------------
(* The theorems.                                                           *)

LEMMA VerifyInvInit ==
    ASSUME Init
    PROVE  VerifyInv
<1>1. /\ now = 0 /\ rows = <<>> /\ active = Shops
      /\ \A w \in Workers : req[w] = NoReq
  BY DEF Init
<1>2. rows \in Seq(Row) /\ Len(rows) = 0 /\ RowIds = {}
  BY <1>1, EmptySeq, LenProperties DEF RowIds
<1>3. req \in [Workers -> Request]
  BY EmptyRequest DEF Init
<1>4. Submitting = {} /\ Cardinality(Submitting) = 0
  BY <1>1, EmptyRequest, FS_EmptySet DEF Submitting
<1>5. TypeOK
  BY <1>1, <1>2, <1>3, VerifyAssumption DEF TypeOK
<1>6. RoomOK
  BY <1>2, <1>4, VerifyAssumption DEF RoomOK
<1>7. NoReq.pc = "idle" /\ NoReq.seen = 0 /\ NoReq.code = "none"
  BY DEF NoReq
<1>8. \A w \in Workers : RequestOK(req[w])
  BY <1>1, <1>2, <1>7 DEF RequestOK
<1>9. TableOK
  BY <1>2 DEF TableOK
<1> QED
  BY <1>5, <1>6, <1>8, <1>9 DEF VerifyInv

LEMMA VerifyInvNext ==
    ASSUME VerifyInv, [Next]_vars
    PROVE  VerifyInv'
<1>1. CASE UNCHANGED vars
  BY <1>1 DEF vars, VerifyInv, TypeOK, Row, Request, DaysBy, TableOK, RowOK, Clean, RowIds,
              RoomOK, Submitting, RequestOK, PreparedOK, SameReceipt, Today
<1>2. ASSUME NEW w \in Workers, Arrive(w)
      PROVE  VerifyInv'
  BY <1>2, BeginVerifyKeepsInv, BeginStatusKeepsInv DEF Arrive
<1>3. ASSUME NEW w \in Workers, Step(w)
      PROVE  VerifyInv'
  BY <1>3, ChooseShopKeepsInv, EngineAnswersKeepsInv, JudgeReadingKeepsInv,
     CheckDuplicateKeepsInv, InsertRowKeepsInv, ReadLatestKeepsInv, RequestGone DEF Step
<1>4. ASSUME NEW w \in Workers, Abort(w)
      PROVE  VerifyInv'
  BY <1>4, RequestGone
<1>5. ASSUME NEW i \in RowIds, AuditOk(i) \/ AuditRevoke(i)
      PROVE  VerifyInv'
  BY <1>5, AuditKeepsInv
<1>6. ASSUME NEW s \in Shops, SwitchShop(s)
      PROVE  VerifyInv'
  BY <1>6, ShopsKeepInv
<1>7. CASE TimePasses
  BY <1>7, TimeKeepsInv
<1> QED
  BY <1>1, <1>2, <1>3, <1>4, <1>5, <1>6, <1>7 DEF Next

LEMMA VerifyInvHolds == Spec => []VerifyInv
<1>1. Init => VerifyInv
  BY VerifyInvInit
<1>2. VerifyInv /\ [Next]_vars => VerifyInv'
  BY VerifyInvNext
<1> QED
  BY <1>1, <1>2, PTL DEF Spec

\* Rows and requests keep their types, and MaxRows is never exceeded: a
\* submission has its row's room from its arrival to its commit.
THEOREM TypeCorrect == Spec => []TypeOK
<1>1. VerifyInv => TypeOK
  BY DEF VerifyInv
<1> QED
  BY <1>1, VerifyInvHolds, PTL

\* Only a clean photo is approved outside the audit queue, whatever the engine
\* reads, however similar the names and whenever shops are switched and the
\* day ends while requests run.
THEOREM OnlyCleanIsUnaudited == Spec => []UnauditedIsClean
<1>1. VerifyInv => UnauditedIsClean
  BY DEF VerifyInv, TableOK, RowOK, Clean, UnauditedIsClean
<1> QED
  BY <1>1, VerifyInvHolds, PTL

\* A device is told ALREADY_VERIFIED_TODAY only after an approval of its own
\* (D-06).
THEOREM OnlyApprovalsLockOut == Spec => []LockedOutByApproval
<1>1. VerifyInv => LockedOutByApproval
  BY DEF VerifyInv, RequestOK, LockedOutByApproval
<1> QED
  BY <1>1, VerifyInvHolds, PTL

-----------------------------------------------------------------------------
(* One approval for a device and day.                                      *)

\* No step makes an approved row of one that was not, but for the INSERT, which
\* the index guards.
LEMMA ApprovalsBySteps ==
    ASSUME VerifyInv, [Next]_vars
    PROVE  \/ /\ Len(rows') = Len(rows)
              /\ \A i \in 1..Len(rows) : rows'[i].status = "approved" =>
                    /\ rows[i].status = "approved"
                    /\ rows'[i].device = rows[i].device /\ rows'[i].day = rows[i].day
           \/ \E row \in Row :
                 /\ rows' = Append(rows, row)
                 /\ row.status = "approved" => ~DayTaken(row.device, row.day)
<1>1. /\ rows \in Seq(Row) /\ Len(rows) \in Nat /\ RowIds = 1..Len(rows)
      /\ \A i \in RowIds : rows[i] \in Row
  BY TableFacts
<1>2. CASE rows' = rows
  BY <1>2
<1>3. ASSUME NEW w \in Workers, InsertRow(w), rows' # rows
      PROVE  \E row \in Row :
                 /\ rows' = Append(rows, row)
                 /\ row.status = "approved" => ~DayTaken(row.device, row.day)
  <2> DEFINE old == req[w].row
  <2>1. old \in Row
    BY <1>3, RequestOfWorker DEF InsertRow, VerifyInv, RequestOK, PreparedOK
  <2>2. CASE old.status = "rejected" /\ rows' = Append(rows, old)
    BY <2>1, <2>2
  <2>3. ASSUME NEW tok \in UnusedTokens, ~DayTaken(old.device, old.day),
               rows' = Append(rows, [old EXCEPT !.token = tok])
        PROVE  \E row \in Row :
                   /\ rows' = Append(rows, row)
                   /\ row.status = "approved" => ~DayTaken(row.device, row.day)
    <3> DEFINE row == [old EXCEPT !.token = tok]
    <3>1. ASSUME NEW r \in Row
          PROVE  LET p == [r EXCEPT !.token = tok]
                 IN p \in Row /\ p.device = r.device /\ p.day = r.day
      BY <2>3 DEF Row, UnusedTokens
    <3> HIDE DEF old
    <3>2. row \in Row /\ row.device = old.device /\ row.day = old.day
      BY <2>1, <3>1
    <3> QED
      BY <2>3, <3>2
  <2> QED
    BY <1>3, <2>2, <2>3 DEF InsertRow
<1>4. ASSUME NEW i \in RowIds, AuditOk(i) \/ AuditRevoke(i)
      PROVE  /\ Len(rows') = Len(rows)
             /\ \A j \in 1..Len(rows) : rows'[j].status = "approved" =>
                   /\ rows[j].status = "approved"
                   /\ rows'[j].device = rows[j].device /\ rows'[j].day = rows[j].day
  <2>1. PICK r : /\ rows' = [rows EXCEPT ![i] = r]
                 /\ \/ r = [rows[i] EXCEPT !.audit = "done"]
                    \/ r = [rows[i] EXCEPT !.audit = "done", !.status = "rejected",
                                           !.reason = "REVOKED_BY_AUDIT"]
    BY <1>1, <1>4 DEF AuditOk, AuditRevoke
  <2>2. ASSUME NEW o \in Row
        PROVE  /\ LET p == [o EXCEPT !.audit = "done"]
                  IN p.status = o.status /\ p.device = o.device /\ p.day = o.day
               /\ LET p == [o EXCEPT !.audit = "done", !.status = "rejected",
                                     !.reason = "REVOKED_BY_AUDIT"]
                  IN p.status = "rejected"
    BY DEF Row
  <2>3. r.status = "approved" =>
           rows[i].status = "approved" /\ r.device = rows[i].device /\ r.day = rows[i].day
    BY <1>1, <1>4, <2>1, <2>2
  <2>4. Len(rows') = Len(rows)
    BY <1>1, <2>1
  <2>5. \A j \in 1..Len(rows) : rows'[j] = IF j = i THEN r ELSE rows[j]
    BY <1>1, <2>1
  <2> QED
    BY <2>3, <2>4, <2>5
<1>5. \/ rows' = rows
      \/ \E w \in Workers : InsertRow(w) /\ rows' # rows
      \/ \E i \in RowIds : AuditOk(i) \/ AuditRevoke(i)
  <2>1. ASSUME NEW w \in Workers, Arrive(w)
        PROVE  rows' = rows
    BY <2>1 DEF Arrive, BeginVerify, BeginStatus, Quiet
  <2>2. ASSUME NEW w \in Workers, Step(w) \/ Abort(w)
        PROVE  rows' = rows \/ InsertRow(w)
    BY <2>2 DEF Step, ChooseShop, EngineAnswers, JudgeReading, CheckDuplicate, InsertRow,
                ReadLatest, Deliver, Abort, Quiet
  <2>3. ASSUME (\E s \in Shops : SwitchShop(s)) \/ TimePasses \/ UNCHANGED vars
        PROVE  rows' = rows
    BY <2>3 DEF SwitchShop, TimePasses, vars
  <2> QED
    BY <2>1, <2>2, <2>3 DEF Next
<1> QED
  BY <1>2, <1>3, <1>4, <1>5

\* D-06, SYS-403: whatever is submitted at the same time, judged over midnight,
\* revoked and submitted again, a device has one approval for a day.
THEOREM OneApprovalADay == Spec => []OneApproval
<1>1. Init => OneApproval
  BY DEF Init, OneApproval, RowIds
<1>2. VerifyInv /\ OneApproval /\ [Next]_vars => OneApproval'
  <2> SUFFICES ASSUME VerifyInv, OneApproval, [Next]_vars PROVE OneApproval'
    OBVIOUS
  <2>1. /\ rows \in Seq(Row) /\ Len(rows) \in Nat /\ RowIds = 1..Len(rows)
        /\ RowIds' = DOMAIN rows'
    BY TableFacts DEF RowIds
  <2>2. CASE /\ Len(rows') = Len(rows)
             /\ \A i \in 1..Len(rows) : rows'[i].status = "approved" =>
                   /\ rows[i].status = "approved"
                   /\ rows'[i].device = rows[i].device /\ rows'[i].day = rows[i].day
    <3>1. RowIds' = 1..Len(rows)
      BY <2>1, <2>2 DEF RowIds
    <3> QED
      BY <2>1, <2>2, <3>1 DEF OneApproval
  <2>3. ASSUME NEW row \in Row, rows' = Append(rows, row),
               row.status = "approved" => ~DayTaken(row.device, row.day)
        PROVE  OneApproval'
    <3>1. /\ Len(rows') = Len(rows) + 1 /\ RowIds' = 1..(Len(rows) + 1)
          /\ \A i \in 1..Len(rows) : rows'[i] = rows[i]
          /\ rows'[Len(rows) + 1] = row
      BY <2>1, <2>3 DEF RowIds
    <3>2. row.status = "approved" =>
             \A i \in 1..Len(rows) : ~(/\ rows[i].status = "approved"
                                       /\ rows[i].device = row.device /\ rows[i].day = row.day)
      BY <2>1, <2>3 DEF DayTaken, ApprovedOn
    <3>3. \A i \in RowIds' : i \in 1..Len(rows) \/ i = Len(rows) + 1
      BY <2>1, <3>1
    <3> QED
      BY <2>1, <3>1, <3>2, <3>3 DEF OneApproval
  <2> QED
    BY <2>2, <2>3, ApprovalsBySteps
<1> QED
  BY <1>1, <1>2, VerifyInvHolds, PTL DEF Spec

-----------------------------------------------------------------------------
(* Resubmission.                                                           *)

\* A request that is about to insert goes on by its INSERT or is lost.
LEMMA InsertIsNext ==
    ASSUME TypeOK, [Next]_vars, NEW w \in Workers, req[w].pc = "insert"
    PROVE  req'[w] = req[w] \/ InsertRow(w) \/ Abort(w)
<1>1. ASSUME NEW v \in Workers, Arrive(v) \/ Step(v) \/ Abort(v)
      PROVE  \E q : req' = [req EXCEPT ![v] = q]
  <2>1. ASSUME NEW dev \in Devices, NEW photo, NEW shop, BeginVerify(v, dev, photo, shop)
        PROVE  \E q : req' = [req EXCEPT ![v] = q]
    BY <2>1 DEF BeginVerify, Answer, Goto
  <2>2. ASSUME NEW dev \in Devices, BeginStatus(v, dev)
        PROVE  \E q : req' = [req EXCEPT ![v] = q]
    BY <2>2 DEF BeginStatus, Answer, Goto
  <2>3. ASSUME NEW q, NEW reason, NEW shop, PrepareFailure(v, q, reason, shop)
        PROVE  \E p : req' = [req EXCEPT ![v] = p]
    BY <2>3 DEF PrepareFailure, Prepare
  <2>4. ASSUME NEW q, NEW reason, NEW shop, NEW flagged,
               PrepareApproval(v, q, reason, shop, flagged)
        PROVE  \E p : req' = [req EXCEPT ![v] = p]
    BY <2>4 DEF PrepareApproval, Prepare
  <2>5. CASE ChooseShop(v)
    BY <2>4, <2>5 DEF ChooseShop, Answer
  <2>6. CASE EngineAnswers(v)
    BY <2>3, <2>6 DEF EngineAnswers, Answer, Goto
  <2>7. CASE JudgeReading(v)
    BY <2>3, <2>7 DEF JudgeReading, Goto
  <2>8. CASE CheckDuplicate(v)
    BY <2>3, <2>4, <2>8 DEF CheckDuplicate
  <2>9. CASE InsertRow(v)
    BY <2>9 DEF InsertRow, Answer
  <2>10. CASE ReadLatest(v)
    <3>1. \/ Answer(v, req[v].dev, "none")
          \/ \E i \in RowIds : req' = [req EXCEPT ![v].pc = "reply", ![v].row = rows[i],
                                                  ![v].code = "rejected"]
      BY <2>10 DEF ReadLatest
    <3> QED
      BY <3>1 DEF Answer
  <2>11. CASE Deliver(v) \/ Abort(v)
    BY <2>11 DEF Deliver, Abort
  <2> QED
    BY <1>1, <2>1, <2>2, <2>5, <2>6, <2>7, <2>8, <2>9, <2>10, <2>11 DEF Arrive, Step
<1>2. ASSUME NEW v \in Workers, v # w, Arrive(v) \/ Step(v) \/ Abort(v)
      PROVE  req'[w] = req[w]
  BY <1>1, <1>2 DEF TypeOK
<1>3. ~Arrive(w)
  BY DEF Arrive, BeginVerify, BeginStatus
<1>4. Step(w) => InsertRow(w)
  BY DEF Step, ChooseShop, EngineAnswers, JudgeReading, CheckDuplicate, ReadLatest, Deliver
<1>5. ASSUME \/ \E i \in RowIds : AuditOk(i) \/ AuditRevoke(i)
             \/ \E s \in Shops : SwitchShop(s)
             \/ TimePasses \/ UNCHANGED vars
      PROVE  req' = req
  BY <1>5 DEF AuditOk, AuditRevoke, SwitchShop, TimePasses, vars
<1> QED
  BY <1>2, <1>3, <1>4, <1>5 DEF Next

\* An approval does not repeat the receipt of a row that was approved when its
\* request looked for duplicates and still is.
THEOREM ResubmissionsAreCaught == Spec => ResubmissionIsCaught
<1> DEFINE Caught == \A w \in Workers : req[w].pc = "insert" /\ req'[w].code = "approved" =>
              \A i \in 1..req[w].seen :
                 rows[i].status = "approved" =>
                    IF req[w].row.reading.number # Null
                    THEN rows[i].reading.number # req[w].row.reading.number
                    ELSE rows[i].photo # req[w].row.photo
<1>1. ASSUME VerifyInv, [Next]_vars
      PROVE  Caught
  <2>1. ASSUME NEW w \in Workers, req[w].pc = "insert", req'[w].code = "approved",
               NEW i \in 1..req[w].seen, rows[i].status = "approved"
        PROVE  IF req[w].row.reading.number # Null
               THEN rows[i].reading.number # req[w].row.reading.number
               ELSE rows[i].photo # req[w].row.photo
    <3>1. PreparedOK(req[w]) /\ TypeOK
      BY <1>1, <2>1 DEF VerifyInv, RequestOK
    <3>2. req'[w] = req[w] \/ InsertRow(w) \/ Abort(w)
      BY <1>1, <2>1, <3>1, InsertIsNext
    <3>3. req'[w] # req[w]
      BY <2>1, <3>1 DEF PreparedOK
    <3>4. ~Abort(w)
      BY <2>1, <3>1 DEF Abort, NoReq, TypeOK
    <3>5. InsertRow(w)
      BY <3>2, <3>3, <3>4
    <3>6. ASSUME Answer(w, req[w].row.device, "rejected")
                 \/ Answer(w, req[w].row.device, "ALREADY_VERIFIED_TODAY")
          PROVE  FALSE
      BY <2>1, <3>1, <3>6 DEF Answer, NoReq, TypeOK
    <3>7. req[w].row.status = "approved"
      BY <3>5, <3>6 DEF InsertRow
    <3>8. ~SameReceipt(rows[i], req[w].row.photo, req[w].row.reading.number)
      BY <2>1, <3>1, <3>7 DEF PreparedOK
    <3> QED
      BY <3>8 DEF SameReceipt
  <2> QED
    BY <2>1
<1>2. VerifyInv /\ [Next]_vars => [Caught]_vars
  BY <1>1
<1>3. ResubmissionIsCaught <=> [][Caught]_vars
  BY DEF ResubmissionIsCaught
<1> QED
  BY <1>2, <1>3, VerifyInvHolds, PTL DEF Spec

-----------------------------------------------------------------------------
(* The table as the ledger the reservations rely on.                       *)

\* What the ledger shows of one row, and of a table of which no two rows have
\* the same token.
Shown(row) ==
    [status |-> row.status, device |-> row.device, day |-> row.day,
     audit |-> row.audit = "waiting"]

VerificationIn(table, tok) ==
    LET mine == {i \in DOMAIN table : table[i].token = tok}
    IN IF mine = {} THEN L!NoVerif ELSE Shown(table[Min(mine)])

LEMMA VerificationOfRow ==
    ASSUME NEW table, NEW n \in Nat, DOMAIN table = 1..n, NEW tok \in Tokens,
           \A i, j \in 1..n : table[i].token = table[j].token /\ table[i].token # Null => i = j
    PROVE  /\ \A i \in 1..n : table[i].token = tok => VerificationIn(table, tok) = Shown(table[i])
           /\ (\A i \in 1..n : table[i].token # tok) => VerificationIn(table, tok) = L!NoVerif
<1> DEFINE mine == {i \in DOMAIN table : table[i].token = tok}
<1>1. VerificationIn(table, tok) = IF mine = {} THEN L!NoVerif ELSE Shown(table[Min(mine)])
  BY DEF VerificationIn
<1>2. mine \in SUBSET (1..n) /\ \A i \in 1..n : i \in mine <=> table[i].token = tok
  OBVIOUS
<1> HIDE DEF mine
<1>3. ASSUME NEW i \in 1..n, table[i].token = tok
      PROVE  VerificationIn(table, tok) = Shown(table[i])
  <2>1. Min(mine) \in mine
    BY <1>2, <1>3, EndsOfPositions
  <2>2. Min(mine) = i
    BY <1>2, <1>3, <2>1, VerifyAssumption
  <2> QED
    BY <1>1, <1>2, <1>3, <2>2
<1>4. ASSUME \A i \in 1..n : table[i].token # tok
      PROVE  VerificationIn(table, tok) = L!NoVerif
  <2>1. mine = {}
    BY <1>2, <1>4
  <2> QED
    BY <1>1, <2>1
<1> QED
  BY <1>3, <1>4

\* How an audit changes what is shown of a row.
LEMMA AuditedShown ==
    ASSUME NEW o \in Row, NEW p \in Row,
           p.device = o.device, p.day = o.day, p.audit = "done"
    PROVE  /\ p.status = o.status => Shown(p) = [Shown(o) EXCEPT !.audit = FALSE]
           /\ p.status = "rejected" =>
                 Shown(p) = [Shown(o) EXCEPT !.status = "rejected", !.audit = FALSE]
<1> DEFINE Pictures == [status: {"approved", "rejected"}, device: Devices,
                        day: DaysBy(now), audit: BOOLEAN]
<1>1. ASSUME NEW row \in Row
      PROVE  /\ Shown(row) \in Pictures
             /\ Shown(row).status = row.status /\ Shown(row).device = row.device
             /\ Shown(row).day = row.day
             /\ Shown(row).audit = (row.audit = "waiting")
  BY DEF Shown, Row
<1>2. ASSUME NEW u \in Pictures, NEW v \in Pictures,
             u.device = v.device, u.day = v.day, u.audit = FALSE
      PROVE  /\ u.status = v.status => u = [v EXCEPT !.audit = FALSE]
             /\ u.status = "rejected" => u = [v EXCEPT !.status = "rejected", !.audit = FALSE]
  BY <1>2
<1>3. Shown(o) \in Pictures /\ Shown(p) \in Pictures
  BY <1>1
<1>4. /\ Shown(p).status = p.status /\ Shown(o).status = o.status
      /\ Shown(p).device = Shown(o).device /\ Shown(p).day = Shown(o).day
      /\ Shown(p).audit = FALSE
  BY <1>1
<1> DEFINE u == Shown(p)
           v == Shown(o)
<1>5. /\ u \in Pictures /\ v \in Pictures /\ u.device = v.device /\ u.day = v.day
      /\ u.audit = FALSE
      /\ p.status = o.status => u.status = v.status
      /\ p.status = "rejected" => u.status = "rejected"
  BY <1>3, <1>4
<1> HIDE DEF Pictures, u, v
<1>6. /\ p.status = o.status => u = [v EXCEPT !.audit = FALSE]
      /\ p.status = "rejected" => u = [v EXCEPT !.status = "rejected", !.audit = FALSE]
  BY <1>2, <1>5
<1> QED
  BY <1>6 DEF u, v

\* Verification is VerificationIn, in the state before a step and after it.
LEMMA LedgerOfTable ==
    /\ \A tok : Verification(tok) = VerificationIn(rows, tok)
    /\ \A tok : Verification(tok)' = VerificationIn(rows', tok)
BY DEF Verification, VerificationIn, Shown, RowIds, L!NoVerif, L!KstDay, KstDay

\* Every step of the pipeline is one of the ledger's, or none.
LEMMA LedgerStep ==
    ASSUME VerifyInv, VerifyInv', [Next]_vars
    PROVE  [L!LedgerNext]_(L!ledgerVars)
<1> DEFINE before == [tok \in Tokens |-> Verification(tok)]
           after  == [tok \in Tokens |-> Verification(tok)']
<1>1. /\ Len(rows) \in Nat /\ DOMAIN rows = 1..Len(rows)
      /\ \A i \in 1..Len(rows) : rows[i] \in Row /\ RowOK(rows[i])
      /\ \A i, j \in 1..Len(rows) :
            rows[i].token = rows[j].token /\ rows[i].token # Null => i = j
      /\ now \in Nat
  BY TableFacts DEF VerifyInv, TableOK, RowIds
<1>2. /\ Len(rows') \in Nat /\ DOMAIN rows' = 1..Len(rows')
      /\ \A i, j \in 1..Len(rows') :
            rows'[i].token = rows'[j].token /\ rows'[i].token # Null => i = j
  <2>1. rows' \in Seq(Row')
    BY DEF VerifyInv, TypeOK
  <2>2. Len(rows') \in Nat /\ DOMAIN rows' = 1..Len(rows')
    BY <2>1, LenProperties
  <2> QED
    BY <2>2 DEF VerifyInv, TableOK, RowIds
<1>3. ASSUME NEW tok \in Tokens
      PROVE  /\ \A i \in 1..Len(rows) : rows[i].token = tok => before[tok] = Shown(rows[i])
             /\ (\A i \in 1..Len(rows) : rows[i].token # tok) => before[tok] = L!NoVerif
             /\ \A i \in 1..Len(rows') : rows'[i].token = tok => after[tok] = Shown(rows'[i])
             /\ (\A i \in 1..Len(rows') : rows'[i].token # tok) => after[tok] = L!NoVerif
  <2>1. before[tok] = VerificationIn(rows, tok) /\ after[tok] = VerificationIn(rows', tok)
    BY LedgerOfTable
  <2> HIDE DEF before, after
  <2> QED
    BY <1>1, <1>2, <2>1, VerificationOfRow
<1>4. /\ DOMAIN before = Tokens /\ DOMAIN after = Tokens
      /\ before = [tok \in Tokens |-> before[tok]] /\ after = [tok \in Tokens |-> after[tok]]
  OBVIOUS
<1>5. ASSUME now' = now, after = before
      PROVE  [L!LedgerNext]_(L!ledgerVars)
  BY <1>5 DEF L!ledgerVars
<1>6. CASE now' = now /\ rows' = rows
  <2>1. \A tok \in Tokens : after[tok] = before[tok]
    BY <1>6, LedgerOfTable
  <2> QED
    BY <1>4, <1>5, <1>6, <2>1
<1>7. ASSUME NEW w \in Workers, InsertRow(w), req[w].row.status = "rejected"
      PROVE  [L!LedgerNext]_(L!ledgerVars)
  <2>1. rows' = Append(rows, req[w].row) /\ req[w].row.token = Null /\ now' = now
    BY <1>7, RequestOfWorker DEF InsertRow, RequestOK, PreparedOK
  <2>2. /\ Len(rows') = Len(rows) + 1 /\ rows'[Len(rows) + 1].token = Null
        /\ \A i \in 1..Len(rows) : rows'[i] = rows[i]
    BY <2>1, <1>1 DEF VerifyInv, TypeOK
  <2> HIDE DEF before, after
  <2>3. ASSUME NEW tok \in Tokens
        PROVE  after[tok] = before[tok]
    <3>1. tok # Null
      BY VerifyAssumption
    <3>2. CASE \E i \in 1..Len(rows) : rows[i].token = tok
      <4>1. PICK i \in 1..Len(rows) : rows[i].token = tok
        BY <3>2
      <4>2. i \in 1..Len(rows') /\ rows'[i] = rows[i]
        BY <1>1, <2>2
      <4> QED
        BY <1>3, <4>1, <4>2
    <3>3. CASE \A i \in 1..Len(rows) : rows[i].token # tok
      <4>1. \A i \in 1..Len(rows') : rows'[i].token # tok
        BY <1>1, <2>2, <3>1, <3>3
      <4> QED
        BY <1>3, <3>3, <4>1
    <3> QED
      BY <3>2, <3>3
  <2> QED
    BY <1>4, <1>5, <2>1, <2>3
<1>8. ASSUME NEW w \in Workers, InsertRow(w), req[w].row.status = "approved", rows' # rows
      PROVE  [L!LedgerNext]_(L!ledgerVars)
  <2> DEFINE old == req[w].row
  <2>1. old \in Row /\ req[w].pc = "insert" /\ now' = now
        /\ old.audit \in {"no", "waiting"}
    BY <1>8, RequestOfWorker DEF InsertRow, RequestOK, PreparedOK
  <2>2. ~DayTaken(old.device, old.day)
    BY <1>8 DEF InsertRow
  <2>3. PICK tok \in UnusedTokens : rows' = Append(rows, [old EXCEPT !.token = tok])
    BY <1>8 DEF InsertRow
  <2>4. tok \in Tokens /\ \A i \in 1..Len(rows) : rows[i].token # tok
    BY <1>1 DEF UnusedTokens, RowIds
  <2> DEFINE row == [old EXCEPT !.token = tok]
  <2>5. ASSUME NEW r \in Row
        PROVE  LET p == [r EXCEPT !.token = tok]
               IN p.token = tok /\ Shown(p) = Shown(r)
    BY <2>4 DEF Row, Shown
  <2>6. row.token = tok /\ Shown(row) = Shown(old)
    BY <2>1, <2>5
  <2>7. rows' = Append(rows, row)
    BY <2>3
  <2> HIDE DEF row
  <2>8. /\ Len(rows') = Len(rows) + 1 /\ rows'[Len(rows) + 1] = row
        /\ \A i \in 1..Len(rows) : rows'[i] = rows[i]
    BY <1>1, <2>7 DEF VerifyInv, TypeOK
  <2> HIDE DEF before, after
  <2>9. before[tok] = L!NoVerif /\ after[tok] = Shown(old)
    BY <1>1, <1>3, <2>4, <2>6, <2>8
  <2>10. ASSUME NEW other \in Tokens, other # tok
         PROVE  after[other] = before[other]
    <3>1. CASE \E i \in 1..Len(rows) : rows[i].token = other
      <4>1. PICK i \in 1..Len(rows) : rows[i].token = other
        BY <3>1
      <4>2. i \in 1..Len(rows') /\ rows'[i] = rows[i]
        BY <1>1, <2>8
      <4> QED
        BY <1>3, <4>1, <4>2
    <3>2. CASE \A i \in 1..Len(rows) : rows[i].token # other
      <4>1. \A i \in 1..Len(rows') : rows'[i].token # other
        BY <1>1, <2>6, <2>8, <2>10, <3>2
      <4> QED
        BY <1>3, <3>2, <4>1
    <3> QED
      BY <3>1, <3>2
  <2>11. after = [before EXCEPT ![tok] = Shown(old)]
    BY <1>4, <2>4, <2>9, <2>10
  <2>12. ASSUME NEW other \in Tokens, before[other].status = "approved",
                before[other].device = old.device, before[other].day = old.day
         PROVE  FALSE
    <3>1. \E i \in 1..Len(rows) : rows[i].token = other
      BY <1>3, <2>12 DEF L!NoVerif
    <3>2. PICK i \in 1..Len(rows) : rows[i].token = other
      BY <3>1
    <3>3. rows[i].status = "approved" /\ rows[i].device = old.device /\ rows[i].day = old.day
      <4>1. before[other] = Shown(rows[i])
        BY <1>3, <3>2
      <4> QED
        BY <2>12, <4>1 DEF Shown
    <3> QED
      BY <1>1, <2>2, <3>3 DEF DayTaken, ApprovedOn, RowIds
  <2>13. PICK t \in 0..now : old.day = KstDay(t)
    BY <2>1 DEF Row, DaysBy
  <2>14. old.device \in Devices /\ (old.audit = "waiting") \in BOOLEAN
    BY <2>1 DEF Row
  <2> DEFINE flagged == old.audit = "waiting"
  <2>15. Shown(old) = [status |-> "approved", device |-> old.device, day |-> L!KstDay(t),
                       audit |-> flagged]
    BY <1>8, <2>13 DEF Shown, L!KstDay, KstDay
  <2>16. before[tok].status = "none"
    BY <2>9 DEF L!NoVerif
  <2>17. old.day = L!KstDay(t)
    BY <2>13 DEF L!KstDay, KstDay
  <2> HIDE DEF old, flagged
  <2>18. L!Approve(tok, old.device, L!KstDay(t), flagged)
    BY <2>1, <2>11, <2>12, <2>15, <2>16, <2>17 DEF before, after, L!Approve, L!DayFree
  <2>19. flagged \in BOOLEAN
    BY DEF flagged
  <2> QED
    BY <2>4, <2>14, <2>18, <2>19 DEF L!LedgerNext
<1>9. ASSUME NEW i \in RowIds, AuditOk(i) \/ AuditRevoke(i)
      PROVE  [L!LedgerNext]_(L!ledgerVars)
  <2> DEFINE tok == rows[i].token
  <2>1. /\ i \in 1..Len(rows) /\ rows[i] \in Row /\ rows[i].audit = "waiting" /\ now' = now
        /\ tok \in Tokens
    BY <1>1, <1>9 DEF RowIds, AuditOk, AuditRevoke, Waiting, RowOK
  <2>2. PICK r : /\ rows' = [rows EXCEPT ![i] = r]
                 /\ \/ AuditOk(i) /\ r = [rows[i] EXCEPT !.audit = "done"]
                    \/ AuditRevoke(i) /\ r = [rows[i] EXCEPT !.audit = "done",
                                     !.status = "rejected", !.reason = "REVOKED_BY_AUDIT"]
    BY <1>1, <1>9 DEF AuditOk, AuditRevoke
  <2>3. ASSUME NEW o \in Row
        PROVE  /\ LET p == [o EXCEPT !.audit = "done"]
                  IN p.token = o.token /\ Shown(p) = [Shown(o) EXCEPT !.audit = FALSE]
               /\ LET p == [o EXCEPT !.audit = "done", !.status = "rejected",
                                     !.reason = "REVOKED_BY_AUDIT"]
                  IN p.token = o.token
                     /\ Shown(p) = [Shown(o) EXCEPT !.status = "rejected", !.audit = FALSE]
    <3> DEFINE p == [o EXCEPT !.audit = "done"]
               q == [o EXCEPT !.audit = "done", !.status = "rejected",
                              !.reason = "REVOKED_BY_AUDIT"]
    <3>1. /\ p.token = o.token /\ p.device = o.device /\ p.day = o.day
          /\ p.status = o.status /\ p.audit = "done"
      BY DEF Row
    <3>2. /\ q.token = o.token /\ q.device = o.device /\ q.day = o.day
          /\ q.status = "rejected" /\ q.audit = "done"
      BY DEF Row
    <3> HIDE DEF p, q
    <3>3. p \in Row /\ q \in Row
      BY DEF p, q, Row, Reasons
    <3>4. Shown(p) = [Shown(o) EXCEPT !.audit = FALSE]
      BY <3>1, <3>3, AuditedShown
    <3>5. Shown(q) = [Shown(o) EXCEPT !.status = "rejected", !.audit = FALSE]
      BY <3>2, <3>3, AuditedShown
    <3> QED
      BY <3>1, <3>2, <3>4, <3>5 DEF p, q
  <2>4. /\ r.token = tok
        /\ \/ AuditOk(i) /\ Shown(r) = [Shown(rows[i]) EXCEPT !.audit = FALSE]
           \/ /\ AuditRevoke(i)
              /\ Shown(r) = [Shown(rows[i]) EXCEPT !.status = "rejected", !.audit = FALSE]
    <3>1. CASE AuditOk(i) /\ r = [rows[i] EXCEPT !.audit = "done"]
      BY <2>1, <2>3, <3>1
    <3>2. CASE AuditRevoke(i) /\ r = [rows[i] EXCEPT !.audit = "done", !.status = "rejected",
                                                     !.reason = "REVOKED_BY_AUDIT"]
      BY <2>1, <2>3, <3>2
    <3> QED
      BY <2>2, <3>1, <3>2
  <2>5. /\ Len(rows') = Len(rows)
        /\ \A j \in 1..Len(rows) : rows'[j] = IF j = i THEN r ELSE rows[j]
    <3>1. DOMAIN rows' = DOMAIN rows
      BY <2>2
    <3> QED
      BY <1>1, <1>2, <2>1, <2>2, <3>1
  <2> HIDE DEF before, after, tok
  <2>6. before[tok] = Shown(rows[i]) /\ after[tok] = Shown(r)
    BY <1>3, <2>1, <2>4, <2>5 DEF tok
  <2>7. ASSUME NEW other \in Tokens, other # tok
        PROVE  after[other] = before[other]
    <3>1. CASE \E j \in 1..Len(rows) : rows[j].token = other
      <4>1. PICK j \in 1..Len(rows) : rows[j].token = other
        BY <3>1
      <4>2. j # i
        BY <2>7, <4>1 DEF tok
      <4>3. j \in 1..Len(rows') /\ rows'[j] = rows[j]
        BY <2>5, <4>2
      <4> QED
        BY <1>3, <4>1, <4>3
    <3>2. CASE \A j \in 1..Len(rows) : rows[j].token # other
      <4>1. \A j \in 1..Len(rows') : rows'[j].token # other
        BY <2>4, <2>5, <2>7, <3>2
      <4> QED
        BY <1>3, <3>2, <4>1
    <3> QED
      BY <3>1, <3>2
  <2>8. after = [before EXCEPT ![tok] = Shown(r)]
    <3> DEFINE update == [before EXCEPT ![tok] = Shown(r)]
    <3>1. \A other \in Tokens : after[other] = update[other]
      BY <1>4, <2>6, <2>7
    <3>2. update = [other \in Tokens |-> update[other]]
      BY <1>4
    <3> HIDE DEF update
    <3>3. after = update
      BY <1>4, <3>1, <3>2
    <3> QED
      BY <3>3 DEF update
  <2>9. before[tok].audit
    <3>1. Shown(rows[i]).audit = (rows[i].audit = "waiting")
      BY DEF Shown
    <3>2. Shown(rows[i]).audit
      BY <2>1, <3>1
    <3> QED
      BY <2>6, <3>2
  <2>10. CASE Shown(r) = [Shown(rows[i]) EXCEPT !.audit = FALSE]
    <3>1. after = [before EXCEPT ![tok].audit = FALSE]
      BY <2>6, <2>8, <2>10
    <3>2. L!AuditOk(tok)
      BY <2>1, <2>9, <3>1 DEF before, after, L!AuditOk
    <3> QED
      BY <2>1, <3>2 DEF L!LedgerNext
  <2>11. CASE Shown(r) = [Shown(rows[i]) EXCEPT !.status = "rejected", !.audit = FALSE]
    <3>1. after = [before EXCEPT ![tok].status = "rejected", ![tok].audit = FALSE]
      BY <1>4, <2>1, <2>6, <2>8, <2>11
    <3>2. L!RevokeToken(tok)
      BY <2>1, <2>9, <3>1 DEF before, after, L!RevokeToken
    <3> QED
      BY <2>1, <3>2 DEF L!LedgerNext
  <2> QED
    BY <2>4, <2>10, <2>11
<1>10. CASE TimePasses
  <2>1. \A tok \in Tokens : after[tok] = before[tok]
    BY <1>10, LedgerOfTable DEF TimePasses
  <2>2. L!Tick
    BY <1>4, <1>10, <2>1 DEF TimePasses, L!Tick
  <2> QED
    BY <2>2 DEF L!LedgerNext
<1>11. \/ now' = now /\ rows' = rows
       \/ \E w \in Workers : InsertRow(w) /\ rows' # rows
       \/ \E i \in RowIds : AuditOk(i) \/ AuditRevoke(i)
       \/ TimePasses
  <2>1. ASSUME NEW w \in Workers, Arrive(w)
        PROVE  now' = now /\ rows' = rows
    BY <2>1 DEF Arrive, BeginVerify, BeginStatus, Quiet
  <2>2. ASSUME NEW w \in Workers, Step(w) \/ Abort(w)
        PROVE  now' = now /\ (rows' = rows \/ InsertRow(w))
    BY <2>2 DEF Step, ChooseShop, EngineAnswers, JudgeReading, CheckDuplicate, InsertRow,
                ReadLatest, Deliver, Abort, Quiet
  <2>3. ASSUME \/ \E s \in Shops : SwitchShop(s)
               \/ UNCHANGED vars
        PROVE  now' = now /\ rows' = rows
    BY <2>3 DEF SwitchShop, vars
  <2> QED
    BY <2>1, <2>2, <2>3 DEF Next
<1>12. ASSUME NEW w \in Workers, InsertRow(w)
       PROVE  req[w].row.status \in {"approved", "rejected"}
  BY <1>12 DEF InsertRow
<1> HIDE DEF before, after
<1> QED
  BY <1>6, <1>7, <1>8, <1>9, <1>10, <1>11, <1>12

\* The pipeline implements Ledger: through every interleaving a token appears
\* with one approval per device and day, and only an audit takes it back.
THEOREM TableIsLedger == Spec => ImplementsLedger
<1>1. Init => L!LedgerInit
  <2>1. ASSUME Init
        PROVE  L!LedgerInit
    <3>1. now = 0 /\ \A tok \in Tokens : Verification(tok) = L!NoVerif
      BY <2>1 DEF Init, Verification, RowIds, L!NoVerif, L!KstDay, KstDay
    <3> QED
      BY <3>1 DEF L!LedgerInit
  <2> QED
    BY <2>1
<1>2. VerifyInv /\ VerifyInv' /\ [Next]_vars => [L!LedgerNext]_(L!ledgerVars)
  BY LedgerStep
<1> QED
  BY <1>1, <1>2, VerifyInvHolds, PTL DEF Spec, ImplementsLedger, L!LedgerSpec

=============================================================================
