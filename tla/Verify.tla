------------------------------- MODULE Verify -------------------------------
(***************************************************************************)
(* POST /api/verify and GET /api/verify/status (routers/verify.py), the    *)
(* OCR engine as the backend sees it (ocr/http_engine.py), and the audit   *)
(* and shop switches of the operator (routers/admin.py).                   *)
(*                                                                         *)
(* As in Booking, a request runs in a worker thread; each SELECT and each  *)
(* commit is a step.  The engine call holds the request up for seconds,    *)
(* with every other request, and KST midnight, free to come in between.    *)
(***************************************************************************)
EXTENDS Kst, Judge

CONSTANTS
    Tokens,       \* verify tokens
    Devices,      \* X-Device-Id values
    Photos,       \* images, by content hash
    ValidPhotos,  \* those that pass the format and size guards
    Readings,     \* bound: what the engine may read off a photo
    Workers,      \* threads of the pool
    MaxRows,      \* bound: the rows there may be
    Ops           \* bound: the kinds of steps made in the instance

ASSUME VerifyAssumption ==
    /\ ValidPhotos \subseteq Photos
    /\ Null \notin Photos \cup Tokens
    /\ \A reading \in Readings : /\ reading.name \in Names \cup {Null}
                                 /\ reading.low \in BOOLEAN
                                 /\ reading.date \in Nat \cup {Null}
    /\ IsFiniteSet(Workers)
    /\ MaxRows \in Nat

VARIABLES
    now,     \* datetime.utcnow()
    rows,    \* the verifications table in the order of insertion
    active,  \* shops with is_active
    req      \* req[w]: the request worker w runs

vars == <<now, rows, active, req>>

Today == KstDay(now)

Reasons == {"NONE", "NOT_RECEIPT", "MISSING_REQUIRED_FIELD", "NOT_TODAY",
            "SHOP_NOT_PARTICIPATING", "DUPLICATE_RECEIPT", "LOW_CONFIDENCE",
            "SHOP_MATCH_UNCERTAIN", "MANUAL_SHOP_SELECTED", "REVOKED_BY_AUDIT"}

\* What the engine may leave unread.
NoReading == [name |-> Null, low |-> FALSE, date |-> Null, number |-> Null]

\* audit: needs_audit and audited_at together.
Row ==
    [device: Devices, photo: Photos \cup {Null}, shop: Shops \cup {Null},
     status: {"approved", "rejected"}, audit: {"no", "waiting", "done"},
     reason: Reasons, reading: Readings \cup {NoReading},
     token: Tokens \cup {Null}, day: DaysBy(now)]

NoRow == [device |-> Null]

\* What the chain decided of a receipt it approves.
NoOutcome == [shop |-> Null, reason |-> "NONE", audit |-> FALSE]

Outcome == [shop: Shops \cup {Null}, reason: Reasons, audit: BOOLEAN]

Codes == {"none", "ALREADY_VERIFIED_TODAY", "INVALID_REQUEST", "INVALID_IMAGE",
          "OCR_UNAVAILABLE", "approved", "rejected"}

NoReq == [pc |-> "idle", dev |-> Null, photo |-> Null, shop |-> Null,
          reading |-> NoReading, out |-> NoOutcome, row |-> NoRow, seen |-> 0,
          code |-> "none"]

\* row is the Verification object built and not committed yet, or the row that
\* an answer describes.  seen is the history of the
\* duplicate check: how many rows there were when it ran.
Request ==
    [pc: {"idle", "shop", "engine", "judge", "duplicate", "insert", "latest", "reply"},
     dev: Devices \cup {Null}, photo: Photos \cup {Null}, shop: Shops \cup {Null},
     reading: Readings \cup {NoReading}, out: Outcome, row: Row \cup {NoRow},
     seen: 0..MaxRows, code: Codes]

TypeOK ==
    /\ now \in Nat
    /\ rows \in Seq(Row) /\ Len(rows) <= MaxRows
    /\ active \subseteq Shops
    /\ req \in [Workers -> Request]

Init ==
    /\ now = 0
    /\ rows = <<>>
    /\ active = Shops
    /\ req = [w \in Workers |-> NoReq]

-----------------------------------------------------------------------------
(* The table.                                                              *)

RowIds == DOMAIN rows

ApprovedOn(dev, day) ==
    {i \in RowIds : /\ rows[i].status = "approved"
                    /\ rows[i].device = dev
                    /\ rows[i].day = day}

\* Wrong: the index covers rejected rows too.
DayTaken_AnyStatus(dev, day) ==
    \E i \in RowIds : rows[i].device = dev /\ rows[i].day = day

\* Wrong: the index leaves out approvals that wait for their audit.
DayTaken_Audited(dev, day) == \E i \in ApprovedOn(dev, day) : rows[i].audit # "waiting"

\* uq_verif_device_day_approved.
DayTaken(dev, day) == ApprovedOn(dev, day) # {}

\* Wrong: compares images only.
SameReceipt_ByImage(row, photo, number) == row.photo = photo

\* The key of a duplicate: the approval number, or the image where the
\* reading has none.
SameReceipt(row, photo, number) ==
    IF number # Null THEN row.reading.number = number ELSE row.photo = photo

\* The approved rows that are duplicates of a receipt.
Duplicates(photo, number) ==
    {i \in RowIds : rows[i].status = "approved" /\ SameReceipt(rows[i], photo, number)}

UnusedTokens == Tokens \ {rows[i].token : i \in RowIds}

-----------------------------------------------------------------------------
(* Steps of requests.                                                      *)

Goto(w, r, pc) == req' = [req EXCEPT ![w] = [r EXCEPT !.pc = pc]]

\* All that is left of an answered request: whose it was and the answer.
Answer(w, dev, code) ==
    req' = [req EXCEPT ![w] = [NoReq EXCEPT !.pc = "reply", !.dev = dev, !.code = code]]

Quiet == UNCHANGED <<now, rows, active>>

\* The Verification object is built; the rest of the request is its INSERT.
Prepare(w, r, row) ==
    req' = [req EXCEPT ![w] = [NoReq EXCEPT !.pc = "insert", !.dev = r.dev,
                                            !.row = row, !.seen = r.seen]]

\* Wrong: the row is left pending, as in an earlier design of the table.
PrepareFailure_Pending(w, r, reason, shop) ==
    Prepare(w, r, [device |-> r.dev, photo |-> r.photo, shop |-> shop,
                   status |-> "pending", audit |-> "no", reason |-> reason,
                   reading |-> r.reading, token |-> Null, day |-> Today])

\* _persist_failure: a rejected row without a token, never audited.
PrepareFailure(w, r, reason, shop) ==
    Prepare(w, r, [device |-> r.dev, photo |-> r.photo, shop |-> shop,
                   status |-> "rejected", audit |-> "no", reason |-> reason,
                   reading |-> r.reading, token |-> Null, day |-> Today])

PrepareApproval(w, r, reason, shop, flagged) ==
    Prepare(w, r, [device |-> r.dev, photo |-> r.photo, shop |-> shop,
                   status |-> "approved", audit |-> IF flagged THEN "waiting" ELSE "no",
                   reason |-> reason, reading |-> r.reading, token |-> Null,
                   day |-> Today])

\* Bound: a submission is only made while a row is left for it.
RowsLeft ==
    Cardinality({w \in Workers : req[w].pc \notin {"idle", "latest", "reply"}})
        + Len(rows) < MaxRows

\* POST /api/verify up to the choice of the path; with an image, the shop_id
\* is not looked at.
BeginVerify(w, dev, photo, shop) ==
    /\ req[w].pc = "idle"
    /\ RowsLeft
    /\ \/ /\ DayTaken(dev, Today)
          /\ Answer(w, dev, "ALREADY_VERIFIED_TODAY")
       \/ /\ ~DayTaken(dev, Today)
          /\ photo = Null /\ shop = Null
          /\ Answer(w, dev, "INVALID_REQUEST")
       \/ /\ ~DayTaken(dev, Today)
          /\ photo = Null /\ shop # Null
          /\ Goto(w, [NoReq EXCEPT !.dev = dev, !.shop = shop], "shop")
       \/ /\ ~DayTaken(dev, Today)
          /\ photo \in Photos \ ValidPhotos
          /\ Answer(w, dev, "INVALID_IMAGE")
       \/ /\ ~DayTaken(dev, Today)
          /\ photo \in ValidPhotos
          /\ Goto(w, [NoReq EXCEPT !.dev = dev, !.photo = photo], "engine")
    /\ Quiet

\* The manual path: the shop's row, then the approval, always to be audited.
ChooseShop(w) ==
    /\ req[w].pc = "shop"
    /\ IF req[w].shop \in active
       THEN PrepareApproval(w, req[w], "MANUAL_SHOP_SELECTED", req[w].shop, TRUE)
       ELSE Answer(w, req[w].dev, "INVALID_REQUEST")
    /\ Quiet

\* The engine's answer: a reading, no receipt, or no answer in time.
EngineAnswers(w) ==
    /\ req[w].pc = "engine"
    /\ \/ \E reading \in Readings :
             Goto(w, [req[w] EXCEPT !.reading = reading], "judge")
       \/ PrepareFailure(w, req[w], "NOT_RECEIPT", Null)
       \/ Answer(w, req[w].dev, "OCR_UNAVAILABLE")
    /\ Quiet

\* The active shops are read and the chain decides.
JudgeReading(w) ==
    /\ req[w].pc = "judge"
    /\ LET r    == req[w]
           o    == Evaluate(r.reading, active, Today)
           shop == MatchedShop(r.reading, active)
       IN IF o.decision = "approve"
          THEN Goto(w, [r EXCEPT !.out =
                          [shop |-> shop, reason |-> o.reason, audit |-> o.audit]],
                    "duplicate")
          ELSE PrepareFailure(w, r, o.reason, shop)
    /\ Quiet

\* The look for an approved row of the same receipt.
CheckDuplicate(w) ==
    /\ req[w].pc = "duplicate"
    /\ LET r == [req[w] EXCEPT !.seen = Len(rows)]
       IN IF Duplicates(r.photo, r.reading.number) # {}
          THEN PrepareFailure(w, r, "DUPLICATE_RECEIPT", r.out.shop)
          ELSE PrepareApproval(w, r, r.out.reason, r.out.shop, r.out.audit)
    /\ Quiet

\* The INSERT and its COMMIT: refused for a second approval of the day.
InsertRow(w) ==
    /\ req[w].pc = "insert"
    /\ LET row == req[w].row
       IN \/ /\ row.status = "rejected"
             /\ rows' = Append(rows, row)
             /\ Answer(w, row.device, "rejected")
          \/ /\ row.status = "approved"
             /\ ~DayTaken(row.device, row.day)
             /\ \E tok \in UnusedTokens :
                   rows' = Append(rows, [row EXCEPT !.token = tok])
             /\ Answer(w, row.device, "approved")
          \/ /\ row.status = "approved"
             /\ DayTaken(row.device, row.day)
             /\ Answer(w, row.device, "ALREADY_VERIFIED_TODAY")
             /\ UNCHANGED rows
    /\ UNCHANGED <<now, active>>

\* GET /api/verify/status: the approval of today, ...
BeginStatus(w, dev) ==
    /\ "status" \in Ops
    /\ req[w].pc = "idle"
    /\ \/ DayTaken(dev, Today) /\ Answer(w, dev, "approved")
       \/ /\ ~DayTaken(dev, Today)
          /\ Goto(w, [NoReq EXCEPT !.dev = dev], "latest")
    /\ Quiet

\* ... or, read in a second step, the latest row of today: the one with the latest
\* created_at, then the largest id.  It need not be the last that was inserted, as
\* ids are random and rows are stamped before they wait for the write lock, so it
\* may be any of them.
ReadLatest(w) ==
    /\ req[w].pc = "latest"
    /\ LET dev  == req[w].dev
           mine == {i \in RowIds : rows[i].device = dev /\ rows[i].day = Today}
       IN \/ mine = {} /\ Answer(w, dev, "none")
          \/ \E i \in mine :
                req' = [req EXCEPT ![w].pc = "reply", ![w].row = rows[i],
                                   ![w].code = "rejected"]
    /\ Quiet

Deliver(w) ==
    /\ req[w].pc = "reply"
    /\ req' = [req EXCEPT ![w] = NoReq]
    /\ Quiet

\* A database error, or the end of the process: the request is gone with
\* whatever it had not committed.
Abort(w) ==
    /\ "abort" \in Ops
    /\ req[w].pc # "idle"
    /\ req' = [req EXCEPT ![w] = NoReq]
    /\ Quiet

-----------------------------------------------------------------------------
(* The operator and the clock.                                             *)

Waiting(i) == rows[i].audit = "waiting"

AuditOk(i) ==
    /\ "audit" \in Ops
    /\ Waiting(i)
    /\ rows' = [rows EXCEPT ![i].audit = "done"]
    /\ UNCHANGED <<now, active, req>>

\* Wrong: the UPDATE is not conditional on the audit still being open.
AuditRevoke_Unconditional(i) ==
    /\ "audit" \in Ops
    /\ rows[i].status = "approved"
    /\ rows' = [rows EXCEPT ![i].audit = "done", ![i].status = "rejected",
                            ![i].reason = "REVOKED_BY_AUDIT"]
    /\ UNCHANGED <<now, active, req>>

AuditRevoke(i) ==
    /\ "audit" \in Ops
    /\ Waiting(i)
    /\ rows' = [rows EXCEPT ![i].audit = "done", ![i].status = "rejected",
                            ![i].reason = "REVOKED_BY_AUDIT"]
    /\ UNCHANGED <<now, active, req>>

SwitchShop(s) ==
    /\ "shops" \in Ops
    /\ active' \in {active \cup {s}, active \ {s}}
    /\ UNCHANGED <<now, rows, req>>

TimePasses ==
    /\ now < MaxTime
    /\ now' = now + 1
    /\ UNCHANGED <<rows, active, req>>

Step(w) ==
    \/ ChooseShop(w) \/ EngineAnswers(w) \/ JudgeReading(w)
    \/ CheckDuplicate(w) \/ InsertRow(w) \/ ReadLatest(w)
    \/ Deliver(w)

Arrive(w) ==
    \E dev \in Devices :
        \/ \E photo \in Photos : BeginVerify(w, dev, photo, Null)
        \/ \E shop \in Shops \cup {Null} : BeginVerify(w, dev, Null, shop)
        \/ BeginStatus(w, dev)

Next ==
    \/ \E w \in Workers : Arrive(w) \/ Step(w) \/ Abort(w)
    \/ \E i \in RowIds : AuditOk(i) \/ AuditRevoke(i)
    \/ \E s \in Shops : SwitchShop(s)
    \/ TimePasses

Spec == Init /\ [][Next]_vars

-----------------------------------------------------------------------------
(* Properties.                                                             *)

\* Only a clean photo is approved outside the audit queue: it names a shop by
\* a ratio that passes, with confidence, and is not dated after the day of the
\* approval, whatever the shops and the day became while the request ran.
UnauditedIsClean ==
    \A i \in RowIds : rows[i].status = "approved" /\ rows[i].audit = "no" =>
        /\ ~rows[i].reading.low
        /\ rows[i].reading.name \in Names
        /\ Similarity[rows[i].reading.name][rows[i].shop] >= StorePassAt
        /\ rows[i].reading.date # Null => rows[i].reading.date <= rows[i].day

\* D-06, SYS-403: of all submissions of a device, judged at the same time or
\* over midnight, one is approved for a day; after a revocation another may be.
OneApproval ==
    \A i, j \in RowIds :
        /\ rows[i].status = "approved" /\ rows[j].status = "approved"
        /\ rows[i].device = rows[j].device /\ rows[i].day = rows[j].day
        => i = j

\* ALREADY_VERIFIED_TODAY is only said to a device that did get an approval
\* (D-06: failed attempts never use up the day).
LockedOutByApproval ==
    \A w \in Workers : req[w].code = "ALREADY_VERIFIED_TODAY" =>
        \E i \in RowIds : rows[i].device = req[w].dev /\ rows[i].token # Null

\* A receipt that was approved, and still is, before a request's duplicate
\* check is not approved again by that request (VF-403, VF-404).
ResubmissionIsCaught ==
    [][\A w \in Workers : req[w].pc = "insert" /\ req'[w].code = "approved" =>
          \A i \in 1..req[w].seen :
             rows[i].status = "approved" =>
                IF req[w].row.reading.number # Null
                THEN rows[i].reading.number # req[w].row.reading.number
                ELSE rows[i].photo # req[w].row.photo]_vars

\* The row that carries a token, as the reservations side sees it.
Verification(tok) ==
    LET mine == {i \in RowIds : rows[i].token = tok}
        row  == rows[Min(mine)]
    IN IF mine = {}
       THEN [status |-> "none", device |-> Null, day |-> KstDay(0), audit |-> FALSE]
       ELSE [status |-> row.status, device |-> row.device, day |-> row.day,
             audit |-> row.audit = "waiting"]

L == INSTANCE Ledger WITH verifs <- [tok \in Tokens |-> Verification(tok)]

\* The pipeline keeps the promises Booking relies on: one approval per device
\* and day, and tokens that only an audit takes back.
ImplementsLedger == L!LedgerSpec

=============================================================================
