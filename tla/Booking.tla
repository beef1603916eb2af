------------------------------ MODULE Booking ------------------------------
(***************************************************************************)
(* The reservations side of the backend: routers/reserve.py,               *)
(* routers/reservations.py, routers/seats.py, routers/status.py,           *)
(* reservations_core.py and the reservation handlers of routers/admin.py.  *)
(*                                                                         *)
(* A handler is a synchronous function run by a worker thread, with one    *)
(* database session.  pysqlite opens a transaction only at the first write *)
(* of a session, so each SELECT is a step of its own, and a group of       *)
(* UPDATEs or an INSERT with its COMMIT is one step.  A reservation is     *)
(* dated before its INSERT has the write lock.  Between two steps of a     *)
(* request any other thread, and the clock, may move.                      *)
(***************************************************************************)
EXTENDS Ledger, FiniteSets

CONSTANTS
    Seats,        \* rows of the seats table
    ResIds,       \* bound: the reservation ids there are (uuids)
    Workers,      \* threads of the pool that run handlers
    InsertDelay,  \* bound: ticks an INSERT may wait for the write lock
    Ops           \* bound: the kinds of requests made in the instance

\* SQLite gives up waiting for the lock after seconds, a lease is two hours.
ASSUME BookingAssumption == InsertDelay \in 0..ReservationTTL

VARIABLES
    open,     \* open[s]: seats.is_open
    res,      \* res[id]: the reservations row of that id
    req       \* req[w]: the request worker w runs, with its locals

vars == <<now, verifs, open, res, req>>

NoRow == [status |-> "none", seat |-> Null, token |-> Null, device |-> Null, expires |-> 0]

ResRow ==
    [status: {"none", "active", "expired", "cancelled"}, seat: Seats \cup {Null},
     token: Tokens \cup {Null}, device: Devices \cup {Null}, expires: Nat]

PCs == {"idle", "sweep", "flush", "existing", "seat", "insert", "load",
        "cancel", "taken", "seats", "list", "reply"}

ReqOps == {"none", "reserve", "get", "cancel", "seats", "status", "list"}

Codes == {"none", "TOKEN_NOT_FOUND", "TOKEN_EXPIRED", "ALREADY_RESERVED",
          "SEAT_NOT_FOUND", "SEAT_TAKEN", "RESERVED", "NOT_FOUND", "FORBIDDEN",
          "OK", "FULL", "NOT_FULL", "ERROR"}

NoReq == [pc |-> "idle", op |-> "none", dev |-> Null, tok |-> Null,
          seat |-> Null, id |-> Null, round |-> 2, swept |-> 0, stale |-> {},
          made |-> 0, taken |-> {}, avail |-> {}, known |-> {}, code |-> "none"]

\* known, which the code does not keep, are the reservations that were active
\* when a GET /api/seats began.

Request ==
    [pc: PCs, op: ReqOps, dev: Devices \cup {Null}, tok: Tokens \cup {Null},
     seat: Seats \cup {Null}, id: ResIds \cup {Null}, round: {1, 2}, swept: Nat,
     stale: SUBSET ResIds, made: Nat, taken: SUBSET Seats, avail: SUBSET Seats,
     known: SUBSET ResIds, code: Codes]

TypeOK ==
    /\ LedgerTypeOK
    /\ open \in [Seats -> BOOLEAN]
    /\ res \in [ResIds -> ResRow]
    /\ req \in [Workers -> Request]

Init ==
    /\ LedgerInit
    /\ open = [s \in Seats |-> TRUE]
    /\ res = [id \in ResIds |-> NoRow]
    /\ req = [w \in Workers |-> NoReq]

-----------------------------------------------------------------------------
(* The reservations table.                                                 *)

ActiveIds == {id \in ResIds : res[id].status = "active"}

\* Wrong: lapses by the time the reservation was made.
StaleAt_ByStart(t) == {id \in ActiveIds : res[id].expires < t + ReservationTTL}

\* Active reservations whose time was over at t.
StaleAt(t) == {id \in ActiveIds : res[id].expires < t}

HeldSeats == {res[id].seat : id \in ActiveIds}

\* UPDATE ... SET status WHERE id IN ids, whatever the rows' status is by now.
SetStatus(ids, status) ==
    res' = [id \in ResIds |->
              IF id \in ids THEN [res[id] EXCEPT !.status = status] ELSE res[id]]

\* Wrong: the table without its partial unique index.
SeatFree_NoIndex(s) == s \in Seats

\* uq_reservation_seat_active: the INSERT's only precondition.
SeatFree(s) == s \notin HeldSeats

-----------------------------------------------------------------------------
(* Steps of requests.                                                      *)

Goto(w, r, pc) == req' = [req EXCEPT ![w] = [r EXCEPT !.pc = pc]]

Answer(w, r, code) ==
    req' = [req EXCEPT ![w] = [r EXCEPT !.pc = "reply", !.code = code]]

\* Bound: a reservation is only asked for while an id is left for it.
IdsLeft ==
    Cardinality({w \in Workers : req[w].op = "reserve"})
        < Cardinality({id \in ResIds : res[id].status = "none"})

\* A reservation of the token is being made.
UnderWay(tok) ==
    \E w \in Workers : /\ req[w].op = "reserve" /\ req[w].tok = tok
                       /\ req[w].pc # "reply"

\* Bound: without "overlap" a token is neither sent again nor revoked while a
\* reservation of it is being made.  Nothing in the code sees to that.
MayStart(tok) == "overlap" \in Ops \/ ~UnderWay(tok)

\* POST /api/reserve, up to the token check.  The seat may be unknown (Null).
BeginReserve(w, dev, tok, s) ==
    /\ "reserve" \in Ops
    /\ req[w].pc = "idle"
    /\ IdsLeft
    /\ MayStart(tok)
    /\ LET r == [NoReq EXCEPT !.op = "reserve", !.dev = dev, !.tok = tok, !.seat = s]
       IN \/ /\ verifs[tok].status = "none"
             /\ Answer(w, r, "TOKEN_NOT_FOUND")
          \/ /\ verifs[tok].status # "none"
             /\ ~Usable(tok)
             /\ Answer(w, r, "TOKEN_EXPIRED")
          \/ /\ Usable(tok)
             /\ Goto(w, r, "sweep")
    /\ UNCHANGED <<now, verifs, open, res>>

\* expire_stale, its clock reading and its SELECT.
SelectStale(w, r) ==
    /\ Goto(w, [r EXCEPT !.swept = now, !.stale = StaleAt(now)], "flush")
    /\ UNCHANGED <<now, verifs, open, res>>

\* GET and DELETE /api/reservations/{id}.
BeginOwned(w, op, dev, id) ==
    /\ op \in {"get", "cancel"} \cap Ops
    /\ req[w].pc = "idle"
    /\ SelectStale(w, [NoReq EXCEPT !.op = op, !.dev = dev, !.id = id])

\* Wrong: the view is computed without expire_stale.
BeginView_NoSweep(w, op) ==
    /\ op \in {"seats", "status", "list"} \cap Ops
    /\ req[w].pc = "idle"
    /\ Goto(w, [NoReq EXCEPT !.op = op, !.swept = now,
                             !.round = IF op = "status" THEN 1 ELSE 2,
                             !.known = IF op = "seats" THEN ActiveIds ELSE {}],
            IF op = "list" THEN "list" ELSE "taken")
    /\ UNCHANGED <<now, verifs, open, res>>

\* GET /api/seats, GET /api/status and GET /api/admin/reservations.
BeginView(w, op) ==
    /\ op \in {"seats", "status", "list"} \cap Ops
    /\ req[w].pc = "idle"
    /\ SelectStale(w, [NoReq EXCEPT !.op = op, !.round = IF op = "status" THEN 1 ELSE 2,
                                    !.known = IF op = "seats" THEN ActiveIds ELSE {}])

\* expire_stale after an earlier step of the same request.
Sweep(w) ==
    /\ req[w].pc = "sweep"
    /\ SelectStale(w, req[w])

AfterSweep(op) ==
    CASE op = "reserve"            -> "existing"
      [] op \in {"get", "cancel"}  -> "load"
      [] op = "list"               -> "list"
      [] OTHER                     -> "taken"

\* Wrong: the rows are marked but never committed.
Flush_NoCommit(w) ==
    /\ req[w].pc = "flush"
    /\ Goto(w, [req[w] EXCEPT !.stale = {}], AfterSweep(req[w].op))
    /\ UNCHANGED <<now, verifs, open, res>>

\* Wrong: a status the table does not know.
Flush_Typo(w) ==
    /\ req[w].pc = "flush"
    /\ SetStatus(req[w].stale, "stale")
    /\ Goto(w, [req[w] EXCEPT !.stale = {}], AfterSweep(req[w].op))
    /\ UNCHANGED <<now, verifs, open>>

\* expire_stale, its UPDATEs and COMMIT.
Flush(w) ==
    /\ req[w].pc = "flush"
    /\ SetStatus(req[w].stale, "expired")
    /\ Goto(w, [req[w] EXCEPT !.stale = {}], AfterSweep(req[w].op))
    /\ UNCHANGED <<now, verifs, open>>

\* Wrong: looks for the seat's reservation instead of the token's.
Mine_BySeat(r) == {id \in ActiveIds : res[id].seat = r.seat}

\* Wrong: no look for a reservation of the same token.
Mine_Unchecked(r) == {id \in ActiveIds : FALSE}

\* Active reservations of the request's token.
Mine(r) == {id \in ActiveIds : res[id].token = r.tok}

\* POST /api/reserve: does the token hold a seat already.
FindExisting(w) ==
    /\ req[w].pc = "existing"
    /\ \/ \E id \in Mine(req[w]) :
             Answer(w, [req[w] EXCEPT !.id = id], "ALREADY_RESERVED")
       \/ /\ Mine(req[w]) = {}
          /\ Goto(w, req[w], "seat")
    /\ UNCHANGED <<now, verifs, open, res>>

\* POST /api/reserve: does the seat exist; then the row is dated.
FindSeat(w) ==
    /\ req[w].pc = "seat"
    /\ \/ /\ req[w].seat = Null
          /\ Answer(w, req[w], "SEAT_NOT_FOUND")
       \/ /\ req[w].seat # Null
          /\ Goto(w, [req[w] EXCEPT !.made = now], "insert")
    /\ UNCHANGED <<now, verifs, open, res>>

\* POST /api/reserve: INSERT and COMMIT, or the unique index's refusal.
Insert(w) ==
    /\ req[w].pc = "insert"
    /\ \/ \E id \in ResIds :
             /\ res[id].status = "none"
             /\ SeatFree(req[w].seat)
             /\ res' = [res EXCEPT ![id] =
                   [status |-> "active", seat |-> req[w].seat, token |-> req[w].tok,
                    device |-> req[w].dev, expires |-> req[w].made + ReservationTTL]]
             /\ Answer(w, [req[w] EXCEPT !.id = id], "RESERVED")
       \/ /\ ~SeatFree(req[w].seat)
          /\ Answer(w, req[w], "SEAT_TAKEN")
          /\ UNCHANGED res
    /\ UNCHANGED <<now, verifs, open>>

\* Wrong: the owner is not compared.
Load_AnyDevice(w) ==
    /\ req[w].pc = "load"
    /\ IF res[req[w].id].status = "none"
       THEN Answer(w, req[w], "NOT_FOUND")
       ELSE IF req[w].op = "cancel" /\ res[req[w].id].status = "active"
            THEN Goto(w, req[w], "cancel")
            ELSE Answer(w, req[w], "OK")
    /\ UNCHANGED <<now, verifs, open, res>>

\* GET and DELETE /api/reservations/{id}: load, check the owner, refresh.
Load(w) ==
    /\ req[w].pc = "load"
    /\ LET r   == req[w]
           row == res[r.id]
       IN \/ /\ row.status = "none"
             /\ Answer(w, r, "NOT_FOUND")
          \/ /\ row.status # "none"
             /\ row.device # r.dev
             /\ Answer(w, r, "FORBIDDEN")
          \/ /\ row.status # "none"
             /\ row.device = r.dev
             /\ IF r.op = "cancel" /\ row.status = "active"
                THEN Goto(w, r, "cancel")
                ELSE Answer(w, r, "OK")
    /\ UNCHANGED <<now, verifs, open, res>>

\* Wrong: the change is never committed.
CancelOwn_NoCommit(w) ==
    /\ req[w].pc = "cancel"
    /\ Answer(w, req[w], "OK")
    /\ UNCHANGED <<now, verifs, open, res>>

\* Wrong: the row is deleted, its id free again.
CancelOwn_Delete(w) ==
    /\ req[w].pc = "cancel"
    /\ SetStatus({req[w].id}, "none")
    /\ Answer(w, req[w], "OK")
    /\ UNCHANGED <<now, verifs, open>>

\* DELETE /api/reservations/{id}: the UPDATE by id and its COMMIT.
CancelOwn(w) ==
    /\ req[w].pc = "cancel"
    /\ SetStatus({req[w].id}, "cancelled")
    /\ Answer(w, req[w], "OK")
    /\ UNCHANGED <<now, verifs, open>>

\* seat_status: the seats with an active reservation.
ReadTaken(w) ==
    /\ req[w].pc = "taken"
    /\ Goto(w, [req[w] EXCEPT !.taken = HeldSeats], "seats")
    /\ UNCHANGED <<now, verifs, open, res>>

\* Wrong: open seats count as available even while taken.
ReadSeats_OpenOnly(w) ==
    /\ req[w].pc = "seats"
    /\ Answer(w, [req[w] EXCEPT !.avail = {s \in Seats : open[s]}], "OK")
    /\ UNCHANGED <<now, verifs, open, res>>

\* seat_status: the seats table.  GET /api/status counts the available seats,
\* then computes is_full from a second run of seat_status.
ReadSeats(w) ==
    /\ req[w].pc = "seats"
    /\ LET r    == req[w]
           free == {s \in Seats : open[s] /\ s \notin r.taken}
       IN \/ /\ r.op = "seats"
             /\ Answer(w, [r EXCEPT !.avail = free], "OK")
          \/ /\ r.op = "status"
             /\ r.round = 1
             /\ Goto(w, [r EXCEPT !.avail = free, !.round = 2], "sweep")
          \/ /\ r.op = "status"
             /\ r.round = 2
             /\ Answer(w, r, IF free = {} THEN "FULL" ELSE "NOT_FULL")
    /\ UNCHANGED <<now, verifs, open, res>>

\* GET /api/admin/reservations: the join over active reservations.
ListActive(w) ==
    /\ req[w].pc = "list"
    /\ Answer(w, [req[w] EXCEPT !.taken = HeldSeats], "OK")
    /\ UNCHANGED <<now, verifs, open, res>>

\* The reply leaves, the worker is free for another request.
Deliver(w) ==
    /\ req[w].pc = "reply"
    /\ req' = [req EXCEPT ![w] = NoReq]
    /\ UNCHANGED <<now, verifs, open, res>>

\* A database error (a lock not obtained in time) ends the request with a 500;
\* the session is closed and what it had not committed is rolled back.
Fail(w) ==
    /\ "fail" \in Ops
    /\ req[w].pc \notin {"idle", "reply"}
    /\ Answer(w, [NoReq EXCEPT !.op = req[w].op], "ERROR")
    /\ UNCHANGED <<now, verifs, open, res>>

-----------------------------------------------------------------------------
(* One-transaction handlers, and the environment.                          *)

\* Such a handler needs a worker too.
WorkerFree == \E w \in Workers : req[w].pc = "idle"

Approval(tok, dev, day, flagged) ==
    /\ "approve" \in Ops
    /\ WorkerFree
    /\ Approve(tok, dev, day, flagged)
    /\ UNCHANGED <<open, res, req>>

AuditPasses(tok) ==
    /\ "audit" \in Ops
    /\ WorkerFree
    /\ AuditOk(tok)
    /\ UNCHANGED <<open, res, req>>

\* Wrong: the token's reservations are left alone.
Revoke_TokenOnly(tok) ==
    /\ "revoke" \in Ops
    /\ WorkerFree
    /\ MayStart(tok)
    /\ RevokeToken(tok)
    /\ UNCHANGED <<open, res, req>>

\* The conditional UPDATE of the verification and the cancellation of the
\* token's active reservations are one transaction.
Revoke(tok) ==
    /\ "revoke" \in Ops
    /\ WorkerFree
    /\ MayStart(tok)
    /\ RevokeToken(tok)
    /\ SetStatus({id \in ActiveIds : res[id].token = tok}, "cancelled")
    /\ UNCHANGED <<open, req>>

ToggleSeat(s, isOpen) ==
    /\ "toggle" \in Ops
    /\ WorkerFree
    /\ open' = [open EXCEPT ![s] = isOpen]
    /\ UNCHANGED <<now, verifs, res, req>>

\* DELETE /api/admin/reservations/{id}: UPDATE ... WHERE status = 'active'.
Release(id) ==
    /\ "release" \in Ops
    /\ WorkerFree
    /\ id \in ActiveIds
    /\ SetStatus({id}, "cancelled")
    /\ UNCHANGED <<now, verifs, open, req>>

\* An INSERT waits for the write lock no longer than InsertDelay; a request
\* that would have to is one that fails.
TimePasses ==
    /\ \A w \in Workers : req[w].pc = "insert" => now < req[w].made + InsertDelay
    /\ Tick
    /\ UNCHANGED <<open, res, req>>

\* The process dies and is started again: every request in progress is gone.
Crash ==
    /\ "crash" \in Ops
    /\ req' = [w \in Workers |-> NoReq]
    /\ UNCHANGED <<now, verifs, open, res>>

Step(w) ==
    \/ Sweep(w) \/ Flush(w)
    \/ FindExisting(w) \/ FindSeat(w) \/ Insert(w)
    \/ Load(w) \/ CancelOwn(w)
    \/ ReadTaken(w) \/ ReadSeats(w) \/ ListActive(w)
    \/ Deliver(w)

Arrive(w) ==
    \/ \E dev \in Devices, tok \in Tokens, s \in Seats \cup {Null} :
          BeginReserve(w, dev, tok, s)
    \/ \E dev \in Devices, id \in ResIds, op \in {"get", "cancel"} :
          BeginOwned(w, op, dev, id)
    \/ \E op \in {"seats", "status", "list"} : BeginView(w, op)

Operator ==
    \/ \E tok \in Tokens : AuditPasses(tok) \/ Revoke(tok)
    \/ \E s \in Seats, isOpen \in BOOLEAN : ToggleSeat(s, isOpen)
    \/ \E id \in ResIds : Release(id)

Next ==
    \/ \E w \in Workers : Arrive(w) \/ Step(w) \/ Fail(w)
    \/ \E tok \in Tokens, dev \in Devices, t \in 0..now, flagged \in BOOLEAN :
          Approval(tok, dev, KstDay(t), flagged)
    \/ Operator
    \/ TimePasses
    \/ Crash

Spec == Init /\ [][Next]_vars

\* A thread that runs a handler is scheduled; pages keep polling the seats
\* (createPoll, 30 s), and a queued request gets a worker in the end.
PollSeats == \E w \in Workers : BeginView(w, "seats")

FairSpec ==
    /\ Spec
    /\ \A w \in Workers : WF_vars(Step(w))
    /\ SF_vars(PollSeats)

-----------------------------------------------------------------------------
(* What holds however the requests interleave.                             *)

\* A seat has at most one active reservation (RSV-502, SYS-401), although no
\* handler checks the seat: only the partial unique index stands in the way.
SeatHeldOnce ==
    \A a, b \in ActiveIds : res[a].seat = res[b].seat => a = b

\* A reservation recorded as expired really is past its time, even when the
\* sweep that marked it decided so from an older read of the table.
ExpiredHasLapsed ==
    \A id \in ResIds : res[id].status = "expired" => res[id].expires < now

\* The request has run expire_stale and its COMMIT went through.
HasSwept(r) == r.pc # "flush"

\* Once a request has swept, no reservation that had lapsed when the sweep
\* began is active any more (D-11): whatever the request reads afterwards is
\* free of them, whichever sweeps, cancellations and INSERTs ran meanwhile.
SweepComplete ==
    \A w \in Workers : HasSwept(req[w]) =>
        \A id \in ActiveIds : res[id].expires >= req[w].swept

\* A seat shown as taken by a finished seat_status or admin list had a holder
\* whose time was not over when the request began (SYS-101).
TakenIsNotLapsed ==
    \A w \in Workers : req[w].pc \in {"seats", "reply"} =>
        \A s \in req[w].taken :
            \E id \in ResIds : /\ res[id].seat = s
                               /\ res[id].expires >= req[w].swept

\* A seat shown as available is held, if at all, by a reservation committed
\* after the request began: one that was active then and still is has been
\* seen, whatever was swept, cancelled and made between the reads.
AvailableWasFree ==
    \A w \in Workers : req[w].op = "seats" /\ req[w].pc = "reply" =>
        \A id \in ActiveIds : res[id].seat \in req[w].avail => id \notin req[w].known

\* The reservation_id that comes with 409 ALREADY_RESERVED, which the client
\* opens as its own (RSV-506), is a reservation of the request's token whose
\* time was not over when the request swept.
AlreadyReservedIsMine ==
    \A w \in Workers : req[w].code = "ALREADY_RESERVED" =>
        /\ res[req[w].id].token = req[w].tok
        /\ res[req[w].id].expires >= req[w].swept

\* A DELETE answered with 200 leaves no active reservation behind (RSV-602):
\* nothing can put the row back to active, not even a write still in flight.
CancelledIsOver ==
    \A w \in Workers : req[w].op = "cancel" /\ req[w].code = "OK" =>
        res[req[w].id].status \in {"expired", "cancelled"}

\* Where no operator intervenes, a reservation is given up by a request of the
\* device that made it (RSV-801, RSV-802): the owner check and the UPDATE by id
\* are different steps, with lapses, retries and other owners in between.
GivenUpByOwner ==
    [][\A id \in ResIds :
          res[id].status = "active" /\ res'[id].status = "cancelled" =>
             \E w \in Workers : /\ req[w].op = "cancel"
                                /\ req[w].id = id
                                /\ req[w].dev = res[id].device]_res

-----------------------------------------------------------------------------
(* The leases the reservations table stands for: both ways of ending are    *)
(* one, so that a later relabelling of an ended row is a stuttering step.   *)

LeaseOf(row) ==
    [state |-> CASE row.status = "none"   -> "none"
                 [] row.status = "active" -> "held"
                 [] OTHER                 -> "ended",
     seat  |-> row.seat,
     until |-> row.expires]

Lease == INSTANCE SeatLease WITH
            LeaseIds <- ResIds, NoSeat <- Null, TTL <- ReservationTTL,
            Delay <- InsertDelay,
            clock <- now, lease <- [id \in ResIds |-> LeaseOf(res[id])]

\* The reservations table implements SeatLease: a seat is leased only while
\* free, a lease runs ReservationTTL from its date, and an ended one stays
\* ended through every late or blind UPDATE.
ImplementsSeatLease == Lease!Spec

-----------------------------------------------------------------------------
(* What the documents promise of a token.  It holds as long as a token is   *)
(* neither sent twice at once nor revoked while it is reserved with (no      *)
(* "overlap" in Ops); see the runs for what happens otherwise.              *)

\* D-08: a token has at most one active reservation at a time.
TokenHoldsOne ==
    \A a, b \in ActiveIds : res[a].token = res[b].token => a = b

\* VF-504: revoking an approval also frees the seat held with it.
RevokedHoldsNothing ==
    \A id \in ActiveIds : verifs[res[id].token].status = "approved"

-----------------------------------------------------------------------------
(* What happens in the end.                                                *)

\* A lapsed reservation does not keep its seat for ever.
LapsedIsReleased ==
    \A id \in ResIds : id \in StaleAt(now) ~> id \notin ActiveIds

=============================================================================
