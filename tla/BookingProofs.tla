--------------------------- MODULE BookingProofs ---------------------------
(***************************************************************************)
(* Theorems about Booking, for every number of seats, tokens, devices,     *)
(* reservation ids, workers and ticks.                                     *)
(***************************************************************************)
EXTENDS Booking, TLAPS

-----------------------------------------------------------------------------
(* The inductive invariant.                                                *)

\* Only a seat of the table reaches the INSERT, with a date not long past.
Ready(r) ==
    r.pc = "insert" => /\ r.seat \in Seats
                       /\ r.made <= now /\ now <= r.made + InsertDelay

\* So active rows have a seat.
SeatsKnown ==
    /\ \A w \in Workers : Ready(req[w])
    /\ \A id \in ActiveIds : res[id].seat \in Seats

TypeInv == TypeOK /\ SeatsKnown

LEMMA LedgerTypeKept ==
    ASSUME LedgerTypeOK, [LedgerNext]_ledgerVars
    PROVE  LedgerTypeOK'
<1> USE DEF LedgerTypeOK, VerifRow, DaysBy
<1>1. CASE \E tok \in Tokens, dev \in Devices, t \in 0..now, flagged \in BOOLEAN :
              Approve(tok, dev, KstDay(t), flagged)
  BY <1>1 DEF Approve
<1>2. CASE \E tok \in Tokens : AuditOk(tok)
  BY <1>2 DEF AuditOk
<1>3. CASE \E tok \in Tokens : RevokeToken(tok)
  BY <1>3 DEF RevokeToken
<1>4. CASE Tick
  BY <1>4 DEF Tick
<1>5. CASE UNCHANGED ledgerVars
  BY <1>5 DEF ledgerVars
<1> QED
  BY <1>1, <1>2, <1>3, <1>4, <1>5 DEF LedgerNext

LEMMA NullRequest == NoReq \in Request
BY DEF NoReq, Request, PCs, ReqOps, Codes

\* The record q is r with another program counter and reply code.
SameLocals(q, r) ==
    /\ q.op = r.op /\ q.dev = r.dev /\ q.tok = r.tok /\ q.seat = r.seat
    /\ q.id = r.id /\ q.round = r.round /\ q.swept = r.swept
    /\ q.stale = r.stale /\ q.made = r.made
    /\ q.taken = r.taken /\ q.avail = r.avail /\ q.known = r.known

LEMMA GotoFields ==
    ASSUME req \in [Workers -> Request],
           NEW w \in Workers, NEW r \in Request, NEW pc \in PCs, Goto(w, r, pc)
    PROVE  /\ req' \in [Workers -> Request]
           /\ \A v \in Workers : v # w => req'[v] = req[v]
           /\ req'[w].pc = pc /\ req'[w].code = r.code /\ SameLocals(req'[w], r)
BY DEF Goto, Request, SameLocals

LEMMA AnswerFields ==
    ASSUME req \in [Workers -> Request],
           NEW w \in Workers, NEW r \in Request, NEW code \in Codes, Answer(w, r, code)
    PROVE  /\ req' \in [Workers -> Request]
           /\ \A v \in Workers : v # w => req'[v] = req[v]
           /\ req'[w].pc = "reply" /\ req'[w].code = code /\ SameLocals(req'[w], r)
BY DEF Answer, Request, PCs, SameLocals

\* Each kind of step keeps the types.  Only the request of one worker changes.
LEMMA ReqStepKeepsTypeInv ==
    ASSUME TypeInv, NEW w \in Workers, NEW r \in Request,
           \/ \E code \in Codes : Answer(w, r, code)
           \/ \E pc \in PCs : Goto(w, r, pc) /\ (pc = "insert" => r.seat \in Seats /\ r.made = now),
           UNCHANGED <<now, verifs, open, res>>
    PROVE  TypeInv'
<1> USE DEF TypeInv, TypeOK, SeatsKnown, ActiveIds
<1>1. /\ req' \in [Workers -> Request]
      /\ \A v \in Workers : v # w => req'[v] = req[v]
      /\ Ready(req[w])'
  <2>1. CASE \E code \in Codes : Answer(w, r, code)
    BY <2>1, AnswerFields DEF Ready
  <2>2. CASE \E pc \in PCs : Goto(w, r, pc) /\ (pc = "insert" => r.seat \in Seats /\ r.made = now)
    <3>1. now \in Nat /\ InsertDelay \in Nat
      BY BookingAssumption DEF LedgerTypeOK
    <3>2. req' \in [Workers -> Request] /\ \A v \in Workers : v # w => req'[v] = req[v]
      BY <2>2, GotoFields
    <3>3. req'[w].pc = "insert" => req'[w].seat \in Seats /\ req'[w].made = now
      BY <2>2, GotoFields DEF SameLocals
    <3> QED
      BY <3>1, <3>2, <3>3 DEF Ready
  <2> QED
    BY <2>1, <2>2
<1>2. LedgerTypeOK'
  BY DEF LedgerTypeOK, VerifRow, DaysBy
<1> QED
  BY <1>1, <1>2 DEF Ready

LEMMA SelectStaleKeepsTypeInv ==
    ASSUME TypeInv, NEW w \in Workers, NEW r \in Request, SelectStale(w, r)
    PROVE  TypeInv'
<1>1. [r EXCEPT !.swept = now, !.stale = StaleAt(now)] \in Request
  BY DEF Request, StaleAt, ActiveIds, LedgerTypeOK, TypeInv, TypeOK
<1> QED
  BY <1>1, ReqStepKeepsTypeInv DEF SelectStale, PCs

LEMMA ViewRequest ==
    ASSUME NEW op \in {"seats", "status", "list"}
    PROVE  [NoReq EXCEPT !.op = op, !.round = IF op = "status" THEN 1 ELSE 2,
                         !.known = IF op = "seats" THEN ActiveIds ELSE {}] \in Request
<1> DEFINE round == IF op = "status" THEN 1 ELSE 2
           known == IF op = "seats" THEN ActiveIds ELSE {}
<1>1. round \in {1, 2} /\ known \in SUBSET ResIds /\ op \in ReqOps
  BY DEF ActiveIds, ReqOps
<1> HIDE DEF round, known
<1>2. [NoReq EXCEPT !.op = op, !.round = round, !.known = known] \in Request
  BY <1>1, NullRequest DEF Request, NoReq
<1> QED
  BY <1>2 DEF round, known

LEMMA ArriveKeepsTypeInv ==
    ASSUME TypeInv, NEW w \in Workers, Arrive(w)
    PROVE  TypeInv'
<1> USE NullRequest
<1>1. ASSUME NEW dev \in Devices, NEW tok \in Tokens, NEW s \in Seats \cup {Null},
             BeginReserve(w, dev, tok, s)
      PROVE  TypeInv'
  <2>1. [NoReq EXCEPT !.op = "reserve", !.dev = dev, !.tok = tok, !.seat = s] \in Request
    BY DEF Request, NoReq, ReqOps
  <2> QED
    BY <1>1, <2>1, ReqStepKeepsTypeInv DEF BeginReserve, Codes, PCs
<1>2. ASSUME NEW dev \in Devices, NEW id \in ResIds, NEW op \in {"get", "cancel"},
             BeginOwned(w, op, dev, id)
      PROVE  TypeInv'
  <2>1. [NoReq EXCEPT !.op = op, !.dev = dev, !.id = id] \in Request
    BY DEF Request, NoReq, ReqOps
  <2> QED
    BY <1>2, <2>1, SelectStaleKeepsTypeInv DEF BeginOwned
<1>3. ASSUME NEW op \in {"seats", "status", "list"}, BeginView(w, op)
      PROVE  TypeInv'
  <2>1. [NoReq EXCEPT !.op = op, !.round = IF op = "status" THEN 1 ELSE 2,
                      !.known = IF op = "seats" THEN ActiveIds ELSE {}] \in Request
    BY ViewRequest
  <2> QED
    BY <1>3, <2>1, SelectStaleKeepsTypeInv DEF BeginView
<1> QED
  BY <1>1, <1>2, <1>3 DEF Arrive

LEMMA SetStatusKeeps ==
    ASSUME TypeInv, NEW ids, NEW status \in {"expired", "cancelled"}, SetStatus(ids, status)
    PROVE  /\ res' \in [ResIds -> ResRow]
           /\ \A id \in ActiveIds' : id \in ActiveIds /\ res'[id].seat = res[id].seat
           /\ \A id \in ResIds : /\ res'[id].seat = res[id].seat
                                 /\ res'[id].token = res[id].token
                                 /\ res'[id].device = res[id].device
                                 /\ res'[id].expires = res[id].expires
BY DEF SetStatus, ResRow, TypeInv, TypeOK, ActiveIds

LEMMA StepKeepsTypeInv ==
    ASSUME TypeInv, NEW w \in Workers, Step(w)
    PROVE  TypeInv'
<1> DEFINE r == req[w]
<1>0. /\ r \in Request /\ r.seat \in Seats \cup {Null}
      /\ LedgerTypeOK /\ open \in [Seats -> BOOLEAN]
      /\ res \in [ResIds -> ResRow] /\ req \in [Workers -> Request]
  BY DEF TypeInv, TypeOK, Request
<1>1. CASE Sweep(w)
  BY <1>0, <1>1, SelectStaleKeepsTypeInv DEF Sweep
<1>2. CASE Flush(w)
  <2>1. [r EXCEPT !.stale = {}] \in Request
    BY <1>0 DEF Request
  <2>2. /\ AfterSweep(r.op) \in PCs
        /\ AfterSweep(r.op) # "insert"
    BY <1>0 DEF AfterSweep, PCs
  <2>3. /\ req' \in [Workers -> Request]
        /\ \A v \in Workers : Ready(req[v])'
    BY <1>0, <1>2, <2>1, <2>2, GotoFields DEF Flush, TypeInv, SeatsKnown, Ready
  <2>4. /\ res' \in [ResIds -> ResRow]
        /\ \A id \in ActiveIds' : res'[id].seat \in Seats
    BY <1>2, SetStatusKeeps DEF Flush, TypeInv, SeatsKnown, Ready
  <2> QED
    BY <1>0, <1>2, <2>3, <2>4
       DEF Flush, TypeInv, TypeOK, SeatsKnown, LedgerTypeOK, VerifRow, DaysBy
<1>3. CASE FindExisting(w)
  <2>1. \A id \in ResIds : [r EXCEPT !.id = id] \in Request
    BY <1>0 DEF Request
  <2>2. Mine(r) \subseteq ResIds
    BY DEF Mine, ActiveIds
  <2> QED
    BY <1>0, <1>3, <2>1, <2>2, ReqStepKeepsTypeInv DEF FindExisting, PCs, Codes
<1>12. CASE FindSeat(w)
  <2>1. [r EXCEPT !.made = now] \in Request
    BY <1>0 DEF Request, LedgerTypeOK
  <2>2. \/ Answer(w, r, "SEAT_NOT_FOUND")
        \/ Goto(w, [r EXCEPT !.made = now], "insert") /\ r.seat # Null
    BY <1>12 DEF FindSeat
  <2>3. [r EXCEPT !.made = now].seat = r.seat /\ [r EXCEPT !.made = now].made = now
    BY <1>0 DEF Request
  <2> QED
    BY <1>0, <1>12, <2>1, <2>2, <2>3, ReqStepKeepsTypeInv DEF FindSeat, PCs, Codes
<1>4. CASE Insert(w)
  <2>1. CASE ~SeatFree(r.seat) /\ Answer(w, r, "SEAT_TAKEN") /\ UNCHANGED res
    BY <1>0, <1>4, <2>1, ReqStepKeepsTypeInv DEF Insert, Codes
  <2>2. ASSUME NEW id \in ResIds,
               res' = [res EXCEPT ![id] =
                   [status |-> "active", seat |-> r.seat, token |-> r.tok,
                    device |-> r.dev, expires |-> r.made + ReservationTTL]],
               Answer(w, [r EXCEPT !.id = id], "RESERVED")
        PROVE  TypeInv'
    <3>1. [r EXCEPT !.id = id] \in Request
      BY <1>0 DEF Request
    <3>2. /\ req' \in [Workers -> Request]
          /\ \A v \in Workers : Ready(req[v])'
      <4>1. now' = now
        BY <1>4 DEF Insert
      <4> QED
        BY <1>0, <2>2, <3>1, <4>1, AnswerFields DEF Codes, TypeInv, SeatsKnown, Ready
    <3>3. [status |-> "active", seat |-> r.seat, token |-> r.tok,
           device |-> r.dev, expires |-> r.made + ReservationTTL] \in ResRow
      BY <1>0, KstAssumption DEF ResRow, Request, LedgerTypeOK
    <3>4. res' \in [ResIds -> ResRow]
      BY <1>0, <2>2, <3>3
    <3>5. r.seat \in Seats
      BY <1>4 DEF Insert, TypeInv, SeatsKnown, Ready
    <3>6. \A i \in ActiveIds' : res'[i].seat \in Seats
      BY <1>0, <2>2, <3>5 DEF ActiveIds, TypeInv, SeatsKnown
    <3> QED
      BY <1>0, <1>4, <3>2, <3>4, <3>6
         DEF Insert, TypeInv, TypeOK, SeatsKnown, LedgerTypeOK, VerifRow, DaysBy
  <2> QED
    BY <1>4, <2>1, <2>2 DEF Insert
<1>5. CASE Load(w)
  BY <1>0, <1>5, ReqStepKeepsTypeInv DEF Load, PCs, Codes
<1>6. CASE CancelOwn(w)
  <2>1. /\ req' \in [Workers -> Request]
        /\ \A v \in Workers : Ready(req[v])'
    BY <1>0, <1>6, AnswerFields DEF CancelOwn, TypeInv, SeatsKnown, Codes, Ready
  <2>2. /\ res' \in [ResIds -> ResRow]
        /\ \A id \in ActiveIds' : res'[id].seat \in Seats
    BY <1>6, SetStatusKeeps DEF CancelOwn, TypeInv, SeatsKnown
  <2> QED
    BY <1>0, <1>6, <2>1, <2>2
       DEF CancelOwn, TypeInv, TypeOK, SeatsKnown, LedgerTypeOK, VerifRow, DaysBy
<1>7. HeldSeats \subseteq Seats
  BY DEF HeldSeats, TypeInv, SeatsKnown
<1>8. CASE ReadTaken(w)
  <2>1. [r EXCEPT !.taken = HeldSeats] \in Request
    BY <1>0, <1>7 DEF Request
  <2> QED
    BY <1>8, <2>1, ReqStepKeepsTypeInv DEF ReadTaken, PCs
<1>9. CASE ReadSeats(w)
  <2> DEFINE free == {s \in Seats : open[s] /\ s \notin r.taken}
  <2>1. /\ [r EXCEPT !.avail = free] \in Request
        /\ [r EXCEPT !.avail = free, !.round = 2] \in Request
    BY <1>0 DEF Request
  <2> HIDE DEF free
  <2>2. \/ Answer(w, [r EXCEPT !.avail = free], "OK")
        \/ Goto(w, [r EXCEPT !.avail = free, !.round = 2], "sweep")
        \/ \E code \in {"FULL", "NOT_FULL"} : Answer(w, r, code)
    BY <1>9 DEF ReadSeats, free
  <2> QED
    BY <1>0, <1>9, <2>1, <2>2, ReqStepKeepsTypeInv DEF ReadSeats, PCs, Codes
<1>10. CASE ListActive(w)
  <2>1. [r EXCEPT !.taken = HeldSeats] \in Request
    BY <1>0, <1>7 DEF Request
  <2> QED
    BY <1>10, <2>1, ReqStepKeepsTypeInv DEF ListActive, Codes
<1>11. CASE Deliver(w)
  <2>1. /\ req' \in [Workers -> Request]
        /\ \A v \in Workers : Ready(req[v])'
    BY <1>0, <1>11, NullRequest DEF Deliver, NoReq, TypeInv, SeatsKnown, Ready
  <2> QED
    BY <1>0, <1>11, <2>1
       DEF Deliver, TypeInv, TypeOK, SeatsKnown, LedgerTypeOK, VerifRow, DaysBy, ActiveIds
<1> QED
  BY <1>1, <1>2, <1>3, <1>4, <1>5, <1>6, <1>8, <1>9, <1>10, <1>11, <1>12 DEF Step

\* The steps that are no worker's own: the other handlers, the clock, a crash.
Environment ==
    \/ \E tok \in Tokens, dev \in Devices, t \in 0..now, flagged \in BOOLEAN :
          Approval(tok, dev, KstDay(t), flagged)
    \/ Operator
    \/ TimePasses
    \/ Crash

LEMMA EnvironmentEffect ==
    ASSUME TypeInv, Environment
    PROVE  /\ [LedgerNext]_ledgerVars
           /\ open' \in [Seats -> BOOLEAN]
           /\ \/ /\ req' = req
                 /\ \/ now' = now
                    \/ /\ now' = now + 1
                       /\ \A w \in Workers : req[w].pc = "insert" =>
                             now < req[w].made + InsertDelay
              \/ now' = now /\ req' = [w \in Workers |-> NoReq]
           /\ res' = res \/ \E ids \in SUBSET ResIds : SetStatus(ids, "cancelled")
<1> USE DEF LedgerNext, ledgerVars, TypeInv, TypeOK, ActiveIds
<1>1. ASSUME NEW tok \in Tokens, NEW dev \in Devices, NEW t \in 0..now,
             NEW flagged \in BOOLEAN, Approval(tok, dev, KstDay(t), flagged)
      PROVE  /\ LedgerNext
             /\ UNCHANGED <<now, open, res, req>>
  BY <1>1 DEF Approval, Approve
<1>2. ASSUME NEW tok \in Tokens, AuditPasses(tok)
      PROVE  LedgerNext /\ UNCHANGED <<now, open, res, req>>
  BY <1>2 DEF AuditPasses, AuditOk
<1>3. ASSUME NEW tok \in Tokens, Revoke(tok)
      PROVE  /\ LedgerNext /\ UNCHANGED <<now, open, req>>
             /\ \E ids \in SUBSET ResIds : SetStatus(ids, "cancelled")
  <2>1. {id \in ActiveIds : res[id].token = tok} \in SUBSET ResIds
    OBVIOUS
  <2>2. SetStatus({id \in ActiveIds : res[id].token = tok}, "cancelled")
    BY <1>3 DEF Revoke
  <2>3. LedgerNext /\ UNCHANGED <<now, open, req>>
    BY <1>3 DEF Revoke, RevokeToken
  <2> QED
    BY <2>1, <2>2, <2>3
<1>4. ASSUME NEW s \in Seats, NEW isOpen \in BOOLEAN, ToggleSeat(s, isOpen)
      PROVE  /\ UNCHANGED <<now, verifs, res, req>>
             /\ open' \in [Seats -> BOOLEAN]
  BY <1>4 DEF ToggleSeat
<1>5. ASSUME NEW id \in ResIds, Release(id)
      PROVE  /\ UNCHANGED <<now, verifs, open, req>>
             /\ \E ids \in SUBSET ResIds : SetStatus(ids, "cancelled")
  BY <1>5 DEF Release
<1>6. CASE TimePasses
  BY <1>6 DEF TimePasses, Tick
<1>7. CASE Crash
  BY <1>7 DEF Crash
<1> QED
  BY <1>1, <1>2, <1>3, <1>4, <1>5, <1>6, <1>7 DEF Environment, Operator

LEMMA FailKeepsTypeInv ==
    ASSUME TypeInv, NEW w \in Workers, Fail(w)
    PROVE  TypeInv'
<1>1. [NoReq EXCEPT !.op = req[w].op] \in Request
  BY NullRequest DEF TypeInv, TypeOK, Request
<1> QED
  BY <1>1, ReqStepKeepsTypeInv DEF Fail, Codes

LEMMA EnvironmentKeepsTypeInv ==
    ASSUME TypeInv, Environment
    PROVE  TypeInv'
<1>1. LedgerTypeOK'
  BY EnvironmentEffect, LedgerTypeKept DEF TypeInv, TypeOK
<1>2. /\ req' \in [Workers -> Request]
      /\ \A v \in Workers : Ready(req[v])'
  <2>1. CASE req' = req
    <3>1. /\ now \in Nat /\ InsertDelay \in Nat
          /\ \A w \in Workers : Ready(req[w]) /\ req[w].made \in Nat
      BY BookingAssumption DEF TypeInv, TypeOK, SeatsKnown, LedgerTypeOK, Request
    <3>2. \/ now' = now
          \/ /\ now' = now + 1
             /\ \A w \in Workers : req[w].pc = "insert" => now < req[w].made + InsertDelay
          \/ req' = [w \in Workers |-> NoReq]
      BY EnvironmentEffect
    <3>3. req' = [w \in Workers |-> NoReq] => \A w \in Workers : req'[w].pc # "insert"
      BY DEF NoReq
    <3> QED
      BY <2>1, <3>1, <3>2, <3>3 DEF Ready, TypeInv, TypeOK
  <2>2. CASE req' = [w \in Workers |-> NoReq]
    <3>1. NoReq.pc # "insert"
      BY DEF NoReq
    <3> QED
      BY <2>2, <3>1, NullRequest DEF Ready
  <2> QED
    BY <2>1, <2>2, EnvironmentEffect
<1>3. /\ res' \in [ResIds -> ResRow]
      /\ \A id \in ActiveIds' : res'[id].seat \in Seats
  BY EnvironmentEffect, SetStatusKeeps DEF TypeInv, TypeOK, SeatsKnown, ActiveIds
<1> QED
  BY <1>1, <1>2, <1>3, EnvironmentEffect DEF TypeInv, TypeOK, SeatsKnown

LEMMA NextCases ==
    ASSUME [Next]_vars
    PROVE  \/ \E w \in Workers : Arrive(w) \/ Step(w) \/ Fail(w)
           \/ Environment
           \/ UNCHANGED vars
BY DEF Next, Environment

LEMMA TypeInvInit == Init => TypeInv
<1> SUFFICES ASSUME Init PROVE TypeInv
  OBVIOUS
<1>1. LedgerTypeOK
  <2>1. KstDay(0) \in {KstDay(u) : u \in 0..0}
    OBVIOUS
  <2> QED
    BY <2>1 DEF Init, LedgerInit, LedgerTypeOK, VerifRow, NoVerif, DaysBy
<1> QED
  BY <1>1, NullRequest
     DEF Init, TypeInv, TypeOK, SeatsKnown, Ready, ResRow, NoRow, NoReq, ActiveIds

LEMMA TypeInvNext == TypeInv /\ [Next]_vars => TypeInv'
<1> SUFFICES ASSUME TypeInv, [Next]_vars PROVE TypeInv'
  OBVIOUS
<1>1. CASE UNCHANGED vars
  BY <1>1 DEF vars, TypeInv, TypeOK, SeatsKnown, Ready, ActiveIds, LedgerTypeOK, VerifRow,
     DaysBy
<1> QED
  BY <1>1, NextCases, ArriveKeepsTypeInv, StepKeepsTypeInv, FailKeepsTypeInv,
     EnvironmentKeepsTypeInv

\* Every reachable state is well typed; in particular a verification's day is
\* never one that had not begun, and only known seats are reserved.
THEOREM TypeCorrect == Spec => []TypeOK
<1>1. TypeInv => TypeOK
  BY DEF TypeInv
<1> QED
  BY <1>1, TypeInvInit, TypeInvNext, PTL DEF Spec

LEMMA TypeInvHolds == Spec => []TypeInv
BY TypeInvInit, TypeInvNext, PTL DEF Spec

-----------------------------------------------------------------------------
(* How one step changes the table and one request's sweep.                 *)

\* Rows are written once and then only change status; a row becomes active
\* only by its INSERT, on a seat that is free then.
TableEvolves ==
    /\ \A id \in ResIds : res[id].status # "none" =>
          /\ res'[id].status # "none"
          /\ res'[id].seat = res[id].seat
          /\ res'[id].token = res[id].token
          /\ res'[id].device = res[id].device
          /\ res'[id].expires = res[id].expires
    /\ \/ \A id \in ActiveIds' : id \in ActiveIds
       \/ \E new \in ResIds :
             /\ res[new].status = "none"
             /\ SeatFree(res'[new].seat)
             /\ res'[new].status = "active"
             /\ res'[new].expires >= now
             /\ \A id \in ResIds : id # new => res'[id] = res[id]

LEMMA TableEvolution ==
    ASSUME TypeInv, [Next]_vars
    PROVE  TableEvolves
<1> USE DEF TypeInv, TypeOK, TableEvolves
<1>1. CASE UNCHANGED res
  BY <1>1 DEF ActiveIds
<1>2. ASSUME NEW ids, NEW status \in {"expired", "cancelled"}, SetStatus(ids, status)
      PROVE  TableEvolves
  BY <1>2 DEF SetStatus, ResRow, ActiveIds
<1>3. ASSUME NEW w \in Workers, Insert(w)
      PROVE  TableEvolves
  <2>1. CASE UNCHANGED res
    BY <1>1, <2>1
  <2>2. ASSUME NEW new \in ResIds,
               res[new].status = "none",
               SeatFree(req[w].seat),
               res' = [res EXCEPT ![new] =
                   [status |-> "active", seat |-> req[w].seat, token |-> req[w].tok,
                    device |-> req[w].dev, expires |-> req[w].made + ReservationTTL]]
        PROVE  TableEvolves
    <3>1. /\ res'[new].status = "active" /\ res'[new].seat = req[w].seat
          /\ res'[new].expires = req[w].made + ReservationTTL
          /\ \A id \in ResIds : id # new => res'[id] = res[id]
      BY <2>2
    <3>2. req[w].made + ReservationTTL >= now
      <4>1. /\ now <= req[w].made + InsertDelay
            /\ now \in Nat /\ req[w].made \in Nat
        BY <1>3 DEF Insert, SeatsKnown, Ready, Request, LedgerTypeOK
      <4> QED
        BY <4>1, KstAssumption, BookingAssumption
    <3> QED
      BY <2>2, <3>1, <3>2
  <2> QED
    BY <1>3, <2>1, <2>2 DEF Insert
<1>4. ASSUME NEW w \in Workers, Arrive(w) \/ Step(w) \/ Fail(w), ~Insert(w)
      PROVE  UNCHANGED res \/ SetStatus(req[w].stale, "expired")
                           \/ SetStatus({req[w].id}, "cancelled")
  BY <1>4 DEF Arrive, BeginReserve, BeginOwned, BeginView, SelectStale, Step, Sweep,
     Flush, FindExisting, FindSeat, Load, CancelOwn, ReadTaken, ReadSeats, ListActive, Deliver, Fail
<1>5. CASE Environment
  BY <1>1, <1>2, <1>5, EnvironmentEffect
<1>6. CASE UNCHANGED vars
  BY <1>1, <1>6 DEF vars
<1> QED
  BY <1>1, <1>2, <1>3, <1>4, <1>5, <1>6, NextCases

\* Either the request has no sweep behind it, or it keeps the one it has, or it
\* commits it, or it begins one.
Fresh(q)       == q.swept = 0 /\ q.stale = {} /\ q.pc # "flush"
SameSweep(q, r) == /\ q.swept = r.swept /\ q.stale = r.stale
                   /\ q.pc = "flush" <=> r.pc = "flush"
Begun(q)       == /\ q.pc = "flush" /\ q.swept = now /\ q.stale = StaleAt(now)
                  /\ UNCHANGED <<now, res>>
Committed(q, r) == /\ r.pc = "flush" /\ SetStatus(r.stale, "expired") /\ now' = now
                   /\ q.pc # "flush" /\ q.swept = r.swept /\ q.stale = {}

SweepEvolves(w) ==
    \/ Fresh(req'[w])
    \/ SameSweep(req'[w], req[w])
    \/ Begun(req'[w])
    \/ Committed(req'[w], req[w])

LEMMA SelectStaleEvolution ==
    ASSUME TypeInv, NEW w \in Workers, NEW r \in Request, SelectStale(w, r)
    PROVE  /\ Begun(req'[w])
           /\ \A v \in Workers : v # w => req'[v] = req[v]
<1> DEFINE q == [r EXCEPT !.swept = now, !.stale = StaleAt(now)]
<1>1. q \in Request /\ q.swept = now /\ q.stale = StaleAt(now)
  BY DEF Request, StaleAt, ActiveIds, LedgerTypeOK, TypeInv, TypeOK
<1>2. Goto(w, q, "flush") /\ UNCHANGED <<now, res>>
  BY DEF SelectStale
<1> HIDE DEF q
<1> QED
  BY <1>1, <1>2, GotoFields DEF Begun, SameLocals, TypeInv, TypeOK, PCs

LEMMA FreshRequest ==
    /\ Fresh(NoReq)
    /\ \A dev, tok, s : Fresh([NoReq EXCEPT !.op = "reserve", !.dev = dev, !.tok = tok, !.seat = s])
    /\ \A op : Fresh([NoReq EXCEPT !.op = op])
BY DEF Fresh, NoReq

LEMMA SweepEvolution ==
    ASSUME TypeInv, [Next]_vars, NEW v \in Workers
    PROVE  SweepEvolves(v)
<1> USE DEF SweepEvolves
<1>0. \A w \in Workers : req[w] \in Request
  BY DEF TypeInv, TypeOK
<1>1. CASE req'[v] = req[v]
  BY <1>1 DEF SameSweep
<1>2. ASSUME NEW r \in Request, SameSweep(r, req[v]) \/ Fresh(r), r.pc # "flush",
             \/ \E code \in Codes : Answer(v, r, code)
             \/ \E pc \in PCs \ {"flush"} : Goto(v, r, pc)
      PROVE  SweepEvolves(v)
  BY <1>2, GotoFields, AnswerFields
     DEF SameSweep, Fresh, SameLocals, TypeInv, TypeOK
<1>3. ASSUME NEW r \in Request, NEW w \in Workers, SelectStale(w, r)
      PROVE  SweepEvolves(v)
  BY <1>1, <1>3, SelectStaleEvolution
<1>4. ASSUME NEW w \in Workers, NEW r \in Request,
             (\E code \in Codes : Answer(w, r, code)) \/ (\E pc \in PCs : Goto(w, r, pc)),
             w # v
      PROVE  req'[v] = req[v]
  BY <1>4, GotoFields, AnswerFields DEF TypeInv, TypeOK
<1>5. ASSUME NEW w \in Workers, Arrive(w)
      PROVE  SweepEvolves(v)
  <2>1. ASSUME NEW dev \in Devices, NEW tok \in Tokens, NEW s \in Seats \cup {Null},
               BeginReserve(w, dev, tok, s)
        PROVE  SweepEvolves(v)
    <3> DEFINE r == [NoReq EXCEPT !.op = "reserve", !.dev = dev, !.tok = tok, !.seat = s]
    <3>1. r \in Request /\ Fresh(r)
      BY NullRequest, FreshRequest DEF Request, NoReq, ReqOps
    <3>2. \/ \E code \in Codes : Answer(w, r, code)
          \/ \E pc \in PCs \ {"flush"} : Goto(w, r, pc)
      BY <2>1 DEF BeginReserve, Codes, PCs
    <3> HIDE DEF r
    <3> QED
      BY <1>1, <1>2, <1>4, <3>1, <3>2 DEF Fresh
  <2>2. ASSUME NEW dev \in Devices, NEW id \in ResIds, NEW op \in {"get", "cancel"},
               BeginOwned(w, op, dev, id)
        PROVE  SweepEvolves(v)
    <3>1. [NoReq EXCEPT !.op = op, !.dev = dev, !.id = id] \in Request
      BY NullRequest DEF Request, NoReq, ReqOps
    <3> QED
      BY <1>3, <2>2, <3>1 DEF BeginOwned
  <2>3. ASSUME NEW op \in {"seats", "status", "list"}, BeginView(w, op)
        PROVE  SweepEvolves(v)
    <3>1. [NoReq EXCEPT !.op = op, !.round = IF op = "status" THEN 1 ELSE 2,
                        !.known = IF op = "seats" THEN ActiveIds ELSE {}] \in Request
      BY ViewRequest
    <3> QED
      BY <1>3, <2>3, <3>1 DEF BeginView
  <2> QED
    BY <1>5, <2>1, <2>2, <2>3 DEF Arrive
<1>6. ASSUME NEW w \in Workers, Step(w)
      PROVE  SweepEvolves(v)
  <2> DEFINE r == req[w]
  <2>1. CASE Sweep(w)
    BY <1>0, <1>3, <2>1 DEF Sweep
  <2>2. CASE Flush(w)
    <3>1. [r EXCEPT !.stale = {}] \in Request /\ r.pc \in PCs
      BY <1>0 DEF Request
    <3>2. AfterSweep(r.op) \in PCs \ {"flush"}
      BY DEF AfterSweep, PCs
    <3>3. CASE w = v
      <4>1. /\ req'[v].pc = AfterSweep(r.op)
            /\ SameLocals(req'[v], [r EXCEPT !.stale = {}])
        BY <2>2, <3>1, <3>2, <3>3, GotoFields DEF Flush, TypeInv, TypeOK
      <4>2. req'[v].swept = req[v].swept /\ req'[v].stale = {}
        BY <1>0, <3>3, <4>1 DEF SameLocals, Request
      <4> QED
        BY <2>2, <3>2, <3>3, <4>1, <4>2 DEF Flush, Committed
    <3> QED
      BY <1>1, <1>4, <2>2, <3>1, <3>2, <3>3 DEF Flush
  <2>3. ASSUME NEW q \in Request, SameSweep(q, r), q.pc # "flush",
               \/ \E code \in Codes : Answer(w, q, code)
               \/ \E pc \in PCs \ {"flush"} : Goto(w, q, pc)
        PROVE  SweepEvolves(v)
    BY <1>1, <1>2, <1>4, <2>3
  <2>4. CASE FindExisting(w)
    <3>1. /\ r.pc # "flush" /\ SameSweep(r, r)
          /\ \A id \in ResIds : /\ [r EXCEPT !.id = id] \in Request
                                /\ SameSweep([r EXCEPT !.id = id], r)
                                /\ [r EXCEPT !.id = id].pc # "flush"
      BY <1>0, <2>4 DEF FindExisting, Request, SameSweep
    <3>2. Mine(r) \subseteq ResIds
      BY DEF Mine, ActiveIds
    <3> QED
      BY <1>0, <2>3, <2>4, <3>1, <3>2 DEF FindExisting, Codes, PCs
  <2>10. CASE FindSeat(w)
    <3> DEFINE q == [r EXCEPT !.made = now]
    <3>1. /\ r.pc # "flush" /\ SameSweep(r, r)
          /\ q \in Request /\ SameSweep(q, r) /\ q.pc # "flush"
      BY <1>0, <2>10 DEF FindSeat, Request, SameSweep, TypeInv, TypeOK, LedgerTypeOK
    <3>2. Answer(w, r, "SEAT_NOT_FOUND") \/ Goto(w, q, "insert")
      BY <2>10 DEF FindSeat
    <3> HIDE DEF q
    <3> QED
      BY <1>0, <2>3, <3>1, <3>2 DEF Codes, PCs
  <2>5. CASE Insert(w)
    <3>1. /\ r.pc # "flush" /\ SameSweep(r, r)
          /\ \A id \in ResIds : /\ [r EXCEPT !.id = id] \in Request
                                /\ SameSweep([r EXCEPT !.id = id], r)
                                /\ [r EXCEPT !.id = id].pc # "flush"
      BY <1>0, <2>5 DEF Insert, Request, SameSweep
    <3> QED
      BY <1>0, <2>3, <2>5, <3>1 DEF Insert, Codes
  <2>6. CASE Load(w) \/ CancelOwn(w)
    <3>1. r.pc # "flush" /\ SameSweep(r, r)
      BY <2>6 DEF Load, CancelOwn, SameSweep
    <3> QED
      BY <1>0, <2>3, <2>6, <3>1 DEF Load, CancelOwn, Codes, PCs
  <2>7. CASE ReadTaken(w) \/ ListActive(w)
    <3>1. /\ [r EXCEPT !.taken = HeldSeats] \in Request
          /\ SameSweep([r EXCEPT !.taken = HeldSeats], r)
          /\ [r EXCEPT !.taken = HeldSeats].pc # "flush"
      BY <1>0, <2>7
         DEF ReadTaken, ListActive, Request, SameSweep, HeldSeats, TypeInv, SeatsKnown
    <3> QED
      BY <2>3, <2>7, <3>1 DEF ReadTaken, ListActive, Codes, PCs
  <2>8. CASE ReadSeats(w)
    <3> DEFINE free == {s \in Seats : open[s] /\ s \notin r.taken}
               a    == [r EXCEPT !.avail = free]
               b    == [r EXCEPT !.avail = free, !.round = 2]
    <3>1. /\ r.pc # "flush" /\ SameSweep(r, r)
          /\ a \in Request /\ SameSweep(a, r) /\ a.pc # "flush"
          /\ b \in Request /\ SameSweep(b, r) /\ b.pc # "flush"
      BY <1>0, <2>8 DEF ReadSeats, Request, SameSweep
    <3>2. \/ Answer(w, a, "OK")
          \/ Goto(w, b, "sweep")
          \/ \E code \in {"FULL", "NOT_FULL"} : Answer(w, r, code)
      BY <2>8 DEF ReadSeats
    <3> HIDE DEF a, b
    <3> QED
      BY <1>0, <2>3, <3>1, <3>2 DEF Codes, PCs
  <2>9. CASE Deliver(w)
    BY <1>1, <2>9, FreshRequest DEF Deliver, TypeInv, TypeOK
  <2> QED
    BY <1>6, <2>1, <2>2, <2>4, <2>5, <2>6, <2>7, <2>8, <2>9, <2>10 DEF Step
<1>7. ASSUME NEW w \in Workers, Fail(w)
      PROVE  SweepEvolves(v)
  <2>1. /\ [NoReq EXCEPT !.op = req[w].op] \in Request
        /\ Fresh([NoReq EXCEPT !.op = req[w].op])
    BY <1>0, NullRequest, FreshRequest DEF Request
  <2> QED
    BY <1>1, <1>2, <1>4, <1>7, <2>1 DEF Fail, Codes, Fresh
<1>8. CASE Environment
  BY <1>1, <1>8, EnvironmentEffect, FreshRequest
<1>9. CASE UNCHANGED vars
  BY <1>1, <1>9 DEF vars
<1> QED
  BY <1>5, <1>6, <1>7, <1>8, <1>9, NextCases

LEMMA ClockEvolution ==
    ASSUME TypeInv, [Next]_vars
    PROVE  now' \in {now, now + 1}
<1>1. CASE \E w \in Workers : Arrive(w) \/ Step(w) \/ Fail(w)
  BY <1>1 DEF Arrive, BeginReserve, BeginOwned, BeginView, SelectStale, Step, Sweep,
     Flush, FindExisting, FindSeat, Insert, Load, CancelOwn, ReadTaken, ReadSeats, ListActive,
     Deliver, Fail
<1>2. CASE Environment
  <2>1. [LedgerNext]_ledgerVars
    BY <1>2, EnvironmentEffect
  <2>2. LedgerNext => now' \in {now, now + 1}
    BY DEF LedgerNext, Approve, AuditOk, RevokeToken, Tick
  <2> QED
    BY <2>1, <2>2 DEF ledgerVars
<1> QED
  BY <1>1, <1>2, NextCases DEF vars

\* A row expires only as one of the stale rows of some request.
LEMMA ExpiryEvolution ==
    ASSUME TypeInv, [Next]_vars, NEW id \in ResIds,
           res'[id].status = "expired", res[id].status # "expired"
    PROVE  \E w \in Workers : id \in req[w].stale
<1> USE DEF TypeInv, TypeOK
<1>1. ASSUME NEW ids, SetStatus(ids, "cancelled")
      PROVE  FALSE
  BY <1>1 DEF SetStatus, ResRow
<1>2. ASSUME NEW w \in Workers, Insert(w)
      PROVE  FALSE
  <2>1. ASSUME NEW new \in ResIds,
               res' = [res EXCEPT ![new] =
                   [status |-> "active", seat |-> req[w].seat, token |-> req[w].tok,
                    device |-> req[w].dev, expires |-> req[w].made + ReservationTTL]]
        PROVE  FALSE
    <3>1. CASE id = new
      <4>1. res'[id].status = "active"
        BY <2>1, <3>1
      <4> QED
        BY <4>1
    <3>2. CASE id # new
      BY <2>1, <3>2
    <3> QED
      BY <3>1, <3>2
  <2> QED
    BY <1>2, <2>1 DEF Insert
<1>3. ASSUME NEW w \in Workers, Flush(w)
      PROVE  id \in req[w].stale
  BY <1>3 DEF Flush, SetStatus
<1>4. ASSUME NEW w \in Workers, Arrive(w) \/ Step(w) \/ Fail(w), ~Insert(w), ~Flush(w)
      PROVE  UNCHANGED res \/ SetStatus({req[w].id}, "cancelled")
  BY <1>4 DEF Arrive, BeginReserve, BeginOwned, BeginView, SelectStale, Step, Sweep,
     FindExisting, FindSeat, Load, CancelOwn, ReadTaken, ReadSeats, ListActive, Deliver, Fail
<1>5. CASE Environment
  BY <1>1, <1>5, EnvironmentEffect
<1>6. CASE UNCHANGED vars
  BY <1>6 DEF vars
<1> QED
  BY <1>1, <1>2, <1>3, <1>4, <1>5, <1>6, NextCases

-----------------------------------------------------------------------------
(* One holder per seat.                                                    *)

\* No interleaving of requests, sweeps, cancellations, failures and crashes
\* gives a seat two active reservations.
THEOREM OneHolderPerSeat == Spec => []SeatHeldOnce
<1>1. Init => SeatHeldOnce
  BY DEF Init, SeatHeldOnce, ActiveIds, NoRow
<1>2. ASSUME TypeInv, SeatHeldOnce, [Next]_vars
      PROVE  SeatHeldOnce'
  <2>1. TableEvolves
    BY <1>2, TableEvolution
  <2>2. CASE \A id \in ActiveIds' : id \in ActiveIds
    BY <1>2, <2>1, <2>2 DEF TableEvolves, SeatHeldOnce, ActiveIds
  <2>3. ASSUME NEW new \in ResIds, SeatFree(res'[new].seat),
               \A id \in ResIds : id # new => res'[id] = res[id]
        PROVE  SeatHeldOnce'
    <3>1. \A id \in ActiveIds' : id # new => res'[id].seat # res'[new].seat
      BY <2>3 DEF SeatFree, HeldSeats, ActiveIds
    <3> QED
      BY <1>2, <2>3, <3>1 DEF SeatHeldOnce, ActiveIds
  <2> QED
    BY <2>1, <2>2, <2>3 DEF TableEvolves
<1> QED
  BY <1>1, <1>2, TypeInvHolds, PTL DEF Spec

-----------------------------------------------------------------------------
(* The sweep.                                                              *)

\* What a request's own reading of the table is worth later: the rows it found
\* stale still exist and are still past their time, and until its COMMIT they
\* include every active row that had lapsed when it read.
StaleIsLapsed ==
    \A w \in Workers : \A id \in req[w].stale :
        id \in ResIds /\ res[id].status # "none" /\ res[id].expires < now

StaleIsComplete ==
    \A w \in Workers : req[w].pc = "flush" => StaleAt(req[w].swept) \subseteq req[w].stale

SweptBeforeNow == \A w \in Workers : req[w].swept <= now

SweepInv ==
    /\ SweptBeforeNow
    /\ StaleIsLapsed
    /\ StaleIsComplete
    /\ SweepComplete
    /\ ExpiredHasLapsed

LEMMA SweepInvInit == Init => SweepInv
BY TypeInvInit
   DEF Init, LedgerInit, SweepInv, SweptBeforeNow, StaleIsLapsed, StaleIsComplete,
       SweepComplete, ExpiredHasLapsed, HasSwept, NoReq, NoRow, ActiveIds

LEMMA SweepInvNext == TypeInv /\ SweepInv /\ [Next]_vars => SweepInv'
<1> SUFFICES ASSUME TypeInv, SweepInv, [Next]_vars PROVE SweepInv'
  OBVIOUS
<1>1. /\ TableEvolves
      /\ \A w \in Workers : SweepEvolves(w)
      /\ now \in Nat /\ now' \in {now, now + 1}
      /\ \A id \in ResIds : res[id].expires \in Nat /\ res'[id].expires \in Nat
      /\ \A w \in Workers : req[w].swept \in Nat
  BY TableEvolution, SweepEvolution, ClockEvolution, TypeInvNext
     DEF TypeInv, TypeOK, LedgerTypeOK, ResRow, Request
<1>2. ASSUME NEW id \in ActiveIds'
      PROVE  /\ id \in ResIds
             /\ \/ id \in ActiveIds /\ res'[id].expires = res[id].expires
                \/ res'[id].expires >= now
  BY <1>1, KstAssumption DEF TableEvolves, ActiveIds
<1>3. ASSUME NEW w \in Workers
      PROVE  req'[w].swept <= now'
  BY <1>1 DEF SweepEvolves, Fresh, SameSweep, Begun, Committed, SweepInv, SweptBeforeNow
<1>4. ASSUME NEW w \in Workers, NEW id \in req'[w].stale
      PROVE  id \in ResIds /\ res'[id].status # "none" /\ res'[id].expires < now'
  <2>1. CASE id \in req[w].stale
    BY <1>1, <2>1 DEF TableEvolves, SweepInv, StaleIsLapsed
  <2>2. CASE Begun(req'[w])
    BY <1>1, <2>2 DEF Begun, StaleAt, ActiveIds
  <2> QED
    BY <1>1, <1>4, <2>1, <2>2 DEF SweepEvolves, Fresh, SameSweep, Committed
<1>5. ASSUME NEW w \in Workers, req'[w].pc = "flush",
             NEW id \in ActiveIds', res'[id].expires < req'[w].swept
      PROVE  id \in req'[w].stale
  <2>1. CASE SameSweep(req'[w], req[w])
    BY <1>1, <1>2, <1>5, <2>1
       DEF SameSweep, SweepInv, SweptBeforeNow, StaleIsComplete, StaleAt
  <2>2. CASE Begun(req'[w])
    BY <1>1, <1>5, <2>2 DEF Begun, StaleAt, ActiveIds
  <2> QED
    BY <1>1, <1>5, <2>1, <2>2 DEF SweepEvolves, Fresh, Committed
<1>6. ASSUME NEW w \in Workers, req'[w].pc # "flush", NEW id \in ActiveIds'
      PROVE  res'[id].expires >= req'[w].swept
  <2>1. CASE Fresh(req'[w])
    BY <1>1, <1>2, <2>1 DEF Fresh
  <2>2. CASE SameSweep(req'[w], req[w])
    BY <1>1, <1>2, <1>6, <2>2
       DEF SameSweep, SweepInv, SweptBeforeNow, SweepComplete, HasSwept
  <2>3. CASE Committed(req'[w], req[w])
    <3>1. /\ id \in ActiveIds /\ id \notin req[w].stale
          /\ res'[id].expires = res[id].expires
      BY <2>3 DEF Committed, SetStatus, ActiveIds, TypeInv, TypeOK, ResRow
    <3>2. id \notin StaleAt(req[w].swept)
      BY <2>3, <3>1 DEF Committed, SweepInv, StaleIsComplete
    <3> QED
      BY <1>1, <1>2, <2>3, <3>1, <3>2 DEF Committed, StaleAt
  <2> QED
    BY <1>1, <1>6, <2>1, <2>2, <2>3 DEF SweepEvolves, Begun
<1>7. ASSUME NEW id \in ResIds, res'[id].status = "expired"
      PROVE  res'[id].expires < now'
  <2>1. res[id].status # "none" /\ res[id].expires < now
    BY <1>7, ExpiryEvolution DEF SweepInv, ExpiredHasLapsed, StaleIsLapsed
  <2> QED
    BY <1>1, <2>1 DEF TableEvolves
<1> QED
  BY <1>3, <1>4, <1>5, <1>6, <1>7
     DEF SweepInv, SweptBeforeNow, StaleIsLapsed, StaleIsComplete, SweepComplete,
         ExpiredHasLapsed, HasSwept, StaleAt, ActiveIds

\* After its expire_stale no request sees a reservation active that had lapsed
\* before, however the other sweeps and INSERTs fell.
THEOREM SweepLeavesNothingLapsed == Spec => []SweepComplete
<1>1. SweepInv => SweepComplete
  BY DEF SweepInv
<1> QED
  BY <1>1, SweepInvInit, SweepInvNext, TypeInvHolds, PTL DEF Spec

\* Nobody's reservation is expired before its time.
THEOREM NothingExpiresEarly == Spec => []ExpiredHasLapsed
<1>1. SweepInv => ExpiredHasLapsed
  BY DEF SweepInv
<1> QED
  BY <1>1, SweepInvInit, SweepInvNext, TypeInvHolds, PTL DEF Spec

=============================================================================
