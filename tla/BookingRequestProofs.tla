------------------------ MODULE BookingRequestProofs ------------------------
(***************************************************************************)
(* Theorems about Booking: what a request has learnt from the table still  *)
(* means when it answers, who may give a reservation up, and that the      *)
(* table implements SeatLease.  What the documents promise of a token      *)
(* holds where its reservations and its revocation do not overlap.         *)
(***************************************************************************)
EXTENDS BookingProofs

-----------------------------------------------------------------------------
(* The inductive invariant.  Of each request it says which handler may be  *)
(* at which step, and what its locals are still worth.                     *)

\* The steps belong to their handlers, and a code is given with the reply.
FlowOK(r) ==
    /\ r.pc \in {"sweep", "flush"} => r.op # "none"
    /\ r.pc \in {"existing", "seat", "insert"} => r.op = "reserve"
    /\ r.pc = "load" => r.op \in {"get", "cancel"}
    /\ r.pc = "cancel" => r.op = "cancel"
    /\ r.pc \in {"taken", "seats"} => r.op \in {"seats", "status"}
    /\ r.pc = "list" => r.op = "list"
    /\ r.op \in {"get", "cancel"} /\ r.code # "ERROR" => r.id \in ResIds
    /\ r.op \in {"none", "reserve", "get", "cancel"} => r.taken = {}
    /\ r.op # "seats" => r.known = {}
    /\ r.pc # "reply" => r.code = "none"

\* The row that 409 ALREADY_RESERVED names.
NamesOwnRow(r) ==
    r.code = "ALREADY_RESERVED" =>
        /\ r.id \in ResIds /\ res[r.id].status # "none"
        /\ res[r.id].token = r.tok
        /\ res[r.id].expires >= r.swept

\* A row that is about to be cancelled is the device's own.
CancelsOwnRow(r) ==
    r.pc = "cancel" => res[r.id].status # "none" /\ res[r.id].device = r.dev

HasCancelled(r) ==
    r.op = "cancel" /\ r.code = "OK" => res[r.id].status \in {"expired", "cancelled"}

\* The seats read as taken each had a holder.
TakenHadHolder(r) ==
    r.pc \in {"seats", "reply"} =>
        \A s \in r.taken : \E id \in ResIds : /\ res[id].status # "none"
                                              /\ res[id].seat = s
                                              /\ res[id].expires >= r.swept

\* Whoever holds a seat that was not read as taken has come later.
FreeUnlessNew(r) ==
    /\ \A id \in r.known : res[id].status # "none"
    /\ r.op = "seats" /\ r.pc = "seats" =>
          \A id \in ActiveIds : res[id].seat \in r.taken \/ id \notin r.known
    /\ r.op = "seats" /\ r.pc = "reply" =>
          \A id \in ActiveIds : res[id].seat \in r.avail => id \notin r.known

RequestOK(r) ==
    /\ FlowOK(r) /\ NamesOwnRow(r) /\ CancelsOwnRow(r) /\ HasCancelled(r)
    /\ TakenHadHolder(r) /\ FreeUnlessNew(r)

RequestInv == \A w \in Workers : RequestOK(req[w])

\* A request changes by a step of its own, or it is dropped with its process.
LEMMA OwnSteps ==
    ASSUME TypeInv, [Next]_vars, NEW v \in Workers
    PROVE  \/ req'[v] = req[v] \/ req'[v] = NoReq
           \/ Arrive(v) \/ Step(v) \/ Fail(v)
<1> USE DEF Goto, Answer, TypeInv, TypeOK
<1>1. ASSUME NEW w \in Workers, w # v, Arrive(w)
      PROVE  req'[v] = req[v]
  BY <1>1 DEF Arrive, BeginReserve, BeginOwned, BeginView, SelectStale
<1>2. ASSUME NEW w \in Workers, w # v, Step(w)
      PROVE  req'[v] = req[v]
  BY <1>2 DEF Step, Sweep, Flush, FindExisting, FindSeat, Insert, Load, CancelOwn, ReadTaken,
     ReadSeats, ListActive, Deliver, SelectStale
<1>3. ASSUME NEW w \in Workers, w # v, Fail(w)
      PROVE  req'[v] = req[v]
  BY <1>3 DEF Fail
<1>4. CASE Environment
  BY <1>4, EnvironmentEffect
<1>5. CASE UNCHANGED vars
  BY <1>5 DEF vars
<1> QED
  BY <1>1, <1>2, <1>3, <1>4, <1>5, NextCases

\* The table never takes back what a request has learnt from it.
LEMMA OthersKeepRequest ==
    ASSUME TypeInv, SweepInv, [Next]_vars, NEW v \in Workers, RequestOK(req[v]),
           req'[v] = req[v]
    PROVE  RequestOK(req[v])'
<1> DEFINE r == req[v]
<1>0. /\ r \in Request /\ TableEvolves /\ r.swept \in Nat /\ now \in Nat
      /\ r.swept <= now /\ r.taken \subseteq Seats
      /\ \A id \in ResIds : res[id] \in ResRow /\ res'[id] \in ResRow
  BY TableEvolution, TypeInvNext DEF TypeInv, TypeOK, SweepInv, SweptBeforeNow, Request,
     LedgerTypeOK
<1>1. FlowOK(r)' /\ NamesOwnRow(r)' /\ CancelsOwnRow(r)'
  BY <1>0 DEF RequestOK, FlowOK, NamesOwnRow, CancelsOwnRow, TableEvolves, Request
<1>2. HasCancelled(r)'
  BY <1>0 DEF RequestOK, FlowOK, HasCancelled, TableEvolves, ActiveIds, ResRow
<1>3. TakenHadHolder(r)'
  BY <1>0 DEF RequestOK, TakenHadHolder, TableEvolves
<1>4. FreeUnlessNew(r)'
  BY <1>0 DEF RequestOK, FreeUnlessNew, TableEvolves, ActiveIds, Request
<1> QED
  BY <1>1, <1>2, <1>3, <1>4 DEF RequestOK

\* Where no lookup is behind a request there is nothing to be right about.
LEMMA NothingLearnt ==
    ASSUME NEW v \in Workers, FlowOK(req[v])', req'[v].taken = {}, req'[v].known = {},
           req'[v].pc \notin {"cancel", "seats"},
           req'[v].op # "seats" \/ req'[v].pc # "reply",
           req'[v].code \notin {"ALREADY_RESERVED", "OK"}
    PROVE  RequestOK(req[v])'
BY DEF RequestOK, NamesOwnRow, CancelsOwnRow, HasCancelled, TakenHadHolder, FreeUnlessNew

LEMMA SelectStaleKeepsRequest ==
    ASSUME TypeInv, NEW v \in Workers, NEW r \in Request, SelectStale(v, r),
           r.op \in {"get", "cancel"} => r.id \in ResIds,
           r.op # "none", r.op \in {"reserve", "get", "cancel"} => r.taken = {},
           r.code = "none", r.op # "seats" => r.known = {},
           \A id \in r.known : res[id].status # "none"
    PROVE  RequestOK(req[v])'
<1> DEFINE q == [r EXCEPT !.swept = now, !.stale = StaleAt(now)]
<1>1. /\ q \in Request /\ q.op = r.op /\ q.id = r.id /\ q.taken = r.taken
      /\ q.code = "none" /\ q.known = r.known
  BY DEF Request, StaleAt, ActiveIds, LedgerTypeOK, TypeInv, TypeOK
<1>2. Goto(v, q, "flush") /\ UNCHANGED res
  BY DEF SelectStale
<1> HIDE DEF q
<1>3. req'[v].pc = "flush" /\ req'[v].code = "none" /\ SameLocals(req'[v], q)
  BY <1>1, <1>2, GotoFields DEF TypeInv, TypeOK, PCs
<1> QED
  BY <1>1, <1>2, <1>3 DEF RequestOK, FlowOK, NamesOwnRow, CancelsOwnRow, HasCancelled,
     TakenHadHolder, FreeUnlessNew, SameLocals

LEMMA ArriveKeepsRequest ==
    ASSUME TypeInv, NEW v \in Workers, Arrive(v)
    PROVE  RequestOK(req[v])'
<1>1. ASSUME NEW dev \in Devices, NEW tok \in Tokens, NEW s \in Seats \cup {Null},
             BeginReserve(v, dev, tok, s)
      PROVE  RequestOK(req[v])'
  <2> DEFINE r == [NoReq EXCEPT !.op = "reserve", !.dev = dev, !.tok = tok, !.seat = s]
  <2>1. r \in Request /\ r.op = "reserve" /\ r.taken = {} /\ r.code = "none"
        /\ r.known = {}
    BY DEF Request, NoReq, ReqOps, PCs, Codes
  <2>2. \/ Answer(v, r, "TOKEN_NOT_FOUND") \/ Answer(v, r, "TOKEN_EXPIRED")
        \/ Goto(v, r, "sweep")
    BY <1>1 DEF BeginReserve
  <2> HIDE DEF r
  <2>3. /\ SameLocals(req'[v], r)
        /\ \/ req'[v].pc = "reply" /\ req'[v].code \in {"TOKEN_NOT_FOUND", "TOKEN_EXPIRED"}
           \/ req'[v].pc = "sweep" /\ req'[v].code = "none"
    BY <2>1, <2>2, GotoFields, AnswerFields DEF TypeInv, TypeOK, PCs, Codes
  <2> QED
    BY <2>1, <2>3, NothingLearnt DEF FlowOK, SameLocals
<1>2. ASSUME NEW dev \in Devices, NEW id \in ResIds, NEW op \in {"get", "cancel"},
             BeginOwned(v, op, dev, id)
      PROVE  RequestOK(req[v])'
  <2> DEFINE r == [NoReq EXCEPT !.op = op, !.dev = dev, !.id = id]
  <2>1. r \in Request /\ r.op = op /\ r.id = id /\ r.taken = {} /\ r.code = "none"
        /\ r.known = {}
    BY DEF Request, NoReq, ReqOps, PCs, Codes
  <2>2. SelectStale(v, r)
    BY <1>2 DEF BeginOwned
  <2> HIDE DEF r
  <2> QED
    BY <2>1, <2>2, SelectStaleKeepsRequest
<1>3. ASSUME NEW op \in {"seats", "status", "list"}, BeginView(v, op)
      PROVE  RequestOK(req[v])'
  <2> DEFINE r == [NoReq EXCEPT !.op = op, !.round = IF op = "status" THEN 1 ELSE 2,
                                !.known = IF op = "seats" THEN ActiveIds ELSE {}]
  <2>1. /\ r \in Request /\ r.op = op /\ r.taken = {} /\ r.code = "none"
        /\ r.known = IF op = "seats" THEN ActiveIds ELSE {}
    BY ViewRequest DEF NoReq
  <2>2. SelectStale(v, r)
    BY <1>3 DEF BeginView
  <2> HIDE DEF r
  <2> QED
    BY <2>1, <2>2, SelectStaleKeepsRequest DEF ActiveIds
<1> QED
  BY <1>1, <1>2, <1>3 DEF Arrive

LEMMA StepKeepsRequest ==
    ASSUME TypeInv, SweepInv, [Next]_vars, NEW v \in Workers, RequestOK(req[v]), Step(v)
    PROVE  RequestOK(req[v])'
<1> DEFINE r == req[v]
<1>0. /\ r \in Request /\ req \in [Workers -> Request] /\ FlowOK(r)
      /\ r.swept \in Nat /\ now \in Nat /\ r.swept <= now
      /\ \A id \in ResIds : res[id] \in ResRow
  BY DEF TypeInv, TypeOK, SweepInv, SweptBeforeNow, Request, LedgerTypeOK, RequestOK
<1>1. CASE Sweep(v)
  BY <1>0, <1>1, SelectStaleKeepsRequest DEF Sweep, FlowOK, RequestOK, FreeUnlessNew
<1>2. CASE Flush(v)
  <2> DEFINE q == [r EXCEPT !.stale = {}]
  <2>1. /\ q \in Request /\ q.op = r.op /\ q.id = r.id /\ q.taken = r.taken
        /\ q.code = "none" /\ AfterSweep(r.op) \in PCs /\ q.known = r.known
    BY <1>0, <1>2 DEF Flush, FlowOK, Request, AfterSweep, PCs
  <2>2. Goto(v, q, AfterSweep(r.op))
    BY <1>2 DEF Flush
  <2> HIDE DEF q
  <2>3. /\ req'[v].pc = AfterSweep(r.op) /\ req'[v].code = "none"
        /\ SameLocals(req'[v], q)
    BY <1>0, <2>1, <2>2, GotoFields
  <2>4. r.op \in ReqOps
    BY <1>0 DEF Request
  <2>5. FlowOK(req[v])'
    BY <1>0, <1>2, <2>1, <2>3, <2>4 DEF Flush, FlowOK, SameLocals, AfterSweep, ReqOps
  <2>6. \A id \in req'[v].known : res'[id].status # "none"
    <3>1. \A id \in req'[v].known : id \in ResIds /\ res[id].status # "none"
      BY <1>0, <2>1, <2>3 DEF SameLocals, RequestOK, FreeUnlessNew, Request
    <3> QED
      BY <1>2, <3>1, TableEvolution DEF TableEvolves
  <2> QED
    BY <2>3, <2>5, <2>6 DEF RequestOK, NamesOwnRow, CancelsOwnRow, HasCancelled,
       TakenHadHolder, FreeUnlessNew, AfterSweep
<1>3. CASE FindExisting(v)
  <2>1. /\ r.pc = "existing" /\ r.op = "reserve" /\ r.taken = {} /\ r.code = "none"
        /\ r.known = {}
        /\ \A id \in ResIds : [r EXCEPT !.id = id] \in Request
    BY <1>0, <1>3 DEF FindExisting, FlowOK, Request
  <2>2. ASSUME NEW id \in Mine(r), Answer(v, [r EXCEPT !.id = id], "ALREADY_RESERVED")
        PROVE  RequestOK(req[v])'
    <3> DEFINE q == [r EXCEPT !.id = id]
    <3>1. /\ id \in ResIds /\ res[id].status = "active" /\ res[id].token = r.tok
          /\ res[id].expires >= r.swept
      BY <1>0, <2>1 DEF Mine, ActiveIds, SweepInv, SweepComplete, HasSwept
    <3>2. q \in Request /\ q.id = id /\ q.tok = r.tok /\ q.swept = r.swept
          /\ q.op = "reserve" /\ q.taken = {} /\ q.known = {}
      BY <1>0, <2>1, <3>1 DEF Request
    <3> HIDE DEF q
    <3>3. /\ req'[v].pc = "reply" /\ req'[v].code = "ALREADY_RESERVED"
          /\ SameLocals(req'[v], q)
      BY <1>0, <2>2, <3>2, AnswerFields DEF Codes, q
    <3>4. UNCHANGED res
      BY <1>3 DEF FindExisting
    <3> QED
      BY <3>1, <3>2, <3>3, <3>4 DEF RequestOK, FlowOK, NamesOwnRow, CancelsOwnRow,
         HasCancelled, TakenHadHolder, FreeUnlessNew, SameLocals
  <2>3. CASE Goto(v, r, "seat")
    <3>1. SameLocals(req'[v], r) /\ req'[v].pc = "seat" /\ req'[v].code = "none"
      BY <1>0, <2>1, <2>3, GotoFields DEF PCs
    <3> QED
      BY <2>1, <3>1, NothingLearnt DEF FlowOK, SameLocals
  <2> QED
    BY <1>3, <2>2, <2>3 DEF FindExisting
<1>11. CASE FindSeat(v)
  <2> DEFINE q == [r EXCEPT !.made = now]
  <2>1. /\ q \in Request /\ q.op = "reserve" /\ q.taken = {} /\ q.known = {}
        /\ q.code = "none" /\ r.op = "reserve" /\ r.taken = {} /\ r.known = {}
    BY <1>0, <1>11 DEF FindSeat, FlowOK, Request
  <2>2. Answer(v, r, "SEAT_NOT_FOUND") \/ Goto(v, q, "insert")
    BY <1>11 DEF FindSeat
  <2> HIDE DEF q
  <2>3. /\ SameLocals(req'[v], r) \/ SameLocals(req'[v], q)
        /\ \/ req'[v].pc = "reply" /\ req'[v].code = "SEAT_NOT_FOUND"
           \/ req'[v].pc = "insert" /\ req'[v].code = "none"
    BY <1>0, <2>1, <2>2, GotoFields, AnswerFields DEF PCs, Codes
  <2> QED
    BY <2>1, <2>3, NothingLearnt DEF FlowOK, SameLocals
<1>4. CASE Insert(v)
  <2>1. /\ r.op = "reserve" /\ r.taken = {} /\ r.known = {}
        /\ \A id \in ResIds : [r EXCEPT !.id = id] \in Request
    BY <1>0, <1>4 DEF Insert, FlowOK, Request
  <2>2. ASSUME NEW q \in Request, q.op = "reserve", q.taken = {}, q.known = {},
               NEW code \in {"RESERVED", "SEAT_TAKEN"}, Answer(v, q, code)
        PROVE  RequestOK(req[v])'
    <3>1. /\ SameLocals(req'[v], q) /\ req'[v].pc = "reply"
          /\ req'[v].code \in {"RESERVED", "SEAT_TAKEN"}
      BY <1>0, <2>2, AnswerFields DEF Codes
    <3> QED
      BY <2>2, <3>1, NothingLearnt DEF FlowOK, SameLocals
  <2>3. \A id \in ResIds : /\ [r EXCEPT !.id = id].op = "reserve"
                           /\ [r EXCEPT !.id = id].taken = {}
                           /\ [r EXCEPT !.id = id].known = {}
    BY <1>0, <2>1 DEF Request
  <2> QED
    BY <1>0, <1>4, <2>1, <2>2, <2>3 DEF Insert
<1>5. CASE Load(v)
  <2>1. /\ r.op \in {"get", "cancel"} /\ r.taken = {} /\ r.code = "none" /\ r.known = {}
        /\ r.id \in ResIds /\ UNCHANGED res
    BY <1>0, <1>5 DEF Load, FlowOK
  <2>2. /\ SameLocals(req'[v], r)
        /\ \/ req'[v].pc = "reply" /\ req'[v].code \in {"NOT_FOUND", "FORBIDDEN"}
           \/ /\ req'[v].pc = "cancel" /\ req'[v].code = "none" /\ r.op = "cancel"
              /\ res[r.id].status # "none" /\ res[r.id].device = r.dev
           \/ /\ req'[v].pc = "reply" /\ req'[v].code = "OK"
              /\ r.op = "cancel" => res[r.id].status \notin {"none", "active"}
    BY <1>0, <1>5, <2>1, GotoFields, AnswerFields DEF Load, PCs, Codes
  <2>3. res[r.id].status \in {"none", "active", "expired", "cancelled"}
    BY <1>0, <2>1 DEF ResRow
  <2> QED
    BY <2>1, <2>2, <2>3 DEF RequestOK, FlowOK, NamesOwnRow, CancelsOwnRow,
       HasCancelled, TakenHadHolder, FreeUnlessNew, SameLocals
<1>6. CASE CancelOwn(v)
  <2>1. /\ r.op = "cancel" /\ r.taken = {} /\ r.code = "none" /\ r.id \in ResIds
        /\ r.known = {}
    BY <1>0, <1>6 DEF CancelOwn, FlowOK
  <2>2. SameLocals(req'[v], r) /\ req'[v].pc = "reply" /\ req'[v].code = "OK"
    BY <1>0, <1>6, AnswerFields DEF CancelOwn, Codes
  <2>3. res'[r.id].status = "cancelled"
    BY <1>0, <1>6, <2>1 DEF CancelOwn, SetStatus, ResRow
  <2> QED
    BY <2>1, <2>2, <2>3 DEF RequestOK, FlowOK, NamesOwnRow, CancelsOwnRow,
       HasCancelled, TakenHadHolder, FreeUnlessNew, SameLocals
<1>7. \A s \in HeldSeats :
         \E id \in ResIds : /\ res[id].status # "none"
                            /\ res[id].seat = s
                            /\ HasSwept(r) => res[id].expires >= r.swept
  BY DEF HeldSeats, ActiveIds, SweepInv, SweepComplete
<1>8. CASE ReadTaken(v) \/ ListActive(v)
  <2> DEFINE q == [r EXCEPT !.taken = HeldSeats]
  <2>1. /\ q \in Request /\ q.taken = HeldSeats /\ q.op = r.op /\ q.swept = r.swept
        /\ q.id = r.id /\ q.code = "none" /\ HasSwept(r) /\ UNCHANGED res
        /\ q.known = r.known
    BY <1>0, <1>8 DEF ReadTaken, ListActive, FlowOK, Request, HasSwept, HeldSeats,
       TypeInv, SeatsKnown
  <2>2. \/ Goto(v, q, "seats") /\ r.op \in {"seats", "status"}
        \/ Answer(v, q, "OK") /\ r.op = "list"
    BY <1>0, <1>8 DEF ReadTaken, ListActive, FlowOK
  <2> HIDE DEF q
  <2>3. /\ SameLocals(req'[v], q)
        /\ \/ /\ req'[v].pc = "seats" /\ req'[v].code = "none"
              /\ r.op \in {"seats", "status"}
           \/ req'[v].pc = "reply" /\ req'[v].code = "OK" /\ r.op = "list"
    BY <1>0, <2>1, <2>2, GotoFields, AnswerFields DEF PCs, Codes
  <2>4. FreeUnlessNew(req[v])'
    BY <2>1, <2>3 DEF RequestOK, FreeUnlessNew, SameLocals, HeldSeats, ActiveIds
  <2>5. TakenHadHolder(req[v])'
    BY <1>7, <2>1, <2>3 DEF TakenHadHolder, SameLocals
  <2>6. FlowOK(req[v])'
    BY <1>0, <2>1, <2>3 DEF FlowOK, SameLocals
  <2> QED
    BY <2>1, <2>3, <2>4, <2>5, <2>6 DEF RequestOK, NamesOwnRow, CancelsOwnRow,
       HasCancelled, SameLocals
<1>9. CASE ReadSeats(v)
  <2> DEFINE free == {s \in Seats : open[s] /\ s \notin r.taken}
             a    == [r EXCEPT !.avail = free]
             b    == [r EXCEPT !.avail = free, !.round = 2]
  <2>1. /\ r.op \in {"seats", "status"} /\ r.code = "none" /\ r.pc = "seats"
        /\ UNCHANGED res
    BY <1>0, <1>9 DEF ReadSeats, FlowOK
  <2>2. /\ a \in Request /\ a.op = r.op /\ a.taken = r.taken /\ a.swept = r.swept
        /\ a.avail = free /\ a.known = r.known
        /\ b \in Request /\ b.op = r.op /\ b.taken = r.taken /\ b.code = "none"
        /\ b.known = r.known
    BY <1>0, <2>1 DEF Request
  <2>3. \/ Answer(v, a, "OK") /\ r.op = "seats"
        \/ Goto(v, b, "sweep") /\ r.op = "status"
        \/ (\E code \in {"FULL", "NOT_FULL"} : Answer(v, r, code)) /\ r.op = "status"
    BY <1>9 DEF ReadSeats
  <2>4. \A s \in free : s \notin r.taken
    OBVIOUS
  <2> HIDE DEF a, b, free
  <2>5. /\ req'[v].op = r.op /\ req'[v].taken = r.taken /\ req'[v].known = r.known
        /\ \/ /\ req'[v].pc = "reply" /\ req'[v].code = "OK" /\ r.op = "seats"
              /\ req'[v].avail = free /\ req'[v].swept = r.swept
           \/ req'[v].pc = "sweep" /\ req'[v].code = "none" /\ r.op = "status"
           \/ /\ req'[v].pc = "reply" /\ req'[v].code \in {"FULL", "NOT_FULL"}
              /\ r.op = "status" /\ req'[v].swept = r.swept
    BY <1>0, <2>2, <2>3, GotoFields, AnswerFields DEF PCs, Codes, SameLocals
  <2>6. FlowOK(req[v])' /\ NamesOwnRow(req[v])' /\ CancelsOwnRow(req[v])'
        /\ HasCancelled(req[v])'
    BY <1>0, <2>1, <2>5 DEF FlowOK, NamesOwnRow, CancelsOwnRow, HasCancelled
  <2>7. TakenHadHolder(req[v])'
    BY <2>1, <2>5 DEF RequestOK, TakenHadHolder
  <2>8. FreeUnlessNew(req[v])'
    BY <2>1, <2>4, <2>5 DEF RequestOK, FreeUnlessNew, ActiveIds
  <2> QED
    BY <2>6, <2>7, <2>8 DEF RequestOK
<1>10. CASE Deliver(v)
  BY <1>0, <1>10, NothingLearnt DEF Deliver, NoReq, FlowOK
<1> QED
  BY <1>1, <1>2, <1>3, <1>4, <1>5, <1>6, <1>8, <1>9, <1>10, <1>11 DEF Step

LEMMA RequestInvInit == Init => RequestInv
BY DEF Init, NoReq, RequestInv, RequestOK, FlowOK, NamesOwnRow, CancelsOwnRow,
   HasCancelled, TakenHadHolder, FreeUnlessNew

LEMMA RequestInvNext == TypeInv /\ SweepInv /\ RequestInv /\ [Next]_vars => RequestInv'
<1> SUFFICES ASSUME TypeInv, SweepInv, RequestInv, [Next]_vars, NEW v \in Workers
             PROVE  RequestOK(req[v])'
  BY DEF RequestInv
<1>0. RequestOK(req[v])
  BY DEF RequestInv
<1>1. CASE req'[v] = req[v]
  BY <1>0, <1>1, OthersKeepRequest
<1>2. CASE req'[v] = NoReq
  BY <1>2, NothingLearnt DEF NoReq, FlowOK
<1>3. CASE Arrive(v)
  BY <1>3, ArriveKeepsRequest
<1>4. CASE Step(v)
  BY <1>0, <1>4, StepKeepsRequest
<1>5. CASE Fail(v)
  <2> DEFINE q == [NoReq EXCEPT !.op = req[v].op]
  <2>1. q \in Request /\ q.taken = {} /\ q.known = {}
    BY DEF NoReq, Request, PCs, Codes, TypeInv, TypeOK
  <2>2. Answer(v, q, "ERROR")
    BY <1>5 DEF Fail
  <2> HIDE DEF q
  <2>3. req'[v].pc = "reply" /\ req'[v].code = "ERROR" /\ req'[v].taken = {}
        /\ req'[v].avail = {} /\ req'[v].known = {}
    BY <2>1, <2>2, AnswerFields DEF Codes, SameLocals, TypeInv, TypeOK, q, NoReq
  <2> QED
    BY <2>3 DEF RequestOK, FlowOK, NamesOwnRow, CancelsOwnRow, HasCancelled,
       TakenHadHolder, FreeUnlessNew
<1> QED
  BY <1>1, <1>2, <1>3, <1>4, <1>5, OwnSteps

LEMMA RequestInvHolds == Spec => [](TypeInv /\ SweepInv /\ RequestInv)
BY TypeInvInit, TypeInvNext, SweepInvInit, SweepInvNext, RequestInvInit, RequestInvNext,
   PTL DEF Spec

-----------------------------------------------------------------------------
(* What the answers are worth.                                             *)

\* The reservation a client is told it already has is its own and had not
\* lapsed, however many requests, lapses and cancellations came in between.
THEOREM NamedReservationIsOwn == Spec => []AlreadyReservedIsMine
<1>1. RequestInv => AlreadyReservedIsMine
  BY DEF RequestInv, RequestOK, NamesOwnRow, AlreadyReservedIsMine
<1> QED
  BY <1>1, RequestInvHolds, PTL

\* What DELETE has reported as over never comes back: of all writes that may
\* still be in flight none makes a row active again.
THEOREM CancelledStaysOver == Spec => []CancelledIsOver
<1>1. RequestInv => CancelledIsOver
  BY DEF RequestInv, RequestOK, HasCancelled, CancelledIsOver
<1> QED
  BY <1>1, RequestInvHolds, PTL

\* A seat shown as taken was held by somebody whose time was not over.
THEOREM TakenSeatsHadHolders == Spec => []TakenIsNotLapsed
<1>1. RequestInv => TakenIsNotLapsed
  BY DEF RequestInv, RequestOK, TakenHadHolder, TakenIsNotLapsed
<1> QED
  BY <1>1, RequestInvHolds, PTL

\* A seat shown as available is held by nobody but a later comer, although the
\* reservations and the seats are read at different times and rows are dated
\* before they are committed.
THEOREM AvailableSeatsWereFree == Spec => []AvailableWasFree
<1>1. RequestInv => AvailableWasFree
  BY DEF RequestInv, RequestOK, FreeUnlessNew, AvailableWasFree
<1> QED
  BY <1>1, RequestInvHolds, PTL

\* A cancellation is an operator's or a request's whose row is not its device's
\* only if an operator can cancel.
LEMMA CancellationIsOwn ==
    ASSUME TypeInv, RequestInv, [Next]_vars, Ops \cap {"revoke", "release"} = {},
           NEW id \in ResIds, res[id].status = "active", res'[id].status = "cancelled"
    PROVE  \E w \in Workers : /\ req[w].op = "cancel"
                              /\ req[w].id = id
                              /\ req[w].dev = res[id].device
<1> USE DEF TypeInv, TypeOK
<1>1. ASSUME NEW w \in Workers, CancelOwn(w)
      PROVE  req[w].op = "cancel" /\ req[w].id = id /\ req[w].dev = res[id].device
  <2>1. FlowOK(req[w]) /\ CancelsOwnRow(req[w]) /\ req[w].pc = "cancel"
    BY <1>1 DEF CancelOwn, RequestInv, RequestOK
  <2>2. req[w].id = id
    BY <1>1 DEF CancelOwn, SetStatus
  <2> QED
    BY <2>1, <2>2 DEF FlowOK, CancelsOwnRow
<1>2. ASSUME NEW w \in Workers, Flush(w)
      PROVE  FALSE
  BY <1>2 DEF Flush, SetStatus, ResRow
<1>3. ASSUME NEW w \in Workers, Insert(w)
      PROVE  FALSE
  <2>1. ASSUME NEW new \in ResIds, res[new].status = "none",
               \A i \in ResIds : i # new => res'[i] = res[i]
        PROVE  FALSE
    BY <2>1
  <2> QED
    BY <1>3, <2>1 DEF Insert
<1>4. ASSUME NEW w \in Workers, Arrive(w) \/ Step(w) \/ Fail(w),
             ~Insert(w), ~Flush(w), ~CancelOwn(w)
      PROVE  FALSE
  <2>1. UNCHANGED res
    BY <1>4 DEF Arrive, BeginReserve, BeginOwned, BeginView, SelectStale, Step, Sweep,
       FindExisting, FindSeat, Load, ReadTaken, ReadSeats, ListActive, Deliver, Fail
  <2> QED
    BY <2>1
<1>5. CASE Environment
  <2>1. UNCHANGED res
    BY <1>5 DEF Environment, Approval, Operator, AuditPasses, Revoke, ToggleSeat,
       Release, TimePasses, Crash
  <2> QED
    BY <2>1
<1>6. CASE UNCHANGED vars
  BY <1>6 DEF vars
<1> QED
  BY <1>1, <1>2, <1>3, <1>4, <1>5, <1>6, NextCases

\* Where no operator may cancel, a reservation is given up by its own device
\* only, although the owner is compared in one step and the row written in
\* another.
THEOREM OwnerGivesUp == Ops \cap {"revoke", "release"} = {} => (Spec => GivenUpByOwner)
<1> SUFFICES ASSUME Ops \cap {"revoke", "release"} = {}
             PROVE  Spec => GivenUpByOwner
  OBVIOUS
<1> DEFINE Own == \A id \in ResIds :
              res[id].status = "active" /\ res'[id].status = "cancelled" =>
                 \E w \in Workers : /\ req[w].op = "cancel"
                                    /\ req[w].id = id
                                    /\ req[w].dev = res[id].device
<1>1. TypeInv /\ RequestInv /\ [Next]_vars => [Own]_res
  BY CancellationIsOwn
<1> QED
  BY <1>1, RequestInvHolds, PTL DEF Spec, GivenUpByOwner

-----------------------------------------------------------------------------
(* The table implements SeatLease.                                         *)

Leases == [id \in ResIds |-> LeaseOf(res[id])]

LEMMA LeaseUnchanged ==
    ASSUME res' = res, now' = now
    PROVE  UNCHANGED Lease!leaseVars
BY DEF Lease!leaseVars

\* Rows that exist end, whatever they end as: a step of the lease, or none.
LEMMA EndingRows ==
    ASSUME TypeInv, now' = now, NEW ids, NEW status \in {"expired", "cancelled"},
           \A id \in ids \cap ResIds : res[id].status # "none", SetStatus(ids, status)
    PROVE  \E S \in SUBSET ResIds : Lease!End(S)
<1> DEFINE S == ids \cap ActiveIds
<1>1. S \in SUBSET ResIds
  BY DEF ActiveIds
<1>2. \A id \in S : Leases[id].state = "held"
  BY DEF Leases, LeaseOf, ActiveIds
<1>3. ASSUME NEW id \in ResIds
      PROVE  LeaseOf(res[id])' = IF id \in S THEN [LeaseOf(res[id]) EXCEPT !.state = "ended"]
                                             ELSE LeaseOf(res[id])
  <2>1. CASE id \in S
    BY <2>1 DEF SetStatus, ActiveIds, LeaseOf, ResRow, TypeInv, TypeOK
  <2>2. CASE id \notin S /\ id \in ids
    BY <2>2 DEF SetStatus, ActiveIds, LeaseOf, ResRow, TypeInv, TypeOK
  <2>3. CASE id \notin ids
    BY <2>3 DEF SetStatus, LeaseOf
  <2> QED
    BY <2>1, <2>2, <2>3
<1>4. Lease!End(S)
  BY <1>1, <1>2, <1>3 DEF Lease!End, Leases
<1> QED
  BY <1>1, <1>4

\* The INSERT grants a lease: the unique index is the lease's precondition.
LEMMA InsertingRow ==
    ASSUME TypeInv, NEW w \in Workers, Insert(w)
    PROVE  UNCHANGED Lease!leaseVars \/ \E id \in ResIds, s \in Seats, date \in 0..now :
                                           Lease!Grant(id, s, date)
<1>2. /\ req[w].seat \in Seats
      /\ now <= req[w].made + InsertDelay
      /\ req[w].made \in 0..now
  BY DEF Insert, TypeInv, TypeOK, SeatsKnown, Ready, Request, LedgerTypeOK
<1>1. ASSUME NEW new \in ResIds, res[new].status = "none", SeatFree(req[w].seat),
             now' = now,
             res' = [res EXCEPT ![new] =
                   [status |-> "active", seat |-> req[w].seat, token |-> req[w].tok,
                    device |-> req[w].dev, expires |-> req[w].made + ReservationTTL]]
      PROVE  Lease!Grant(new, req[w].seat, req[w].made)
  <2>1. Leases[new].state = "none"
    BY <1>1 DEF Leases, LeaseOf
  <2>2. {id \in ResIds : Leases[id].state = "held" /\ Leases[id].seat = req[w].seat} = {}
    BY <1>1 DEF Leases, LeaseOf, SeatFree, HeldSeats, ActiveIds
  <2>3. ASSUME NEW id \in ResIds
        PROVE  LeaseOf(res[id])' =
                 IF id = new THEN [state |-> "held", seat |-> req[w].seat,
                                   until |-> req[w].made + ReservationTTL]
                             ELSE LeaseOf(res[id])
    <3>1. CASE id = new
      <4>1. res'[id] = [status |-> "active", seat |-> req[w].seat, token |-> req[w].tok,
                        device |-> req[w].dev, expires |-> req[w].made + ReservationTTL]
        BY <1>1, <3>1 DEF TypeInv, TypeOK
      <4> QED
        BY <3>1, <4>1 DEF LeaseOf
    <3>2. CASE id # new
      <4>1. res'[id] = res[id]
        BY <1>1, <3>2 DEF TypeInv, TypeOK
      <4> QED
        BY <3>2, <4>1 DEF LeaseOf
    <3> QED
      BY <3>1, <3>2
  <2> QED
    BY <1>1, <1>2, <2>1, <2>2, <2>3 DEF Lease!Grant, Lease!Holders, Leases
<1> QED
  BY <1>1, <1>2, LeaseUnchanged DEF Insert

LEMMA LeaseStep ==
    ASSUME TypeInv, SweepInv, RequestInv, [Next]_vars
    PROVE  [Lease!Next]_(Lease!leaseVars)
<1>1. ASSUME NEW w \in Workers, Insert(w)
      PROVE  [Lease!Next]_(Lease!leaseVars)
  BY <1>1, InsertingRow DEF Lease!Next
<1>2. ASSUME NEW w \in Workers, Flush(w)
      PROVE  [Lease!Next]_(Lease!leaseVars)
  <2>1. /\ now' = now /\ SetStatus(req[w].stale, "expired")
        /\ \A id \in req[w].stale \cap ResIds : res[id].status # "none"
    BY <1>2 DEF Flush, SweepInv, StaleIsLapsed
  <2> QED
    BY <2>1, EndingRows DEF Lease!Next
<1>3. ASSUME NEW w \in Workers, CancelOwn(w)
      PROVE  [Lease!Next]_(Lease!leaseVars)
  <2>1. /\ now' = now /\ SetStatus({req[w].id}, "cancelled")
        /\ \A id \in {req[w].id} \cap ResIds : res[id].status # "none"
    BY <1>3 DEF CancelOwn, RequestInv, RequestOK, CancelsOwnRow
  <2> QED
    BY <2>1, EndingRows DEF Lease!Next
<1>4. ASSUME NEW w \in Workers, Arrive(w) \/ Step(w) \/ Fail(w),
             ~Insert(w), ~Flush(w), ~CancelOwn(w)
      PROVE  [Lease!Next]_(Lease!leaseVars)
  <2>1. UNCHANGED <<now, res>>
    BY <1>4 DEF Arrive, BeginReserve, BeginOwned, BeginView, SelectStale, Step, Sweep,
       FindExisting, FindSeat, Load, ReadTaken, ReadSeats, ListActive, Deliver, Fail
  <2> QED
    BY <2>1, LeaseUnchanged
<1>5. ASSUME NEW tok \in Tokens, Revoke(tok)
      PROVE  [Lease!Next]_(Lease!leaseVars)
  <2>1. /\ now' = now /\ SetStatus({id \in ActiveIds : res[id].token = tok}, "cancelled")
        /\ \A id \in {i \in ActiveIds : res[i].token = tok} \cap ResIds :
              res[id].status # "none"
    BY <1>5 DEF Revoke, RevokeToken, ActiveIds
  <2> QED
    BY <2>1, EndingRows DEF Lease!Next
<1>6. ASSUME NEW id \in ResIds, Release(id)
      PROVE  [Lease!Next]_(Lease!leaseVars)
  <2>1. /\ now' = now /\ SetStatus({id}, "cancelled")
        /\ \A i \in {id} \cap ResIds : res[i].status # "none"
    BY <1>6 DEF Release, ActiveIds
  <2> QED
    BY <2>1, EndingRows DEF Lease!Next
<1>7. CASE TimePasses
  BY <1>7 DEF TimePasses, Tick, Lease!Next, Lease!Advance
<1>8. ASSUME \/ \E tok \in Tokens, dev \in Devices, t \in 0..now, flagged \in BOOLEAN :
                   Approval(tok, dev, KstDay(t), flagged)
             \/ \E tok \in Tokens : AuditPasses(tok)
             \/ \E s \in Seats, isOpen \in BOOLEAN : ToggleSeat(s, isOpen)
             \/ Crash
             \/ UNCHANGED vars
      PROVE  [Lease!Next]_(Lease!leaseVars)
  <2>1. UNCHANGED <<now, res>>
    BY <1>8 DEF Approval, Approve, AuditPasses, AuditOk, ToggleSeat, Crash, vars
  <2> QED
    BY <2>1, LeaseUnchanged
<1> QED
  BY <1>1, <1>2, <1>3, <1>4, <1>5, <1>6, <1>7, <1>8, NextCases DEF Environment, Operator

\* The reservations table implements SeatLease: through every interleaving a
\* seat is leased only while it is free, for ReservationTTL from its date,
\* and a lease that has ended stays ended.
THEOREM TableIsSeatLease == Spec => ImplementsSeatLease
<1>1. Init => Lease!Init
  BY DEF Init, LedgerInit, NoRow, LeaseOf, Lease!Init, Lease!NoLease
<1>2. TypeInv /\ SweepInv /\ RequestInv /\ [Next]_vars => [Lease!Next]_(Lease!leaseVars)
  BY LeaseStep
<1> QED
  BY <1>1, <1>2, RequestInvHolds, PTL DEF Spec, ImplementsSeatLease, Lease!Spec

-----------------------------------------------------------------------------
(* Reservations and revocations of one token that do not overlap: anything  *)
(* else may, reservations of other tokens included.                         *)

\* A reservation on its way to the INSERT.
Reserving(r) == r.op = "reserve" /\ r.pc # "reply"

\* A token is reserved with by one request at a time.
ReservedAlone ==
    \A v, w \in Workers : /\ Reserving(req[v]) /\ Reserving(req[w])
                          /\ req[v].tok = req[w].tok
                          => v = w

\* Its token is still approved, from the check to the INSERT.
TokenStillGood(r) ==
    Reserving(r) => r.tok \in Tokens /\ verifs[r.tok].status = "approved"

\* The token still has no reservation.
TokenStillFree(r) == r.pc \in {"seat", "insert"} => Mine(r) = {}

TokenTable ==
    /\ \A id \in ActiveIds : res[id].token \in Tokens
    /\ TokenHoldsOne
    /\ RevokedHoldsNothing

TokenInv ==
    /\ TokenTable
    /\ ReservedAlone
    /\ \A w \in Workers : TokenStillGood(req[w]) /\ TokenStillFree(req[w])

\* A request is no reservation, or goes on with its token and gets to the seat
\* only over the look for the token's reservation, or has just begun.
ReserveEvolves(v) ==
    \/ ~Reserving(req'[v])
    \/ /\ Reserving(req[v]) /\ req'[v].tok = req[v].tok
       /\ req'[v].pc \in {"seat", "insert"} =>
             req[v].pc \in {"seat", "insert"} \/ Mine(req[v]) = {}
    \/ /\ req'[v].tok \in Tokens /\ Usable(req'[v].tok) /\ MayStart(req'[v].tok)
       /\ req'[v].pc = "sweep"
       /\ \A u \in Workers : u # v => req'[u] = req[u]
       /\ UNCHANGED verifs

LEMMA SelectStaleReserves ==
    ASSUME TypeInv, NEW v \in Workers, NEW r \in Request, SelectStale(v, r)
    PROVE  req'[v].op = r.op /\ req'[v].tok = r.tok /\ req'[v].pc = "flush"
<1> DEFINE q == [r EXCEPT !.swept = now, !.stale = StaleAt(now)]
<1>1. q \in Request /\ q.op = r.op /\ q.tok = r.tok
  BY DEF Request, StaleAt, ActiveIds, LedgerTypeOK, TypeInv, TypeOK
<1>2. Goto(v, q, "flush")
  BY DEF SelectStale
<1> HIDE DEF q
<1> QED
  BY <1>1, <1>2, GotoFields DEF TypeInv, TypeOK, PCs, SameLocals

LEMMA ArriveReserves ==
    ASSUME TypeInv, NEW v \in Workers, Arrive(v)
    PROVE  ReserveEvolves(v)
<1>1. ASSUME NEW dev \in Devices, NEW tok \in Tokens, NEW s \in Seats \cup {Null},
             BeginReserve(v, dev, tok, s)
      PROVE  ReserveEvolves(v)
  <2> DEFINE r == [NoReq EXCEPT !.op = "reserve", !.dev = dev, !.tok = tok, !.seat = s]
  <2>1. r \in Request /\ r.tok = tok
    BY NullRequest DEF Request, NoReq, ReqOps
  <2>2. /\ MayStart(tok) /\ UNCHANGED verifs
        /\ \/ Answer(v, r, "TOKEN_NOT_FOUND") \/ Answer(v, r, "TOKEN_EXPIRED")
           \/ Goto(v, r, "sweep") /\ Usable(tok)
    BY <1>1 DEF BeginReserve
  <2> HIDE DEF r
  <2>3. \/ req'[v].pc = "reply"
        \/ /\ req'[v].pc = "sweep" /\ req'[v].tok = tok /\ Usable(tok)
           /\ \A u \in Workers : u # v => req'[u] = req[u]
    BY <2>1, <2>2, GotoFields, AnswerFields DEF TypeInv, TypeOK, PCs, Codes, SameLocals
  <2> QED
    BY <2>2, <2>3 DEF ReserveEvolves, Reserving
<1>2. ASSUME NEW dev \in Devices, NEW id \in ResIds, NEW op \in {"get", "cancel"},
             BeginOwned(v, op, dev, id)
      PROVE  ReserveEvolves(v)
  <2> DEFINE r == [NoReq EXCEPT !.op = op, !.dev = dev, !.id = id]
  <2>1. r \in Request /\ r.op = op
    BY NullRequest DEF Request, NoReq, ReqOps
  <2>2. SelectStale(v, r)
    BY <1>2 DEF BeginOwned
  <2> HIDE DEF r
  <2> QED
    BY <2>1, <2>2, SelectStaleReserves DEF ReserveEvolves, Reserving
<1>3. ASSUME NEW op \in {"seats", "status", "list"}, BeginView(v, op)
      PROVE  ReserveEvolves(v)
  <2> DEFINE r == [NoReq EXCEPT !.op = op, !.round = IF op = "status" THEN 1 ELSE 2,
                                !.known = IF op = "seats" THEN ActiveIds ELSE {}]
  <2>1. r \in Request /\ r.op = op
    BY ViewRequest DEF NoReq
  <2>2. SelectStale(v, r)
    BY <1>3 DEF BeginView
  <2> HIDE DEF r
  <2> QED
    BY <2>1, <2>2, SelectStaleReserves DEF ReserveEvolves, Reserving
<1> QED
  BY <1>1, <1>2, <1>3 DEF Arrive

LEMMA StepReserves ==
    ASSUME TypeInv, RequestInv, NEW v \in Workers, Step(v)
    PROVE  ReserveEvolves(v)
<1> DEFINE r == req[v]
<1>0. r \in Request /\ req \in [Workers -> Request] /\ FlowOK(r)
  BY DEF TypeInv, TypeOK, RequestInv, RequestOK
<1>1. CASE Sweep(v)
  BY <1>0, <1>1, SelectStaleReserves DEF Sweep, ReserveEvolves, Reserving
<1>2. CASE Flush(v)
  <2> DEFINE q == [r EXCEPT !.stale = {}]
  <2>1. /\ q \in Request /\ q.op = r.op /\ q.tok = r.tok
        /\ AfterSweep(r.op) \in PCs \ {"seat", "insert"}
    BY <1>0 DEF Request, AfterSweep, PCs
  <2>2. Goto(v, q, AfterSweep(r.op)) /\ r.pc = "flush"
    BY <1>2 DEF Flush
  <2> HIDE DEF q
  <2> QED
    BY <1>0, <2>1, <2>2, GotoFields DEF ReserveEvolves, Reserving, SameLocals
<1>3. CASE FindExisting(v)
  <2>1. \A id \in Mine(r) : [r EXCEPT !.id = id] \in Request
    BY <1>0 DEF Mine, ActiveIds, Request
  <2>2. \/ req'[v].pc = "reply"
        \/ SameLocals(req'[v], r) /\ Mine(r) = {} /\ r.pc = "existing"
    BY <1>0, <1>3, <2>1, GotoFields, AnswerFields DEF FindExisting, PCs, Codes
  <2> QED
    BY <2>2 DEF ReserveEvolves, Reserving, SameLocals
<1>4. CASE FindSeat(v)
  <2> DEFINE q == [r EXCEPT !.made = now]
  <2>1. q \in Request /\ q.op = r.op /\ q.tok = r.tok
    BY <1>0 DEF Request, TypeInv, TypeOK, LedgerTypeOK
  <2>2. /\ r.pc = "seat"
        /\ Answer(v, r, "SEAT_NOT_FOUND") \/ Goto(v, q, "insert")
    BY <1>4 DEF FindSeat
  <2> HIDE DEF q
  <2>3. req'[v].pc = "reply" \/ (req'[v].op = r.op /\ req'[v].tok = r.tok)
    BY <1>0, <2>1, <2>2, GotoFields, AnswerFields DEF PCs, Codes, SameLocals
  <2> QED
    BY <2>2, <2>3 DEF ReserveEvolves, Reserving
<1>5. CASE Insert(v)
  <2>1. \A id \in ResIds : [r EXCEPT !.id = id] \in Request
    BY <1>0 DEF Request
  <2> QED
    BY <1>0, <1>5, <2>1, AnswerFields DEF Insert, Codes, ReserveEvolves, Reserving
<1>6. CASE Load(v) \/ CancelOwn(v)
  <2>1. r.op # "reserve" /\ (req'[v].pc = "reply" \/ req'[v].op = r.op)
    BY <1>0, <1>6, GotoFields, AnswerFields
       DEF Load, CancelOwn, FlowOK, PCs, Codes, SameLocals
  <2> QED
    BY <2>1 DEF ReserveEvolves, Reserving
<1>7. CASE ReadTaken(v) \/ ListActive(v)
  <2> DEFINE q == [r EXCEPT !.taken = HeldSeats]
  <2>1. q \in Request /\ q.op = r.op /\ r.op # "reserve"
    BY <1>0, <1>7 DEF ReadTaken, ListActive, FlowOK, Request, HeldSeats, TypeInv, SeatsKnown
  <2>2. Goto(v, q, "seats") \/ Answer(v, q, "OK")
    BY <1>7 DEF ReadTaken, ListActive
  <2> HIDE DEF q
  <2> QED
    BY <1>0, <2>1, <2>2, GotoFields, AnswerFields
       DEF PCs, Codes, SameLocals, ReserveEvolves, Reserving
<1>8. CASE ReadSeats(v)
  <2> DEFINE free == {s \in Seats : open[s] /\ s \notin r.taken}
             a    == [r EXCEPT !.avail = free]
             b    == [r EXCEPT !.avail = free, !.round = 2]
  <2>1. a \in Request /\ b \in Request /\ b.op = r.op /\ r.op # "reserve"
    BY <1>0, <1>8 DEF ReadSeats, FlowOK, Request
  <2>2. \/ Answer(v, a, "OK") \/ Goto(v, b, "sweep")
        \/ \E code \in {"FULL", "NOT_FULL"} : Answer(v, r, code)
    BY <1>8 DEF ReadSeats
  <2> HIDE DEF a, b, free
  <2> QED
    BY <1>0, <2>1, <2>2, GotoFields, AnswerFields
       DEF PCs, Codes, SameLocals, ReserveEvolves, Reserving
<1>9. CASE Deliver(v)
  BY <1>0, <1>9 DEF Deliver, NoReq, ReserveEvolves, Reserving
<1> QED
  BY <1>1, <1>2, <1>3, <1>4, <1>5, <1>6, <1>7, <1>8, <1>9 DEF Step

LEMMA ReserveEvolution ==
    ASSUME TypeInv, RequestInv, [Next]_vars, NEW v \in Workers
    PROVE  ReserveEvolves(v)
<1>1. CASE req'[v] = req[v]
  BY <1>1 DEF ReserveEvolves
<1>2. CASE req'[v] = NoReq
  BY <1>2 DEF ReserveEvolves, Reserving, NoReq
<1>3. CASE Fail(v)
  <2>1. [NoReq EXCEPT !.op = req[v].op] \in Request
    BY NullRequest DEF Request, TypeInv, TypeOK
  <2> QED
    BY <1>3, <2>1, AnswerFields DEF Fail, Codes, TypeInv, TypeOK, ReserveEvolves, Reserving
<1> QED
  BY <1>1, <1>2, <1>3, ArriveReserves, StepReserves, OwnSteps

\* Approvals are withdrawn by revocations only, which take the rows along.
LEMMA ApprovalsEvolve ==
    ASSUME TypeInv, [Next]_vars, NEW tok \in Tokens, verifs[tok].status = "approved"
    PROVE  verifs'[tok].status = "approved" \/ Revoke(tok)
<1>0. verifs \in [Tokens -> VerifRow]
  BY DEF TypeInv, TypeOK, LedgerTypeOK
<1>1. CASE \E w \in Workers : Arrive(w) \/ Step(w) \/ Fail(w)
  <2>1. UNCHANGED verifs
    BY <1>1 DEF Arrive, BeginReserve, BeginOwned, BeginView, SelectStale, Step, Sweep, Flush,
       FindExisting, FindSeat, Insert, Load, CancelOwn, ReadTaken, ReadSeats, ListActive,
       Deliver, Fail
  <2> QED
    BY <2>1
<1>2. ASSUME NEW t \in Tokens, NEW dev \in Devices, NEW day, NEW flagged,
             Approval(t, dev, day, flagged)
      PROVE  verifs'[tok].status = "approved"
  BY <1>0, <1>2 DEF Approval, Approve
<1>3. ASSUME NEW t \in Tokens, AuditPasses(t)
      PROVE  verifs'[tok].status = "approved"
  BY <1>0, <1>3 DEF AuditPasses, AuditOk, VerifRow
<1>4. ASSUME NEW t \in Tokens, Revoke(t), t # tok
      PROVE  verifs'[tok].status = "approved"
  BY <1>0, <1>4 DEF Revoke, RevokeToken
<1>5. ASSUME \/ \E s \in Seats, isOpen \in BOOLEAN : ToggleSeat(s, isOpen)
             \/ \E id \in ResIds : Release(id)
             \/ TimePasses \/ Crash \/ UNCHANGED vars
      PROVE  verifs'[tok].status = "approved"
  BY <1>5 DEF ToggleSeat, Release, TimePasses, Tick, Crash, vars
<1> QED
  BY <1>1, <1>2, <1>3, <1>4, <1>5, NextCases DEF Environment, Operator

\* Active rows come from an INSERT, and keep their token.
LEMMA ActiveEvolution ==
    ASSUME TypeInv, [Next]_vars, NEW id \in ActiveIds'
    PROVE  \/ id \in ActiveIds /\ res'[id].token = res[id].token
           \/ \E w \in Workers : /\ Insert(w) /\ res'[id].token = req[w].tok
                                 /\ \A i \in ResIds : i # id => res'[i] = res[i]
<1>1. CASE UNCHANGED res
  BY <1>1 DEF ActiveIds
<1>2. ASSUME NEW ids, NEW status \in {"expired", "cancelled"}, SetStatus(ids, status)
      PROVE  id \in ActiveIds /\ res'[id].token = res[id].token
  BY <1>2, SetStatusKeeps DEF ActiveIds
<1>3. ASSUME NEW w \in Workers, Insert(w), ~UNCHANGED res
      PROVE  \/ id \in ActiveIds /\ res'[id].token = res[id].token
             \/ /\ res'[id].token = req[w].tok
                /\ \A i \in ResIds : i # id => res'[i] = res[i]
  <2>1. PICK new \in ResIds :
            res' = [res EXCEPT ![new] =
                   [status |-> "active", seat |-> req[w].seat, token |-> req[w].tok,
                    device |-> req[w].dev, expires |-> req[w].made + ReservationTTL]]
    BY <1>3 DEF Insert
  <2>2. res \in [ResIds -> ResRow] /\ id \in ResIds
    BY DEF TypeInv, TypeOK, ActiveIds
  <2>3. CASE id = new
    <3>1. res'[id] = [status |-> "active", seat |-> req[w].seat, token |-> req[w].tok,
                      device |-> req[w].dev, expires |-> req[w].made + ReservationTTL]
      BY <2>1, <2>2, <2>3
    <3>2. \A i \in ResIds : i # id => res'[i] = res[i]
      BY <2>1, <2>2, <2>3
    <3> QED
      BY <3>1, <3>2
  <2>4. CASE id # new
    BY <2>1, <2>2, <2>4 DEF ActiveIds
  <2> QED
    BY <2>3, <2>4
<1>4. ASSUME NEW w \in Workers, Arrive(w) \/ Step(w) \/ Fail(w), ~Insert(w)
      PROVE  UNCHANGED res \/ SetStatus(req[w].stale, "expired")
                           \/ SetStatus({req[w].id}, "cancelled")
  BY <1>4 DEF Arrive, BeginReserve, BeginOwned, BeginView, SelectStale, Step, Sweep,
     Flush, FindExisting, FindSeat, Load, CancelOwn, ReadTaken, ReadSeats, ListActive,
     Deliver, Fail
<1>5. CASE Environment
  BY <1>1, <1>2, <1>5, EnvironmentEffect
<1>6. CASE UNCHANGED vars
  BY <1>1, <1>6 DEF vars
<1> QED
  BY <1>1, <1>2, <1>3, <1>4, <1>5, <1>6, NextCases

LEMMA TokenInvInit == Init => TokenInv
BY DEF Init, NoReq, NoRow, TokenInv, TokenTable, ReservedAlone, Reserving, TokenStillGood,
   TokenStillFree, TokenHoldsOne, RevokedHoldsNothing, ActiveIds

LEMMA TokenInvNext ==
    ASSUME "overlap" \notin Ops
    PROVE  TypeInv /\ SweepInv /\ RequestInv /\ TokenInv /\ [Next]_vars => TokenInv'
<1> SUFFICES ASSUME TypeInv, SweepInv, RequestInv, TokenInv, [Next]_vars PROVE TokenInv'
  OBVIOUS
<1>0. /\ \A v \in Workers : ReserveEvolves(v) /\ FlowOK(req[v])
      /\ \A v \in Workers : TokenStillGood(req[v]) /\ TokenStillFree(req[v])
      /\ TokenTable /\ ReservedAlone
  BY ReserveEvolution DEF TokenInv, RequestInv, RequestOK
<1>1. ASSUME NEW tok, MayStart(tok), NEW v \in Workers, Reserving(req[v])
      PROVE  req[v].tok # tok
  BY <1>1 DEF MayStart, UnderWay, Reserving
\* The INSERT of a request: it is a reservation with a good and free token.
<1>2. ASSUME NEW w \in Workers, Insert(w)
      PROVE  /\ Reserving(req[w]) /\ Mine(req[w]) = {} /\ req'[w].pc = "reply"
             /\ req[w].tok \in Tokens /\ verifs'[req[w].tok].status = "approved"
  <2>1. req[w].pc = "insert" /\ UNCHANGED verifs
    BY <1>2 DEF Insert
  <2>2. Reserving(req[w])
    BY <1>0, <2>1 DEF FlowOK, Reserving
  <2>3. \A id \in ResIds : [req[w] EXCEPT !.id = id] \in Request
    BY DEF TypeInv, TypeOK, Request
  <2>4. req'[w].pc = "reply"
    BY <1>2, <2>3, AnswerFields DEF Insert, Codes, TypeInv, TypeOK
  <2> QED
    BY <1>0, <2>1, <2>2, <2>4 DEF TokenStillGood, TokenStillFree
<1>3. ReservedAlone'
  <2> SUFFICES ASSUME NEW v \in Workers, NEW w \in Workers, v # w,
                      Reserving(req'[v]), Reserving(req'[w]), req'[v].tok = req'[w].tok
               PROVE  FALSE
    BY DEF ReservedAlone, Reserving
  <2>1. ASSUME NEW a \in Workers, NEW b \in Workers, a # b, MayStart(req'[a].tok),
               \A u \in Workers : u # a => req'[u] = req[u],
               Reserving(req'[b]), req'[a].tok = req'[b].tok
        PROVE  FALSE
    BY <1>1, <2>1
  <2> QED
    BY <1>0, <2>1 DEF ReserveEvolves, ReservedAlone
<1>4. ASSUME NEW v \in Workers
      PROVE  TokenStillGood(req[v])'
  <2> SUFFICES ASSUME Reserving(req'[v])
               PROVE  req'[v].tok \in Tokens /\ verifs'[req'[v].tok].status = "approved"
    BY DEF TokenStillGood, Reserving
  <2>1. CASE Reserving(req[v]) /\ req'[v].tok = req[v].tok
    <3>1. req[v].tok \in Tokens /\ verifs[req[v].tok].status = "approved"
      BY <1>0, <2>1 DEF TokenStillGood
    <3>2. ~Revoke(req[v].tok)
      BY <1>1, <2>1 DEF Revoke
    <3> QED
      BY <2>1, <3>1, <3>2, ApprovalsEvolve
  <2>2. CASE req'[v].tok \in Tokens /\ Usable(req'[v].tok) /\ UNCHANGED verifs
    BY <2>2 DEF Usable
  <2> QED
    BY <1>0, <2>1, <2>2 DEF ReserveEvolves
<1>5. ASSUME NEW v \in Workers
      PROVE  TokenStillFree(req[v])'
  <2> SUFFICES ASSUME req'[v].pc \in {"seat", "insert"}, NEW id \in ActiveIds',
                      res'[id].token = req'[v].tok
               PROVE  FALSE
    BY DEF TokenStillFree, Mine
  <2>1. Reserving(req'[v])
    <3>1. FlowOK(req'[v])
      BY RequestInvNext DEF RequestInv, RequestOK, FlowOK
    <3> QED
      BY <3>1 DEF FlowOK, Reserving
  <2>2. /\ Reserving(req[v]) /\ req'[v].tok = req[v].tok
        /\ req[v].pc \in {"seat", "insert"} \/ Mine(req[v]) = {}
    BY <1>0, <2>1 DEF ReserveEvolves
  <2>3. Mine(req[v]) = {}
    BY <1>0, <2>2 DEF TokenStillFree
  <2>4. CASE id \in ActiveIds /\ res'[id].token = res[id].token
    BY <2>2, <2>3, <2>4 DEF Mine
  <2>5. ASSUME NEW w \in Workers, Insert(w), res'[id].token = req[w].tok
        PROVE  FALSE
    <3>1. w = v
      BY <1>0, <1>2, <2>2, <2>5 DEF ReservedAlone
    <3> QED
      BY <1>2, <2>5, <3>1
  <2> QED
    BY <2>4, <2>5, ActiveEvolution
<1>6. TokenTable'
  <2>1. ASSUME NEW id \in ActiveIds'
        PROVE  /\ res'[id].token \in Tokens
               /\ verifs'[res'[id].token].status = "approved"
    <3>1. CASE id \in ActiveIds /\ res'[id].token = res[id].token
      <4>1. /\ res[id].token \in Tokens
            /\ verifs[res[id].token].status = "approved"
        BY <1>0, <3>1 DEF TokenTable, RevokedHoldsNothing
      <4>2. ~Revoke(res[id].token)
        BY <2>1, <3>1 DEF Revoke, SetStatus, ActiveIds, TypeInv, TypeOK, ResRow
      <4> QED
        BY <3>1, <4>1, <4>2, ApprovalsEvolve
    <3>2. CASE \E w \in Workers : Insert(w) /\ res'[id].token = req[w].tok
      BY <1>2, <3>2
    <3> QED
      BY <2>1, <3>1, <3>2, ActiveEvolution
  <2>2. ASSUME NEW a \in ActiveIds', NEW b \in ActiveIds', a # b,
               res'[a].token = res'[b].token
        PROVE  FALSE
    <3>0. a \in ResIds /\ b \in ResIds
      BY DEF ActiveIds
    <3>1. ASSUME NEW i \in ActiveIds', NEW j \in ActiveIds', i # j,
                 res'[i].token = res'[j].token, NEW w \in Workers,
                 Insert(w), res'[i].token = req[w].tok,
                 \A k \in ResIds : k # i => res'[k] = res[k]
          PROVE  FALSE
      <4>1. j \in ActiveIds /\ res[j].token = req[w].tok
        BY <3>1 DEF ActiveIds
      <4> QED
        BY <1>2, <3>1, <4>1 DEF Mine
    <3>2. \/ a \in ActiveIds /\ res'[a].token = res[a].token
          \/ \E w \in Workers : /\ Insert(w) /\ res'[a].token = req[w].tok
                                /\ \A i \in ResIds : i # a => res'[i] = res[i]
      BY ActiveEvolution
    <3>3. \/ b \in ActiveIds /\ res'[b].token = res[b].token
          \/ \E w \in Workers : /\ Insert(w) /\ res'[b].token = req[w].tok
                                /\ \A i \in ResIds : i # b => res'[i] = res[i]
      BY ActiveEvolution
    <3>4. CASE /\ a \in ActiveIds /\ res'[a].token = res[a].token
               /\ b \in ActiveIds /\ res'[b].token = res[b].token
      BY <1>0, <2>2, <3>4 DEF TokenTable, TokenHoldsOne
    <3> QED
      BY <2>2, <3>1, <3>2, <3>3, <3>4
  <2> QED
    BY <2>1, <2>2 DEF TokenTable, TokenHoldsOne, RevokedHoldsNothing
<1> QED
  BY <1>3, <1>4, <1>5, <1>6 DEF TokenInv

LEMMA TokenInvHolds ==
    ASSUME "overlap" \notin Ops
    PROVE  Spec => []TokenInv
BY RequestInvHolds, TokenInvInit, TokenInvNext, PTL DEF Spec

-----------------------------------------------------------------------------
(* What the documents promise of a token.                                  *)

\* D-08: one active reservation for a token, whatever requests of other tokens,
\* sweeps, cancellations and releases come between the look for the token's
\* reservation and the INSERT, as long as no second reservation of it does.
THEOREM ApartTokenHoldsOne == "overlap" \notin Ops => (Spec => []TokenHoldsOne)
<1> SUFFICES ASSUME "overlap" \notin Ops PROVE Spec => []TokenHoldsOne
  OBVIOUS
<1>1. TokenInv => TokenHoldsOne
  BY DEF TokenInv, TokenTable
<1> QED
  BY <1>1, TokenInvHolds, PTL

\* VF-504: a revoked approval holds no seat, unless it is revoked in the middle
\* of a reservation of its token.
THEOREM ApartRevokedHoldsNothing == "overlap" \notin Ops => (Spec => []RevokedHoldsNothing)
<1> SUFFICES ASSUME "overlap" \notin Ops PROVE Spec => []RevokedHoldsNothing
  OBVIOUS
<1>1. TokenInv => RevokedHoldsNothing
  BY DEF TokenInv, TokenTable
<1> QED
  BY <1>1, TokenInvHolds, PTL

=============================================================================
