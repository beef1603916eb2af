----------------------------- MODULE DeskProofs -----------------------------
(***************************************************************************)
(* Theorems about Desk, for every number of sessions, workers, rows, ticks *)
(* and versions.                                                           *)
(***************************************************************************)
EXTENDS Desk, TLAPS

-----------------------------------------------------------------------------
(* The inductive invariant.                                                *)

\* A session is in memory from its login until it is pruned, which only ends
\* what was over, or wiped out.
SessionsKept ==
    \A t \in Sessions :
        /\ sessions[t] # Null => /\ issued[t] # Null /\ t \notin lost
                                 /\ sessions[t] = issued[t] + SessionTTL
        /\ issued[t] # Null /\ t \notin lost /\ now < issued[t] + SessionTTL
              => sessions[t] # Null
        /\ t \in lost => issued[t] # Null

\* The values that r asks for in columns C have been in force since r arrived.
InForce(r, C) ==
    \A c \in C : \E n \in r.from..Len(log[r.id]) :
        n > 0 /\ log[r.id][n][c] = r.patch[c]

\* What a request knows of its row.
RequestOK(r) ==
    /\ r.pc # "idle" => r.id \in RowIds
    /\ r.pc # "reply" => r.code = "none"
    /\ r.pc \in {"load", "write"} => r.from <= Len(log[r.id])
    /\ r.pc = "write" => /\ Exists(r.id) /\ r.changed \subseteq Asked(r.patch)
                         /\ InForce(r, Asked(r.patch) \ r.changed)
    /\ r.pc \in {"look", "insert"} => r.patch \in Row
    /\ r.code = "OK" => InForce(r, Asked(r.patch))
    /\ r.code = "CREATED" => Exists(r.id)

DeskInv ==
    /\ TypeOK /\ SessionsKept /\ CreatedOnce
    /\ \A w \in Workers : RequestOK(req[w])

-----------------------------------------------------------------------------
(* Rows only get new versions.                                             *)

LogGrows ==
    /\ log' \in [RowIds -> Seq(Row)]
    /\ \A k \in RowIds : /\ Len(log'[k]) >= Len(log[k])
                         /\ \A n \in 1..Len(log[k]) : log'[k][n] = log[k][n]

LEMMA NewVersion ==
    ASSUME log \in [RowIds -> Seq(Row)], NEW k \in RowIds, NEW row \in Row,
           log' = [log EXCEPT ![k] = Append(@, row)]
    PROVE  /\ LogGrows
           /\ Len(log'[k]) = Len(log[k]) + 1 /\ log'[k][Len(log[k]) + 1] = row
           /\ \A j \in RowIds : j # k => log'[j] = log[j]
BY DEF LogGrows

LEMMA FirstVersion ==
    ASSUME log \in [RowIds -> Seq(Row)], NEW k \in RowIds, NEW row \in Row, ~Exists(k),
           log' = [log EXCEPT ![k] = <<row>>]
    PROVE  /\ LogGrows /\ Len(log'[k]) = 1
           /\ \A j \in RowIds : j # k => log'[j] = log[j]
BY DEF LogGrows, Exists

LEMMA CurrentIsRow ==
    ASSUME log \in [RowIds -> Seq(Row)], NEW k \in RowIds, Exists(k)
    PROVE  /\ Current(k) \in Row /\ Len(log[k]) \in Nat /\ Len(log[k]) > 0
BY DEF Current, Exists

\* What the UPDATE leaves behind.
LEMMA UpdatedRow ==
    ASSUME NEW row \in Row, NEW patch \in Patches, NEW C \in SUBSET Asked(patch)
    PROVE  [c \in Columns |-> IF c \in C THEN patch[c] ELSE row[c]] \in Row
<1>1. \A c \in Columns : row[c] \in (IF c = "name" THEN Names ELSE BOOLEAN)
  BY DEF Row, Columns
<1>2. \A c \in C : patch[c] \in (IF c = "name" THEN Names ELSE BOOLEAN)
  BY DEF Patches, Asked, Columns
<1> QED
  BY <1>1, <1>2 DEF Row, Columns

\* The rows' new versions take nothing back that a request knows.
LEMMA KnowledgeKept ==
    ASSUME TypeOK, LogGrows, NEW w \in Workers, RequestOK(req[w]), req'[w] = req[w]
    PROVE  RequestOK(req[w])'
<1> DEFINE r == req[w]
<1>1. /\ r \in Request /\ r.from \in Nat
      /\ r.pc # "idle" => Len(log[r.id]) \in Nat /\ Len(log'[r.id]) \in Nat
  BY DEF TypeOK, Request, RequestOK, LogGrows
<1>2. r.code # "none" => r.pc # "idle"
  BY DEF RequestOK
<1>3. ASSUME NEW C, r.pc # "idle", InForce(r, C)
      PROVE  \A c \in C : \E n \in r.from..Len(log'[r.id]) :
                n > 0 /\ log'[r.id][n][c] = r.patch[c]
  BY <1>1, <1>3 DEF InForce, LogGrows, RequestOK
<1>4. r.pc # "idle" /\ Exists(r.id) => Exists(r.id)'
  BY DEF Exists, LogGrows, TypeOK, RequestOK
<1>5. r.pc \in {"load", "write"} => r.from <= Len(log'[r.id])
  BY <1>1 DEF RequestOK, LogGrows
<1>6. r.pc = "write" => InForce(r, Asked(r.patch) \ r.changed)'
  <2> SUFFICES ASSUME r.pc = "write" PROVE InForce(r, Asked(r.patch) \ r.changed)'
    OBVIOUS
  <2>1. InForce(r, Asked(r.patch) \ r.changed)
    BY DEF RequestOK
  <2> QED
    BY <1>3, <2>1 DEF InForce, Asked
<1>7. r.code = "OK" => InForce(r, Asked(r.patch))'
  <2> SUFFICES ASSUME r.code = "OK" PROVE InForce(r, Asked(r.patch))'
    OBVIOUS
  <2>1. InForce(r, Asked(r.patch))
    BY DEF RequestOK
  <2> QED
    BY <1>2, <1>3, <2>1 DEF InForce, Asked
<1> QED
  BY <1>2, <1>4, <1>5, <1>6, <1>7 DEF RequestOK, Asked, Exists

-----------------------------------------------------------------------------
(* The guard and the login.                                                *)

LEMMA SessionsStay ==
    ASSUME SessionsKept, UNCHANGED <<now, issued, lost, sessions>>
    PROVE  SessionsKept'
BY DEF SessionsKept

\* Pruning forgets no session that is still good.
LEMMA PruneKeeps ==
    ASSUME TypeOK, SessionsKept, NEW t \in Sessions \cup {Null}, Prune(t),
           UNCHANGED <<now, issued, lost>>
    PROVE  /\ sessions' \in [Sessions -> 0..(MaxTime + SessionTTL) \cup {Null}]
           /\ SessionsKept'
<1>1. /\ \A u \in Sessions : u # t => sessions'[u] = sessions[u]
      /\ sessions' \in [Sessions -> 0..(MaxTime + SessionTTL) \cup {Null}]
      /\ t \in Sessions => sessions'[t] = IF IsValid(t) THEN sessions[t] ELSE Null
  BY DeskAssumption DEF Prune, IsValid, TypeOK
<1>2. ASSUME t \in Sessions, ~IsValid(t), issued[t] # Null, t \notin lost
      PROVE  ~(now < issued[t] + SessionTTL)
  BY <1>2, DeskAssumption DEF IsValid, SessionsKept
<1> QED
  BY <1>1, <1>2 DEF SessionsKept

\* The session is valid exactly if it was issued, not wiped out, and young.
LEMMA ValidIsYoung ==
    ASSUME TypeOK, SessionsKept, NEW t \in Sessions \cup {Null}
    PROVE  IsValid(t) <=>
              t # Null /\ issued[t] # Null /\ t \notin lost /\ now < issued[t] + SessionTTL
BY DeskAssumption DEF IsValid, SessionsKept

\* A request as it is sent, before the guard has seen it.
Sent(r) ==
    /\ r \in Request /\ r.id \in RowIds /\ r.patch \in Patches /\ r.changed = {}
    /\ r.code = "none"

LEMMA GuardEffect ==
    ASSUME TypeOK, NEW w \in Workers, NEW t \in Sessions \cup {Null}, NEW r, Sent(r),
           NEW pc \in {"load", "look"}, Room(r.id), Guard(w, t, r, pc)
    PROVE  /\ req' \in [Workers -> Request] /\ req[w].pc = "idle"
           /\ \A v \in Workers : v # w => req'[v] = req[v]
           /\ req'[w].id = r.id /\ req'[w].patch = r.patch
           /\ req'[w].from = Len(log[r.id]) /\ req'[w].session = t
           /\ IF IsValid(t) THEN req'[w].pc = pc /\ req'[w].code = "none"
                            ELSE req'[w].pc = "reply" /\ req'[w].code = "UNAUTHORIZED"
           /\ Prune(t) /\ UNCHANGED <<now, issued, lost, log>>
<1> DEFINE q == [r EXCEPT !.session = t, !.from = Len(log[r.id])]
<1>1. Len(log[r.id]) \in 0..MaxWrites
  BY DeskAssumption DEF TypeOK, Room, Sent
<1>2. /\ q \in Request /\ q.id = r.id /\ q.patch = r.patch /\ q.code = "none"
      /\ q.from = Len(log[r.id]) /\ q.session = t
  BY <1>1 DEF Request, Sent
<1>3. /\ req[w].pc = "idle" /\ Prune(t) /\ UNCHANGED <<now, issued, lost, log>>
      /\ req' = [req EXCEPT ![w] = IF IsValid(t) THEN [q EXCEPT !.pc = pc]
                                   ELSE [q EXCEPT !.pc = "reply", !.code = "UNAUTHORIZED"]]
  BY DEF Guard
<1> HIDE DEF q
<1> QED
  BY <1>2, <1>3 DEF TypeOK, Request, Codes

LEMMA GuardKeepsInv ==
    ASSUME DeskInv, NEW w \in Workers, NEW t \in Sessions \cup {Null}, NEW r, Sent(r),
           NEW pc \in {"load", "look"}, Room(r.id), pc = "look" => r.patch \in Row,
           Guard(w, t, r, pc)
    PROVE  DeskInv'
<1>0. TypeOK /\ SessionsKept /\ CreatedOnce /\ \A v \in Workers : RequestOK(req[v])
  BY DEF DeskInv
<1>1. /\ req' \in [Workers -> Request]
      /\ \A v \in Workers : v # w => req'[v] = req[v]
      /\ req'[w].id = r.id /\ req'[w].from = Len(log[r.id]) /\ req'[w].patch = r.patch
      /\ \/ req'[w].pc = pc /\ req'[w].code = "none"
         \/ req'[w].pc = "reply" /\ req'[w].code = "UNAUTHORIZED"
      /\ Prune(t) /\ UNCHANGED <<now, issued, lost, log>>
  BY <1>0, GuardEffect
<1>2. TypeOK' /\ SessionsKept'
  BY <1>0, <1>1, PruneKeeps DEF TypeOK
<1>3. LogGrows
  BY <1>0, <1>1 DEF LogGrows, TypeOK
<1>4. RequestOK(req[w])'
  <2>1. Len(log[r.id]) \in Nat /\ r.id \in RowIds
    BY <1>0 DEF TypeOK, Sent
  <2> QED
    BY <1>1, <2>1 DEF RequestOK
<1>5. \A v \in Workers : RequestOK(req[v])'
  BY <1>0, <1>1, <1>3, <1>4, KnowledgeKept
<1>6. CreatedOnce'
  BY <1>0, <1>1 DEF CreatedOnce
<1> QED
  BY <1>2, <1>5, <1>6 DEF DeskInv

\* Both kinds of requests meet the guard.
Arrives(w, t) ==
    \E r \in Request, pc \in {"load", "look"} :
        /\ Sent(r) /\ Room(r.id) /\ (pc = "look" => r.patch \in Row)
        /\ Guard(w, t, r, pc)

LEMMA BeginArrives ==
    ASSUME NEW w \in Workers, NEW t \in Sessions \cup {Null}, NEW k \in RowIds,
           \/ \E patch \in Bodies : BeginPatch(w, t, k, patch)
           \/ \E name \in Names : BeginCreate(w, t, k, name)
    PROVE  Arrives(w, t)
<1>1. ASSUME NEW patch \in Patches
      PROVE  LET r == [NoReq EXCEPT !.id = k, !.patch = patch]
             IN Sent(r) /\ r.id = k /\ r.patch = patch
  <2>1. /\ NoReq \in Request /\ NoReq.changed = {} /\ NoReq.code = "none"
    BY DeskAssumption DEF NoReq, Request, Codes
  <2>2. ASSUME NEW q \in Request
        PROVE  LET r == [q EXCEPT !.id = k, !.patch = patch]
               IN /\ r \in Request /\ r.id = k /\ r.patch = patch
                  /\ r.changed = q.changed /\ r.code = q.code
    BY DEF Request
  <2> QED
    BY <2>1, <2>2 DEF Sent
<1>2. ASSUME NEW patch \in Bodies, BeginPatch(w, t, k, patch)
      PROVE  Arrives(w, t)
  <2> DEFINE r == [NoReq EXCEPT !.id = k, !.patch = patch]
  <2>1. Sent(r) /\ r.id = k
    BY <1>1, BodiesAssumption
  <2>2. Room(k) /\ Guard(w, t, r, "load")
    BY <1>2 DEF BeginPatch
  <2> HIDE DEF r
  <2> QED
    BY <2>1, <2>2 DEF Arrives, Sent
<1>3. ASSUME NEW name \in Names, BeginCreate(w, t, k, name)
      PROVE  Arrives(w, t)
  <2> DEFINE patch == [name |-> name, flag |-> TRUE]
             r     == [NoReq EXCEPT !.id = k, !.patch = patch]
  <2>1. patch \in Patches /\ patch \in Row
    <3>1. patch \in Row /\ patch \in [name: Names \cup {Null}, flag: BOOLEAN \cup {Null}]
      BY DEF Row
    <3>2. "name" \in Columns /\ patch["name"] # Null
      BY DeskAssumption DEF Columns
    <3> QED
      BY <3>1, <3>2 DEF Patches
  <2>2. Sent(r) /\ r.id = k /\ r.patch = patch
    BY <1>1, <2>1
  <2>3. Room(k) /\ Guard(w, t, r, "look")
    BY <1>3 DEF BeginCreate
  <2> HIDE DEF r, patch
  <2> QED
    BY <2>1, <2>2, <2>3 DEF Arrives, Sent
<1> QED
  BY <1>2, <1>3

LEMMA ArriveKeepsInv ==
    ASSUME DeskInv, NEW w \in Workers, NEW t \in Sessions \cup {Null}, Arrives(w, t)
    PROVE  DeskInv'
BY GuardKeepsInv DEF Arrives

LEMMA LoginKeepsInv ==
    ASSUME DeskInv, NEW t \in Sessions, Login(t)
    PROVE  DeskInv'
<1> USE DEF DeskInv
<1>1. /\ UNCHANGED <<now, lost, log, req>>
      /\ now \in Nat /\ now <= MaxTime /\ now # Null /\ now + SessionTTL # Null
      /\ t \notin lost
      /\ issued' = [issued EXCEPT ![t] = now]
      /\ sessions' = [sessions EXCEPT ![t] = now + SessionTTL]
  BY DeskAssumption DEF Login, CreateSession, TypeOK, Times, SessionsKept
<1>2. now + SessionTTL \in 0..(MaxTime + SessionTTL)
  BY <1>1, DeskAssumption
<1>3. TypeOK'
  BY <1>1, <1>2 DEF TypeOK, Times
<1>4. SessionsKept'
  BY <1>1 DEF SessionsKept, TypeOK
<1>5. CreatedOnce' /\ \A w \in Workers : RequestOK(req[w])'
  BY <1>1 DEF CreatedOnce, RequestOK, Exists, InForce, Asked
<1> QED
  BY <1>3, <1>4, <1>5

-----------------------------------------------------------------------------
(* The handlers.                                                           *)

LEMMA AnswerEffect ==
    ASSUME TypeOK, NEW w \in Workers, NEW code \in Codes, Answer(w, code)
    PROVE  /\ req' \in [Workers -> Request]
           /\ \A v \in Workers : v # w => req'[v] = req[v]
           /\ req'[w].pc = "reply" /\ req'[w].code = code
           /\ req'[w].id = req[w].id /\ req'[w].patch = req[w].patch
           /\ req'[w].from = req[w].from
<1>1. req' = [req EXCEPT ![w] = [req[w] EXCEPT !.pc = "reply", !.session = Null, !.code = code]]
  BY DEF Answer, TypeOK
<1>2. ASSUME NEW q \in Request
      PROVE  LET r == [q EXCEPT !.pc = "reply", !.session = Null, !.code = code]
             IN /\ r \in Request /\ r.pc = "reply" /\ r.code = code
                /\ r.id = q.id /\ r.patch = q.patch /\ r.from = q.from
  BY DEF Request
<1> QED
  BY <1>1, <1>2 DEF TypeOK

\* An answer that claims nothing.
LEMMA PlainAnswer ==
    ASSUME DeskInv, NEW w \in Workers,
           NEW code \in {"NOT_FOUND", "SHOP_ID_TAKEN", "ERROR"},
           Answer(w, code), req[w].pc # "idle", Quiet, UNCHANGED log
    PROVE  DeskInv'
<1>1. TypeOK' /\ SessionsKept' /\ LogGrows
  BY AnswerEffect, SessionsStay DEF DeskInv, TypeOK, Quiet, Codes, LogGrows
<1>2. /\ \A v \in Workers : v # w => req'[v] = req[v]
      /\ req'[w].id \in RowIds /\ req'[w].pc = "reply" /\ req'[w].code = code
  BY AnswerEffect DEF DeskInv, Codes, RequestOK
<1>3. \A v \in Workers : RequestOK(req[v])'
  BY <1>1, <1>2, KnowledgeKept DEF DeskInv, RequestOK
<1>4. CreatedOnce'
  BY <1>2 DEF DeskInv, CreatedOnce
<1> QED
  BY <1>1, <1>3, <1>4 DEF DeskInv

LEMMA LoadKeepsInv ==
    ASSUME DeskInv, NEW w \in Workers, LoadRow(w)
    PROVE  DeskInv'
<1> DEFINE r == req[w]  k == r.id
<1>a. /\ TypeOK /\ SessionsKept /\ CreatedOnce /\ \A v \in Workers : RequestOK(req[v])
      /\ r.pc = "load" /\ Quiet /\ UNCHANGED log
  BY DEF DeskInv, LoadRow
<1>b. r \in Request /\ log \in [RowIds -> Seq(Row)] /\ r.from \in Nat
  BY <1>a DEF TypeOK, Request
<1>c. k \in RowIds /\ r.code = "none" /\ r.from <= Len(log[k])
  BY <1>a DEF RequestOK
<1>0. /\ TypeOK /\ SessionsKept /\ CreatedOnce /\ \A v \in Workers : RequestOK(req[v])
      /\ r \in Request /\ k \in RowIds /\ r.pc = "load" /\ r.code = "none"
      /\ r.from <= Len(log[k]) /\ r.from \in Nat /\ Quiet /\ UNCHANGED log
      /\ log \in [RowIds -> Seq(Row)]
  BY <1>a, <1>b, <1>c
<1>1. LogGrows /\ SessionsKept'
  BY <1>0, SessionsStay DEF LogGrows, Quiet
<1>2. CASE Answer(w, "NOT_FOUND")
  BY <1>0, <1>2, PlainAnswer
<1>3. \A C : Exists(k) /\ (\A c \in C : Current(k)[c] = r.patch[c]) => InForce(r, C)
  BY <1>0, CurrentIsRow DEF InForce, Current
<1>4. \A c \in Asked(r.patch) \ Changed(k, r.patch) : Current(k)[c] = r.patch[c]
  BY DEF Changed
<1>5. CASE Exists(k) /\ Changed(k, r.patch) = {} /\ Answer(w, "OK")
  <2>1. /\ req' \in [Workers -> Request]
        /\ \A v \in Workers : v # w => req'[v] = req[v]
        /\ req'[w].pc = "reply" /\ req'[w].code = "OK" /\ req'[w].id = k
        /\ req'[w].patch = r.patch /\ req'[w].from = r.from
    BY <1>0, <1>5, AnswerEffect DEF Codes
  <2>2. InForce(r, Asked(r.patch))
    BY <1>3, <1>4, <1>5
  <2>3. RequestOK(req[w])'
    BY <1>0, <2>1, <2>2 DEF RequestOK, InForce, Asked
  <2> QED
    BY <1>0, <1>1, <2>1, <2>3, KnowledgeKept DEF DeskInv, TypeOK, Quiet, CreatedOnce
<1>6. CASE /\ Exists(k)
           /\ req' = [req EXCEPT ![w].pc = "write", ![w].session = Null,
                                 ![w].changed = Changed(k, r.patch)]
  <2>1. Changed(k, r.patch) \subseteq Columns /\ Changed(k, r.patch) \subseteq Asked(r.patch)
    BY DEF Changed, Asked
  <2>2. /\ req' \in [Workers -> Request]
        /\ \A v \in Workers : v # w => req'[v] = req[v]
        /\ req'[w].pc = "write" /\ req'[w].code = "none" /\ req'[w].id = k
        /\ req'[w].patch = r.patch /\ req'[w].from = r.from
        /\ req'[w].changed = Changed(k, r.patch)
    BY <1>0, <1>6, <2>1 DEF TypeOK, Request
  <2>3. InForce(r, Asked(r.patch) \ Changed(k, r.patch))
    BY <1>3, <1>4, <1>6
  <2>4. RequestOK(req[w])'
    BY <1>0, <1>6, <2>1, <2>2, <2>3 DEF RequestOK, InForce, Asked, Exists
  <2> QED
    BY <1>0, <1>1, <2>2, <2>4, KnowledgeKept DEF DeskInv, TypeOK, Quiet, CreatedOnce
<1> QED
  BY <1>2, <1>5, <1>6 DEF LoadRow

LEMMA WriteKeepsInv ==
    ASSUME DeskInv, NEW w \in Workers, WriteRow(w)
    PROVE  DeskInv'
<1> DEFINE r == req[w]  k == r.id  last == Len(log[k])
           row == [c \in Columns |-> IF c \in r.changed THEN r.patch[c] ELSE Current(k)[c]]
<1>a. /\ TypeOK /\ SessionsKept /\ CreatedOnce /\ \A v \in Workers : RequestOK(req[v])
      /\ r.pc = "write" /\ Quiet /\ Answer(w, "OK")
      /\ log' = [log EXCEPT ![k] = Append(log[k], row)]
  BY DEF DeskInv, WriteRow, TypeOK
<1>b. r \in Request /\ log \in [RowIds -> Seq(Row)] /\ r.from \in Nat /\ r.changed \subseteq Columns
  BY <1>a DEF TypeOK, Request
<1>c. /\ k \in RowIds /\ r.from <= last /\ Exists(k)
      /\ r.changed \subseteq Asked(r.patch) /\ InForce(r, Asked(r.patch) \ r.changed)
  BY <1>a DEF RequestOK
<1>d. r.patch \in Patches \/ r.changed = {}
  BY <1>b, <1>c DEF Request, NoPatch, Asked, Columns
<1>e. last \in Nat /\ last > 0 /\ Current(k) \in Row
  BY <1>b, <1>c, CurrentIsRow
<1>f. row \in Row
  <2>1. CASE r.patch \in Patches
    BY <2>1, <1>c, <1>e, UpdatedRow
  <2>2. CASE r.changed = {}
    <3>1. row = [c \in Columns |-> Current(k)[c]]
      BY <2>2
    <3> QED
      BY <3>1, <1>e DEF Row, Columns
  <2> QED
    BY <1>d, <2>1, <2>2
<1>g. \A c \in r.changed : row[c] = r.patch[c]
  BY <1>b
<1> HIDE DEF row
<1>1. /\ LogGrows /\ Len(log'[k]) = last + 1 /\ log'[k][last + 1] = row
      /\ \A j \in RowIds : j # k => log'[j] = log[j]
  BY <1>a, <1>b, <1>c, <1>f, NewVersion
<1>2. /\ req' \in [Workers -> Request]
      /\ \A v \in Workers : v # w => req'[v] = req[v]
      /\ req'[w].pc = "reply" /\ req'[w].code = "OK" /\ req'[w].id = k
      /\ req'[w].patch = r.patch /\ req'[w].from = r.from
  BY <1>a, AnswerEffect DEF Codes
<1>3. \A c \in Asked(r.patch) : \E n \in r.from..(last + 1) :
         n > 0 /\ log'[k][n][c] = r.patch[c]
  <2> SUFFICES ASSUME NEW c \in Asked(r.patch)
               PROVE  \E n \in r.from..(last + 1) : n > 0 /\ log'[k][n][c] = r.patch[c]
    OBVIOUS
  <2>1. CASE c \in r.changed
    <3>1. last + 1 \in r.from..(last + 1) /\ last + 1 > 0
      BY <1>b, <1>c, <1>e
    <3> QED
      BY <2>1, <3>1, <1>1, <1>g
  <2>2. CASE c \notin r.changed
    <3>1. PICK n \in r.from..last : n > 0 /\ log[k][n][c] = r.patch[c]
      BY <2>2, <1>c DEF InForce
    <3>2. n \in r.from..(last + 1) /\ n \in 1..last
      BY <3>1, <1>b, <1>e
    <3> QED
      BY <3>1, <3>2, <1>1, <1>c DEF LogGrows
  <2> QED
    BY <2>1, <2>2
<1>4. RequestOK(req[w])'
  BY <1>1, <1>2, <1>3, <1>c DEF RequestOK, InForce, Asked
<1>5. \A v \in Workers : RequestOK(req[v])'
  BY <1>a, <1>1, <1>2, <1>4, KnowledgeKept
<1>6. TypeOK' /\ SessionsKept'
  BY <1>a, <1>1, <1>2, SessionsStay DEF TypeOK, LogGrows, Quiet
<1>7. CreatedOnce'
  BY <1>a, <1>2 DEF CreatedOnce
<1> QED
  BY <1>5, <1>6, <1>7 DEF DeskInv

LEMMA LookKeepsInv ==
    ASSUME DeskInv, NEW w \in Workers, LookForShop(w)
    PROVE  DeskInv'
<1> DEFINE r == req[w]
<1>1. /\ TypeOK /\ SessionsKept /\ CreatedOnce /\ \A v \in Workers : RequestOK(req[v])
      /\ r.pc = "look" /\ Quiet /\ UNCHANGED log
  BY DEF DeskInv, LookForShop
<1>2. CASE Answer(w, "SHOP_ID_TAKEN")
  BY <1>1, <1>2, PlainAnswer
<1>3. CASE Goto(w, "insert")
  <2>1. req' = [req EXCEPT ![w] = [r EXCEPT !.pc = "insert", !.session = Null]]
    BY <1>1, <1>3 DEF Goto, TypeOK
  <2>2. ASSUME NEW q \in Request
        PROVE  LET a == [q EXCEPT !.pc = "insert", !.session = Null]
               IN /\ a \in Request /\ a.pc = "insert" /\ a.code = q.code
                  /\ a.id = q.id /\ a.patch = q.patch
    BY DEF Request
  <2>3. /\ req' \in [Workers -> Request]
        /\ \A v \in Workers : v # w => req'[v] = req[v]
        /\ req'[w].pc = "insert" /\ req'[w].code = r.code /\ req'[w].id = r.id
        /\ req'[w].patch = r.patch
    BY <1>1, <2>1, <2>2 DEF TypeOK
  <2>4. r.id \in RowIds /\ r.code = "none" /\ r.patch \in Row
    BY <1>1 DEF RequestOK
  <2>5. RequestOK(req[w])' /\ LogGrows
    BY <1>1, <2>3, <2>4 DEF RequestOK, LogGrows, TypeOK
  <2> QED
    BY <1>1, <2>3, <2>4, <2>5, KnowledgeKept, SessionsStay
       DEF DeskInv, TypeOK, Quiet, CreatedOnce
<1> QED
  BY <1>2, <1>3 DEF LookForShop

\* Whoever has created a shop has left a row behind, so a second INSERT of the
\* same id fails.
LEMMA InsertKeepsInv ==
    ASSUME DeskInv, NEW w \in Workers, InsertShop(w)
    PROVE  DeskInv'
<1> DEFINE r == req[w]  k == r.id
<1>1. /\ TypeOK /\ SessionsKept /\ CreatedOnce /\ \A v \in Workers : RequestOK(req[v])
      /\ r.pc = "insert" /\ Quiet
  BY DEF DeskInv, InsertShop
<1>2. /\ k \in RowIds /\ r.patch \in Row /\ r.code = "none"
      /\ log \in [RowIds -> Seq(Row)]
  BY <1>1 DEF RequestOK, TypeOK
<1>3. CASE Exists(k)
  BY <1>1, <1>3, PlainAnswer DEF InsertShop
<1>4. CASE ~Exists(k)
  <2>1. log' = [log EXCEPT ![k] = <<r.patch>>] /\ Answer(w, "CREATED")
    BY <1>4 DEF InsertShop
  <2>2. /\ req' \in [Workers -> Request]
        /\ \A v \in Workers : v # w => req'[v] = req[v]
        /\ req'[w].pc = "reply" /\ req'[w].code = "CREATED" /\ req'[w].id = k
    BY <1>1, <2>1, AnswerEffect DEF Codes
  <2>3. LogGrows /\ Len(log'[k]) = 1
    BY <1>2, <1>4, <2>1, FirstVersion
  <2>4. RequestOK(req[w])'
    <3>1. log'[k] # <<>>
      BY <2>3
    <3> QED
      BY <1>2, <2>2, <3>1 DEF RequestOK, Exists
  <2>5. \A v \in Workers : v # w /\ req[v].code = "CREATED" => req[v].id # k
    BY <1>1, <1>4 DEF RequestOK
  <2>6. CreatedOnce'
    BY <1>1, <2>2, <2>5 DEF CreatedOnce
  <2> QED
    BY <1>1, <2>2, <2>3, <2>4, <2>6, KnowledgeKept, SessionsStay
       DEF DeskInv, TypeOK, Quiet, LogGrows
<1> QED
  BY <1>3, <1>4

-----------------------------------------------------------------------------
(* The invariant.                                                          *)

LEMMA DeskInvInit == ASSUME Init PROVE DeskInv
<1>1. NoReq \in Request /\ NoReq.pc = "idle" /\ NoReq.code = "none"
  BY DeskAssumption DEF NoReq, Request, Codes
<1>2. PICK n \in Names : log = [k \in RowIds |->
         IF k \in Stocked THEN <<[name |-> n, flag |-> TRUE]>> ELSE <<>>]
  BY DEF Init
<1>3. log \in [RowIds -> Seq(Row)]
  <2>1. <<>> \in Seq(Row) /\ [name |-> n, flag |-> TRUE] \in Row
    BY DEF Row
  <2>2. \A row \in Row : <<row>> \in Seq(Row)
    OBVIOUS
  <2> QED
    BY <1>2, <2>1, <2>2
<1>4. TypeOK
  <2>1. 0 \in Times
    BY DeskAssumption DEF Times
  <2> QED
    BY <1>1, <1>3, <2>1 DEF Init, TypeOK
<1>5. SessionsKept
  BY DEF Init, SessionsKept
<1>6. CreatedOnce /\ \A w \in Workers : RequestOK(req[w])
  BY <1>1 DEF Init, CreatedOnce, RequestOK
<1> QED
  BY <1>4, <1>5, <1>6 DEF DeskInv

LEMMA DeskInvNext == ASSUME DeskInv, [Next]_vars PROVE DeskInv'
<1>0. /\ TypeOK /\ SessionsKept /\ CreatedOnce /\ \A w \in Workers : RequestOK(req[w])
      /\ NoReq \in Request /\ NoReq.pc = "idle" /\ NoReq.code = "none"
  BY DeskAssumption DEF DeskInv, NoReq, Request, Codes
<1>1. ASSUME NEW t \in Sessions, Login(t) PROVE DeskInv'
  BY <1>1, LoginKeepsInv
<1>2. ASSUME NEW w \in Workers, NEW t \in Sessions \cup {Null}, NEW k \in RowIds,
             \/ \E patch \in Bodies : BeginPatch(w, t, k, patch)
             \/ \E name \in Names : BeginCreate(w, t, k, name)
      PROVE  DeskInv'
  BY <1>2, BeginArrives, ArriveKeepsInv
<1>3. ASSUME NEW w \in Workers, LoadRow(w) PROVE DeskInv'
  BY <1>3, LoadKeepsInv
<1>4. ASSUME NEW w \in Workers, WriteRow(w) PROVE DeskInv'
  BY <1>4, WriteKeepsInv
<1>5. ASSUME NEW w \in Workers, LookForShop(w) PROVE DeskInv'
  BY <1>5, LookKeepsInv
<1>6. ASSUME NEW w \in Workers, InsertShop(w) PROVE DeskInv'
  BY <1>6, InsertKeepsInv
<1>7. ASSUME NEW w \in Workers, Deliver(w) PROVE DeskInv'
  <2>1. /\ req' \in [Workers -> Request] /\ req'[w] = NoReq /\ Quiet /\ UNCHANGED log
        /\ \A v \in Workers : v # w => req'[v] = req[v]
    BY <1>0, <1>7 DEF Deliver, TypeOK
  <2>2. RequestOK(req[w])' /\ LogGrows
    BY <1>0, <2>1 DEF RequestOK, LogGrows, TypeOK
  <2> QED
    BY <1>0, <2>1, <2>2, KnowledgeKept, SessionsStay
       DEF DeskInv, TypeOK, Quiet, CreatedOnce
<1>8. ASSUME NEW w \in Workers, Fail(w) PROVE DeskInv'
  BY <1>8, PlainAnswer DEF Fail
<1>9. CASE Restart
  <2>1. req' \in [Workers -> Request] /\ \A w \in Workers : req'[w] = NoReq
    BY <1>0, <1>9 DEF Restart
  <2>2. TypeOK'
    BY <1>0, <1>9, <2>1 DEF Restart, TypeOK
  <2>3. SessionsKept'
    BY <1>9 DEF Restart, SessionsKept
  <2>4. CreatedOnce' /\ \A w \in Workers : RequestOK(req[w])'
    BY <1>0, <2>1 DEF CreatedOnce, RequestOK
  <2> QED
    BY <2>2, <2>3, <2>4 DEF DeskInv
<1>10. CASE TimePasses
  <2>1. /\ now \in Nat /\ now' = now + 1 /\ now' \in Times
        /\ UNCHANGED <<sessions, issued, lost, log, req>>
    BY <1>0, <1>10, DeskAssumption DEF TimePasses, TypeOK, Times
  <2>2. TypeOK' /\ LogGrows
    BY <1>0, <2>1 DEF TypeOK, LogGrows
  <2>3. SessionsKept'
    BY <1>0, <2>1, DeskAssumption DEF SessionsKept, TypeOK, Times
  <2>4. CreatedOnce' /\ \A w \in Workers : RequestOK(req[w])'
    BY <1>0, <2>1, <2>2, KnowledgeKept DEF CreatedOnce
  <2> QED
    BY <2>2, <2>3, <2>4 DEF DeskInv
<1>11. CASE UNCHANGED vars
  BY <1>11 DEF vars, DeskInv, TypeOK, SessionsKept, CreatedOnce, RequestOK, InForce,
               Exists, Asked
<1> QED
  BY <1>1, <1>2, <1>3, <1>4, <1>5, <1>6, <1>7, <1>8, <1>9, <1>10, <1>11 DEF Next

LEMMA DeskInvHolds == Spec => []DeskInv
BY DeskInvInit, DeskInvNext, PTL DEF Spec

-----------------------------------------------------------------------------
(* The theorems.                                                           *)

\* The variables keep their types: the versions of a row are rows, a request
\* carries a patch with something in it.
THEOREM TypeCorrect == Spec => []TypeOK
BY DeskInvHolds, PTL DEF DeskInv

\* ADM-603: create_shop gives an id to one shop only, however the SELECT and
\* the INSERT of two operators interleave.
THEOREM ShopsAreCreatedOnce == Spec => []CreatedOnce
BY DeskInvHolds, PTL DEF DeskInv

\* ADM-301, ADM-602: what a PATCH answered with 200 asked for was in force
\* while it ran, the columns that its UPDATE left out included.
THEOREM ChangesTakeEffect == Spec => []PatchTakesEffect
<1>1. DeskInv => PatchTakesEffect
  BY DEF DeskInv, RequestOK, InForce, PatchTakesEffect
<1> QED
  BY <1>1, DeskInvHolds, PTL

\* Past the guard, a step of a worker is a step of a request under way.
LEMMA HandlersContinue ==
    ASSUME DeskInv, NEW w \in Workers,
           \/ LoadRow(w) \/ WriteRow(w) \/ LookForShop(w) \/ InsertShop(w)
           \/ Deliver(w) \/ Fail(w)
    PROVE  req[w].pc # "idle" /\ \A v \in Workers : v # w => req'[v] = req[v]
<1>1. req \in [Workers -> Request]
  BY DEF DeskInv, TypeOK
<1> QED
  BY <1>1 DEF LoadRow, WriteRow, LookForShop, InsertShop, Deliver, Fail, Answer, Goto

\* D-21, ADM-104, ADM-106: require_admin lets a request pass exactly if its
\* session was issued less than SessionTTL ago and no restart has wiped it out,
\* whoever else logs in or has expired sessions removed in between.
THEOREM SessionsDecide == Spec => SessionDecides
<1> DEFINE Decides == \A w \in Workers : req[w].pc = "idle" /\ req'[w].pc # "idle" =>
              LET t == req'[w].session
              IN req'[w].code # "UNAUTHORIZED" <=>
                    t # Null /\ issued[t] # Null /\ t \notin lost /\ now < issued[t] + SessionTTL
<1>1. ASSUME DeskInv, Next PROVE Decides \/ UNCHANGED req
  <2>0. TypeOK /\ SessionsKept
    BY <1>1 DEF DeskInv
  <2>1. ASSUME NEW w \in Workers, NEW t \in Sessions \cup {Null}, Arrives(w, t)
        PROVE  Decides
    <3>1. /\ \A v \in Workers : v # w => req'[v] = req[v]
          /\ req'[w].session = t
          /\ IF IsValid(t) THEN req'[w].code = "none" ELSE req'[w].code = "UNAUTHORIZED"
      BY <2>0, <2>1, GuardEffect DEF Arrives
    <3>2. IsValid(t) <=> t # Null /\ issued[t] # Null /\ t \notin lost
                         /\ now < issued[t] + SessionTTL
      BY <2>0, ValidIsYoung
    <3> QED
      BY <3>1, <3>2
  <2>2. ASSUME NEW w \in Workers,
               \/ LoadRow(w) \/ WriteRow(w) \/ LookForShop(w) \/ InsertShop(w)
               \/ Deliver(w) \/ Fail(w)
        PROVE  Decides
    BY <1>1, <2>2, HandlersContinue
  <2>3. CASE Restart
    BY <2>3 DEF Restart, NoReq
  <2>4. CASE TimePasses \/ \E t \in Sessions : Login(t)
    BY <2>4 DEF TimePasses, Login
  <2> QED
    BY <1>1, <2>1, <2>2, <2>3, <2>4, BeginArrives DEF Next
<1>2. DeskInv /\ [Next]_vars => [Decides]_req
  BY <1>1 DEF vars
<1> QED
  BY <1>2, DeskInvHolds, PTL DEF Spec, SessionDecides

\* PATCH writes the columns it is asked to change and no others, so operators
\* who edit different columns of a row at the same time both get their way.
THEOREM EditsKeepTheRest == Spec => PatchKeepsTheRest
<1> DEFINE Keeps == \A k \in RowIds : Exists(k) /\ log'[k] # log[k] =>
              \E w \in Workers : \A c \in Columns :
                  log'[k][Len(log'[k])][c] # Current(k)[c] =>
                      req[w].pc = "write" /\ req[w].id = k /\ c \in Asked(req[w].patch)
<1>1. ASSUME DeskInv, Next PROVE Keeps \/ UNCHANGED log
  <2>0. /\ TypeOK /\ \A w \in Workers : RequestOK(req[w])
        /\ log \in [RowIds -> Seq(Row)]
    BY <1>1 DEF DeskInv, TypeOK
  <2>1. ASSUME NEW w \in Workers, WriteRow(w), NEW k \in RowIds, Exists(k), log'[k] # log[k]
        PROVE  \A c \in Columns : log'[k][Len(log'[k])][c] # Current(k)[c] =>
                  req[w].pc = "write" /\ req[w].id = k /\ c \in Asked(req[w].patch)
    <3> DEFINE row == [c \in Columns |-> IF c \in req[w].changed THEN req[w].patch[c]
                                         ELSE Current(req[w].id)[c]]
    <3>1. /\ req[w].pc = "write" /\ req[w].id \in RowIds
          /\ req[w].changed \subseteq Asked(req[w].patch)
      BY <2>0, <2>1 DEF WriteRow, RequestOK
    <3>2. log' = [log EXCEPT ![req[w].id] = Append(log[req[w].id], row)]
      BY <2>0, <2>1 DEF WriteRow
    <3>3. \A c \in Columns : row[c] = IF c \in req[w].changed THEN req[w].patch[c]
                                      ELSE Current(req[w].id)[c]
      OBVIOUS
    <3> HIDE DEF row
    <3>4. req[w].id = k
      BY <2>0, <2>1, <3>1, <3>2
    <3>5. log'[k] = Append(log[k], row) /\ log[k] \in Seq(Row)
      BY <2>0, <3>2, <3>4
    <3>6. log'[k][Len(log'[k])] = row
      BY <3>5
    <3> QED
      BY <3>1, <3>3, <3>4, <3>6
  <2>2. ASSUME NEW w \in Workers, InsertShop(w), NEW k \in RowIds, Exists(k)
        PROVE  log'[k] = log[k]
    BY <2>0, <2>2 DEF InsertShop, Exists
  <2>3. ASSUME NEW w \in Workers, LoadRow(w) \/ LookForShop(w) \/ Deliver(w) \/ Fail(w)
        PROVE  UNCHANGED log
    BY <2>3 DEF LoadRow, LookForShop, Deliver, Fail
  <2>4. ASSUME NEW w \in Workers, NEW t \in Sessions \cup {Null}, Arrives(w, t)
        PROVE  UNCHANGED log
    BY <2>4 DEF Arrives, Guard
  <2>5. CASE Restart \/ TimePasses \/ \E t \in Sessions : Login(t)
    BY <2>5 DEF Restart, TimePasses, Login
  <2> QED
    BY <1>1, <2>1, <2>2, <2>3, <2>4, <2>5, BeginArrives DEF Next
<1>2. DeskInv /\ [Next]_vars => [Keeps]_log
  BY <1>1 DEF vars
<1> QED
  BY <1>2, DeskInvHolds, PTL DEF Spec, PatchKeepsTheRest

=============================================================================
