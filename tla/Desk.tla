-------------------------------- MODULE Desk --------------------------------
(***************************************************************************)
(* The operator's desk: sessions (adminauth.py), the login, and the        *)
(* handlers that create and edit rows of shops and of seats                *)
(* (routers/admin.py).                                                     *)
(*                                                                         *)
(* Sessions live in the memory of the process.  A handler runs behind the  *)
(* session guard; it loads the row in one SELECT and writes in a later     *)
(* step.  The UPDATE contains only the columns whose new value differs     *)
(* from the one loaded, and no UPDATE is sent when none does.              *)
(***************************************************************************)
EXTENDS Naturals, Sequences

CONSTANTS
    Sessions,   \* session tokens
    Workers,    \* threads of the pool
    RowIds,     \* ids of shops and seats
    Stocked,    \* those that exist from the start
    Bodies,     \* bound: the bodies of a PATCH
    Names,      \* values of the descriptive columns (name, category, sort_order)
    SessionTTL, \* ticks a session lasts (twelve hours, decision D-21)
    MaxTime,    \* bound: the clock stops here
    MaxWrites,  \* bound: versions of a row
    Null,
    Ops         \* bound: the kinds of steps made in the instance

ASSUME DeskAssumption ==
    /\ SessionTTL \in Nat \ {0} /\ MaxTime \in Nat /\ MaxWrites \in Nat \ {0}
    /\ Stocked \subseteq RowIds
    /\ Null \notin Sessions \cup RowIds \cup Names \cup BOOLEAN \cup Nat

VARIABLES
    now,       \* datetime.utcnow()
    sessions,  \* _sessions: the expiry of each token, Null when it is not there
    issued,    \* history: when each token was issued
    lost,      \* history: tokens that a restart has wiped out
    log,       \* log[k]: the versions of row k, the last one being the row
    req        \* req[w]: the request worker w runs

vars == <<now, sessions, issued, lost, log, req>>

Times == 0..MaxTime

\* flag is is_active of a shop, is_open of a seat.
Columns == {"name", "flag"}
Row == [name: Names, flag: BOOLEAN]

Exists(k) == log[k] # <<>>
Current(k) == log[k][Len(log[k])]

\* A body names some columns, each with the value asked for.
Patches == {p \in [name: Names \cup {Null}, flag: BOOLEAN \cup {Null}] :
              \E c \in Columns : p[c] # Null}

ASSUME BodiesAssumption == Bodies \subseteq Patches

NoPatch == [name |-> Null, flag |-> Null]
Asked(patch) == {c \in Columns : patch[c] # Null}

Codes == {"none", "UNAUTHORIZED", "NOT_FOUND", "SHOP_ID_TAKEN", "CREATED", "OK", "ERROR"}

NoReq == [pc |-> "idle", session |-> Null, id |-> Null, patch |-> NoPatch,
          changed |-> {}, from |-> 0, code |-> "none"]

\* changed: the columns that will be written.  from is history: the version of
\* the row there was when the request arrived.
Request ==
    [pc: {"idle", "load", "write", "look", "insert", "reply"},
     session: Sessions \cup {Null}, id: RowIds \cup {Null},
     patch: Patches \cup {NoPatch}, changed: SUBSET Columns, from: 0..MaxWrites,
     code: Codes]

TypeOK ==
    /\ now \in Times
    /\ sessions \in [Sessions -> 0..(MaxTime + SessionTTL) \cup {Null}]
    /\ issued \in [Sessions -> Times \cup {Null}]
    /\ lost \subseteq Sessions
    /\ log \in [RowIds -> Seq(Row)]
    /\ req \in [Workers -> Request]

Init ==
    /\ now = 0
    /\ sessions = [t \in Sessions |-> Null]
    /\ issued = [t \in Sessions |-> Null]
    /\ lost = {}
    /\ \E n \in Names :
          log = [k \in RowIds |->
                   IF k \in Stocked THEN <<[name |-> n, flag |-> TRUE]>> ELSE <<>>]
    /\ req = [w \in Workers |-> NoReq]

-----------------------------------------------------------------------------
(* Sessions.                                                               *)

\* Wrong: a new session replaces the others.
CreateSession_Only(t) ==
    sessions' = [u \in Sessions |-> IF u = t THEN now + SessionTTL ELSE Null]

\* create_session.
CreateSession(t) == sessions' = [sessions EXCEPT ![t] = now + SessionTTL]

\* POST /api/admin/login with the right password; with a wrong one nothing
\* happens.
Login(t) ==
    /\ issued[t] = Null
    /\ CreateSession(t)
    /\ issued' = [issued EXCEPT ![t] = now]
    /\ UNCHANGED <<now, lost, log, req>>

\* _is_valid; a cookie may carry anything, or be missing.
IsValid(t) == t # Null /\ sessions[t] # Null /\ now < sessions[t]

\* An expired session is removed when it is shown.
Prune(t) ==
    sessions' = IF t # Null /\ ~IsValid(t) THEN [sessions EXCEPT ![t] = Null] ELSE sessions

\* require_admin, and with it the arrival of the request r.
Guard(w, t, r, pc) ==
    LET asked == [r EXCEPT !.session = t, !.from = Len(log[r.id])]
    IN /\ req[w].pc = "idle"
       /\ Prune(t)
       /\ req' = [req EXCEPT ![w] =
                    IF IsValid(t) THEN [asked EXCEPT !.pc = pc]
                    ELSE [asked EXCEPT !.pc = "reply", !.code = "UNAUTHORIZED"]]
       /\ UNCHANGED <<now, issued, lost, log>>

-----------------------------------------------------------------------------
(* Shops and seats.                                                        *)

\* The session is not looked at again after the guard.
Goto(w, pc) == req' = [req EXCEPT ![w].pc = pc, ![w].session = Null]

Answer(w, code) ==
    req' = [req EXCEPT ![w].pc = "reply", ![w].session = Null, ![w].code = code]

Quiet == UNCHANGED <<now, sessions, issued, lost>>

\* Bound: there is room for what every request under way may write.
Room(k) == Len(log[k]) + 2 <= MaxWrites

\* PATCH /api/admin/shops/{id} and PATCH /api/admin/seats/{id}.
BeginPatch(w, t, k, patch) ==
    /\ "patch" \in Ops /\ Room(k)
    /\ Guard(w, t, [NoReq EXCEPT !.id = k, !.patch = patch], "load")

\* The columns the ORM finds modified.
Changed(k, patch) == {c \in Asked(patch) : Current(k)[c] # patch[c]}

\* db.get; attributes set to the value they have are not written.
LoadRow(w) ==
    /\ req[w].pc = "load"
    /\ LET k == req[w].id
       IN \/ /\ ~Exists(k)
             /\ Answer(w, "NOT_FOUND")
          \/ /\ Exists(k)
             /\ Changed(k, req[w].patch) = {}
             /\ Answer(w, "OK")
          \/ /\ Exists(k)
             /\ Changed(k, req[w].patch) # {}
             /\ req' = [req EXCEPT ![w].pc = "write", ![w].session = Null,
                                   ![w].changed = Changed(k, req[w].patch)]
    /\ Quiet /\ UNCHANGED log

\* Wrong: a column that is not in the body is cleared.
WriteRow_Clears(w) ==
    /\ req[w].pc = "write"
    /\ log' = [log EXCEPT ![req[w].id] = Append(@, req[w].patch)]
    /\ Answer(w, "OK")
    /\ Quiet

\* Wrong: the whole row is written as the request believes it to be.
WriteRow_Whole(w) ==
    /\ req[w].pc = "write"
    /\ LET k == req[w].id  p == req[w].patch  loaded == log[k][req[w].from]
       IN log' = [log EXCEPT ![k] = Append(@,
                    [c \in Columns |-> IF p[c] # Null THEN p[c] ELSE loaded[c]])]
    /\ Answer(w, "OK")
    /\ Quiet

\* Wrong: the change is not committed.
WriteRow_NoCommit(w) ==
    /\ req[w].pc = "write"
    /\ Answer(w, "OK")
    /\ Quiet /\ UNCHANGED log

\* The UPDATE of the modified columns and its COMMIT.
WriteRow(w) ==
    /\ req[w].pc = "write"
    /\ LET k == req[w].id  p == req[w].patch
       IN log' = [log EXCEPT ![k] = Append(@,
                    [c \in Columns |-> IF c \in req[w].changed THEN p[c]
                                       ELSE Current(k)[c]])]
    /\ Answer(w, "OK")
    /\ Quiet

\* POST /api/admin/shops.
BeginCreate(w, t, k, name) ==
    /\ "create" \in Ops /\ Room(k)
    /\ Guard(w, t, [NoReq EXCEPT !.id = k, !.patch = [name |-> name, flag |-> TRUE]],
             "look")

\* Is the id taken?
LookForShop(w) ==
    /\ req[w].pc = "look"
    /\ IF Exists(req[w].id) THEN Answer(w, "SHOP_ID_TAKEN")
       ELSE Goto(w, "insert")
    /\ Quiet /\ UNCHANGED log

\* Wrong: the row is merged into one that exists already.
InsertShop_Merge(w) ==
    /\ req[w].pc = "insert"
    /\ log' = [log EXCEPT ![req[w].id] = Append(@, req[w].patch)]
    /\ Answer(w, "CREATED")
    /\ Quiet

\* The INSERT; the primary key refuses a second one, which nobody catches.
InsertShop(w) ==
    /\ req[w].pc = "insert"
    /\ IF Exists(req[w].id)
       THEN Answer(w, "ERROR") /\ UNCHANGED log
       ELSE /\ log' = [log EXCEPT ![req[w].id] = <<req[w].patch>>]
            /\ Answer(w, "CREATED")
    /\ Quiet

Deliver(w) ==
    /\ req[w].pc = "reply"
    /\ req' = [req EXCEPT ![w] = NoReq]
    /\ Quiet /\ UNCHANGED log

\* The database stays locked for too long: nothing was written.
Fail(w) ==
    /\ "fail" \in Ops
    /\ req[w].pc \in {"write", "insert"}
    /\ Answer(w, "ERROR")
    /\ Quiet /\ UNCHANGED log

-----------------------------------------------------------------------------
(* The process and the clock.                                              *)

\* Sessions and requests are gone with the memory of the process.
Restart ==
    /\ "restart" \in Ops
    /\ sessions' = [t \in Sessions |-> Null]
    /\ lost' = {t \in Sessions : issued[t] # Null}
    /\ req' = [w \in Workers |-> NoReq]
    /\ UNCHANGED <<now, issued, log>>

TimePasses ==
    /\ now < MaxTime
    /\ now' = now + 1
    /\ UNCHANGED <<sessions, issued, lost, log, req>>

Next ==
    \/ \E t \in Sessions : Login(t)
    \/ \E w \in Workers :
          \/ \E t \in Sessions \cup {Null}, k \in RowIds :
                \/ \E patch \in Bodies : BeginPatch(w, t, k, patch)
                \/ \E name \in Names : BeginCreate(w, t, k, name)
          \/ LoadRow(w) \/ WriteRow(w) \/ LookForShop(w) \/ InsertShop(w)
          \/ Deliver(w) \/ Fail(w)
    \/ Restart
    \/ TimePasses

Spec == Init /\ [][Next]_vars

-----------------------------------------------------------------------------
(* Properties.                                                             *)

\* D-21, ADM-104, ADM-106: a request gets past the guard exactly if its
\* session was issued less than SessionTTL before and no restart has wiped it
\* out; other operators' logins, and who asks how often, make no difference.
SessionDecides ==
    [][\A w \in Workers : req[w].pc = "idle" /\ req'[w].pc # "idle" =>
          LET t == req'[w].session
          IN req'[w].code # "UNAUTHORIZED" <=>
                t # Null /\ issued[t] # Null /\ t \notin lost /\ now < issued[t] + SessionTTL]_req

\* ADM-301, ADM-602: a change answered with 200 was in force at some moment
\* while the request ran, although nothing is written where the row already
\* looked as asked when it was loaded.
PatchTakesEffect ==
    \A w \in Workers : req[w].code = "OK" =>
        \A c \in Asked(req[w].patch) :
            \E n \in req[w].from..Len(log[req[w].id]) :
                n > 0 /\ log[req[w].id][n][c] = req[w].patch[c]

\* A row only changes in columns that a request under way asks to change:
\* two operators who edit different columns of a row do not undo each other.
PatchKeepsTheRest ==
    [][\A k \in RowIds : Exists(k) /\ log'[k] # log[k] =>
          \E w \in Workers : \A c \in Columns :
              log'[k][Len(log'[k])][c] # Current(k)[c] =>
                  req[w].pc = "write" /\ req[w].id = k /\ c \in Asked(req[w].patch)]_log

\* ADM-603: an id is given to one shop; of two operators who add it at the
\* same time one is refused.
CreatedOnce ==
    \A v, w \in Workers :
        /\ req[v].code = "CREATED" /\ req[w].code = "CREATED"
        /\ req[v].id = req[w].id
        => v = w

=============================================================================
