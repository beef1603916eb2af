------------------------------- MODULE Client -------------------------------
(***************************************************************************)
(* The visitor's side of a reservation: what the single page application   *)
(* keeps in localStorage (lib/store.svelte.js), the guard of /reserve      *)
(* (lib/guard.js) and the asynchronous handlers of routes/Main.svelte,     *)
(* Reserve.svelte and Reservation.svelte, over a network that may delay,   *)
(* reorder or lose.                                                        *)
(*                                                                         *)
(* The server is reduced to what this device sees of it: its token, its    *)
(* reservations and the seats it asks about, answered one request at a     *)
(* time.  A seat is taken when the device's own reservation is on it, and  *)
(* may be taken by somebody else at any time.  A handler continues         *)
(* after its await even if its screen has been left; what it then does to  *)
(* the store counts, what it does to the screen does not, except a push.   *)
(***************************************************************************)
EXTENDS Naturals, FiniteSets

CONSTANTS
    Tabs,      \* open tabs of the browser; they share localStorage
    Ids,       \* bound: the reservation ids there are
    Seats,     \* the seats whose code can be scanned
    MaxCalls,  \* bound: requests a tab may have under way
    Null,
    Ops        \* bound: the kinds of steps made in the instance

ASSUME ClientAssumption == Null \notin Ids /\ Seats # {}

VARIABLES
    valid,     \* server: the device's token is approved and of today
    res,       \* server: the device's reservations
    held,      \* server: the seat of the last of them that was made
    verified,  \* stop-island:verify holds a token
    stored,    \* stop-island:reservation-id
    scanned,   \* stop-island:seat
    tab,       \* tab[t]: the screen and its state
    calls      \* calls[t]: requests whose answer has not arrived

vars == <<valid, res, held, verified, stored, scanned, tab, calls>>

\* phase is Reservation's.  at and seat are Reserve's: the seat it is about, and
\* what it knows of it, which is nothing until its first request is over, and
\* after that as long as none was answered.  confirming also stands for
\* Reservation's releasing.
Tab == [screen: {"main", "verify", "reserve", "reservation"}, id: Ids \cup {Null},
        phase: {"none", "loading", "active", "ended", "error"}, at: Seats,
        seat: {"mounting", "none", "available", "taken"}, confirming: BOOLEAN]

\* recheck is the request for the seat that confirm awaits after SEAT_TAKEN.
Kinds == {"reconcile", "load", "sync", "seat", "recheck", "reserve", "cancel"}

\* mounted: the component that made the call is still there.
Call == [kind: Kinds, id: Ids \cup {Null}, seat: Seats \cup {Null}, mounted: BOOLEAN,
         answer: {"none", "active", "ended", "available", "taken", "RESERVED",
                  "ALREADY_RESERVED", "SEAT_TAKEN", "TOKEN_EXPIRED", "ok"}]

TypeOK ==
    /\ valid \in BOOLEAN /\ verified \in BOOLEAN
    /\ res \in [Ids -> {"none", "active", "ended"}] /\ held \in Seats
    /\ stored \in Ids \cup {Null} /\ scanned \in Seats
    /\ tab \in [Tabs -> Tab]
    /\ calls \in [Tabs -> SUBSET Call]

Blank(screen, id, at) ==
    [screen |-> screen, id |-> id, at |-> at, confirming |-> FALSE,
     phase |-> IF screen = "reservation" THEN "loading" ELSE "none",
     seat |-> IF screen = "reserve" THEN "mounting" ELSE "none"]

Init ==
    /\ valid = TRUE /\ verified = TRUE
    /\ res = [i \in Ids |-> "none"]
    /\ stored = Null
    /\ scanned \in Seats /\ held = scanned
    /\ tab = [t \in Tabs |-> Blank("main", Null, scanned)]
    /\ calls = [t \in Tabs |-> {}]

-----------------------------------------------------------------------------
(* Screens and calls.                                                      *)

NewCall(kind, id, seat) ==
    [kind |-> kind, id |-> id, seat |-> seat, mounted |-> TRUE, answer |-> "none"]

\* The request a screen makes when it is mounted: Main and Reserve reconcile
\* the stored id, if there is one, Reservation loads the one it is to show.
\* Reserve asks for the seat once it knows of no reservation.
OnMount(screen, id, storedId, at) ==
    CASE screen = "reservation" -> {NewCall("load", id, Null)}
      [] screen \in {"main", "reserve"} /\ storedId # Null ->
            {NewCall("reconcile", storedId, Null)}
      [] screen = "reserve" /\ storedId = Null -> {NewCall("seat", Null, at)}
      [] OTHER -> {}

\* push, with the calls cs still under way.  Reservation is one component for
\* all ids: with another id it loads again, with the same one nothing happens.
Push(t, screen, id, cs, storedId) ==
    IF tab[t].screen = screen /\ tab[t].id = id
    THEN /\ calls' = [calls EXCEPT ![t] = cs]
         /\ UNCHANGED tab
    ELSE /\ tab' = [tab EXCEPT ![t] = [Blank(screen, id, scanned) EXCEPT
                !.confirming = tab[t].confirming /\ tab[t].screen = screen]]
         /\ calls' = [calls EXCEPT ![t] =
                {[c EXCEPT !.mounted = @ /\ tab[t].screen = screen] : c \in cs}
                   \cup OnMount(screen, id, storedId, scanned)]

\* Bound: a tab starts a request only while it may have one more under way.
Room(t) == Cardinality(calls[t]) < MaxCalls

Start(t, kind, id, seat) ==
    /\ Room(t)
    /\ calls' = [calls EXCEPT ![t] = @ \cup {NewCall(kind, id, seat)}]

-----------------------------------------------------------------------------
(* The visitor.                                                            *)

\* Links, the back button and bookmarks; /reserve is guarded by requireVerify.
Navigate(t, screen, id) ==
    /\ Room(t)
    /\ IF screen = "reservation" THEN id \in Ids /\ res[id] # "none" ELSE id = Null
    /\ tab[t].screen # screen \/ tab[t].id # id
    /\ Push(t, IF screen = "reserve" /\ ~verified THEN "verify" ELSE screen,
            id, calls[t], stored)
    /\ UNCHANGED <<valid, res, held, verified, stored, scanned>>

\* The code of a seat is scanned: its address loads the application anew.
Scan(t, s) ==
    /\ scanned' = s
    /\ tab' = [tab EXCEPT ![t] = Blank("main", Null, s)]
    /\ calls' = [calls EXCEPT ![t] = OnMount("main", Null, stored, s)]
    /\ UNCHANGED <<valid, res, held, verified, stored>>

\* Verify.init finds the day's approval on the server and stores it, or
\* Verify.submit gets a new receipt approved and moves on to /reserve.
Verified(t) ==
    /\ tab[t].screen = "verify" /\ Room(t)
    /\ verified' = TRUE
    /\ \/ valid /\ ~verified /\ UNCHANGED <<valid, tab, calls>>
       \/ ~valid /\ valid' = TRUE /\ Push(t, "reserve", Null, calls[t], stored)
    /\ UNCHANGED <<res, held, stored, scanned>>

\* Reserve.confirm: the button is there while the seat is known to be free.
Confirm(t) ==
    /\ tab[t].screen = "reserve" /\ ~tab[t].confirming
    /\ tab[t].seat = "available"
    /\ Start(t, "reserve", Null, tab[t].at)
    /\ tab' = [tab EXCEPT ![t].confirming = TRUE]
    /\ UNCHANGED <<valid, res, held, verified, stored, scanned>>

\* Reserve's poll, and "try again" after an error: it asks for the seat again.
FetchSeat(t) ==
    /\ tab[t].screen = "reserve" /\ ~tab[t].confirming
    /\ tab[t].seat # "mounting"
    /\ Start(t, "seat", Null, tab[t].at)
    /\ UNCHANGED <<valid, res, held, verified, stored, scanned, tab>>

\* Reservation.release.
Release(t) ==
    /\ tab[t].phase = "active" /\ ~tab[t].confirming
    /\ Start(t, "cancel", tab[t].id, Null)
    /\ tab' = [tab EXCEPT ![t].confirming = TRUE]
    /\ UNCHANGED <<valid, res, held, verified, stored, scanned>>

\* Wrong: the interval looks the stored reservation up, not the one shown.
Sync_Stored(t) ==
    /\ tab[t].phase = "active" /\ stored # Null
    /\ Start(t, "sync", stored, Null)
    /\ UNCHANGED <<valid, res, held, verified, stored, scanned, tab>>

\* The interval of a minute, and the check when the time is over; neither waits
\* for the answer of the one before.
Sync(t) ==
    /\ tab[t].phase = "active"
    /\ Start(t, "sync", tab[t].id, Null)
    /\ UNCHANGED <<valid, res, held, verified, stored, scanned, tab>>

\* "Try again" after an error.
Retry(t) ==
    /\ tab[t].phase = "error"
    /\ Start(t, "load", tab[t].id, Null)
    /\ tab' = [tab EXCEPT ![t].phase = "loading"]
    /\ UNCHANGED <<valid, res, held, verified, stored, scanned>>

\* The online event makes Main reconcile again.
Online(t) ==
    /\ "online" \in Ops
    /\ tab[t].screen = "main" /\ stored # Null
    /\ Start(t, "reconcile", stored, Null)
    /\ UNCHANGED <<valid, res, held, verified, stored, scanned, tab>>

-----------------------------------------------------------------------------
(* The server.                                                             *)

Answered(t, c, answer, id) ==
    calls' = [calls EXCEPT ![t] = (@ \ {c}) \cup {[c EXCEPT !.answer = answer, !.id = id]}]

Mine == {i \in Ids : res[i] = "active"}

ServeReserve(t, c) ==
    \/ ~valid /\ Answered(t, c, "TOKEN_EXPIRED", Null) /\ UNCHANGED <<res, held>>
    \/ /\ valid
       /\ \E i \in Mine : Answered(t, c, "ALREADY_RESERVED", i)
       /\ UNCHANGED <<res, held>>
    \/ valid /\ Mine = {} /\ Answered(t, c, "SEAT_TAKEN", Null) /\ UNCHANGED <<res, held>>
    \/ /\ valid /\ Mine = {}
       /\ \E i \in Ids :
             /\ res[i] = "none"
             /\ res' = [res EXCEPT ![i] = "active"]
             /\ Answered(t, c, "RESERVED", i)
       /\ held' = c.seat

\* GET /api/seats: the device's own reservation makes its seat a taken one.
ServeSeat(t, c) ==
    \E answer \in {"available", "taken"} :
        /\ Mine # {} /\ c.seat = held => answer = "taken"
        /\ Answered(t, c, answer, Null)

\* The server handles one of the requests of the kind.
Serve(t, kind) ==
    /\ \E c \in calls[t] :
          /\ c.kind = kind /\ c.answer = "none"
          /\ \/ kind = "reserve" /\ ServeReserve(t, c)
             \/ /\ kind = "cancel"
                /\ res' = [res EXCEPT ![c.id] = "ended"]
                /\ Answered(t, c, "ok", c.id)
                /\ UNCHANGED held
             \/ /\ kind \in {"reconcile", "load", "sync"}
                /\ Answered(t, c, res[c.id], c.id)
                /\ UNCHANGED <<res, held>>
             \/ /\ kind \in {"seat", "recheck"} /\ ServeSeat(t, c)
                /\ UNCHANGED <<res, held>>
    /\ UNCHANGED <<valid, verified, stored, scanned, tab>>

\* A reservation lapses, or the operator releases it.
EndReservation(i) ==
    /\ res[i] = "active"
    /\ res' = [res EXCEPT ![i] = "ended"]
    /\ UNCHANGED <<valid, held, verified, stored, scanned, tab, calls>>

\* An audit revokes the token, and with it the reservation.
RevokeToken ==
    /\ "revoke" \in Ops
    /\ valid
    /\ valid' = FALSE
    /\ res' = [i \in Ids |-> IF res[i] = "active" THEN "ended" ELSE res[i]]
    /\ UNCHANGED <<held, verified, stored, scanned, tab, calls>>

-----------------------------------------------------------------------------
(* Answers.                                                                *)

\* The call c is over; Reserve, if it was its own, goes on to ask for the seat.
Done(t, c) == calls' = [calls EXCEPT ![t] = @ \ {c}]

AskSeat(t, c) ==
    calls' = [calls EXCEPT ![t] = (@ \ {c}) \cup
                 IF c.mounted /\ tab[t].screen = "reserve"
                 THEN {NewCall("seat", Null, tab[t].at)} ELSE {}]

\* reconcileReservation, then its caller: Reserve moves on to an active
\* reservation, if it is still there.
Reconciled(t, c) ==
    \/ /\ c.answer = "ended"
       /\ stored' = Null
       /\ AskSeat(t, c)
       /\ UNCHANGED <<verified, tab>>
    \/ /\ c.answer = "active"
       /\ IF c.mounted /\ tab[t].screen = "reserve"
          THEN Push(t, "reservation", c.id, calls[t] \ {c}, stored)
          ELSE Done(t, c) /\ UNCHANGED tab
       /\ UNCHANGED <<verified, stored>>

\* Reservation.apply.
Applied(t, c) ==
    /\ stored' = IF c.answer = "ended" THEN Null ELSE stored
    /\ tab' = IF c.mounted THEN [tab EXCEPT ![t].phase = c.answer] ELSE tab
    /\ Done(t, c)
    /\ UNCHANGED verified

\* Reserve.fetchSeat after its await; confirm awaits the one it makes itself.
SeatFetched(t, c) ==
    /\ tab' = IF ~c.mounted THEN tab
              ELSE [tab EXCEPT ![t].seat = c.answer,
                               ![t].confirming = @ /\ c.kind # "recheck"]
    /\ Done(t, c)
    /\ UNCHANGED <<verified, stored>>

\* The finally clause of confirm and release, on the screen that is there.
Settled(t, c) ==
    tab' = IF c.mounted THEN [tab EXCEPT ![t].confirming = FALSE] ELSE tab

\* Wrong: the answer's state is stored, not its id.
Confirmed_Status(t, c) ==
    /\ stored' = c.answer
    /\ Push(t, "reservation", c.id, calls[t] \ {c}, c.id)
    /\ UNCHANGED verified

\* Reserve.confirm after its await; when the seat has been taken, confirming
\* lasts until the seat has been asked for again.
Confirmed(t, c) ==
    \/ /\ c.answer \in {"RESERVED", "ALREADY_RESERVED"}
       /\ stored' = c.id
       /\ Push(t, "reservation", c.id, calls[t] \ {c}, c.id)
       /\ UNCHANGED verified
    \/ /\ c.answer = "TOKEN_EXPIRED"
       /\ verified' = FALSE
       /\ Push(t, "verify", Null, calls[t] \ {c}, stored)
       /\ UNCHANGED stored
    \/ /\ c.answer = "SEAT_TAKEN"
       /\ calls' = [calls EXCEPT ![t] = (@ \ {c}) \cup
                       {[NewCall("recheck", Null, c.seat) EXCEPT !.mounted = c.mounted]}]
       /\ UNCHANGED <<verified, stored, tab>>

\* Reservation.release after its await.
Released(t, c) ==
    /\ stored' = Null
    /\ Push(t, "main", Null, calls[t] \ {c}, Null)
    /\ UNCHANGED verified

Receive(t, kind) ==
    /\ \E c \in calls[t] :
          /\ c.kind = kind /\ c.answer # "none"
          /\ \/ kind = "reconcile" /\ Reconciled(t, c)
             \/ kind \in {"load", "sync"} /\ Applied(t, c)
             \/ kind \in {"seat", "recheck"} /\ SeatFetched(t, c)
             \/ kind = "reserve" /\ Confirmed(t, c)
             \/ kind = "cancel" /\ Released(t, c)
    /\ UNCHANGED <<valid, res, held, scanned>>

\* What a rejected request for the seat leaves: what was known of it.
SeatUnknown(t, c) ==
    tab' = IF c.mounted /\ tab[t].seat = "mounting"
           THEN [tab EXCEPT ![t].seat = "none"] ELSE tab

\* Wrong: whatever goes wrong with the stored reservation, it is forgotten.
Lose_Forgets(t, c) ==
    /\ "lose" \in Ops
    /\ stored' = IF c.kind = "reconcile" THEN Null ELSE stored
    /\ \/ c.kind \in {"reserve", "recheck", "cancel"} /\ Settled(t, c) /\ Done(t, c)
       \/ c.kind = "seat" /\ SeatUnknown(t, c) /\ Done(t, c)
       \/ /\ c.kind = "load"
          /\ tab' = IF c.mounted THEN [tab EXCEPT ![t].phase = "error"] ELSE tab
          /\ Done(t, c)
       \/ c.kind = "sync" /\ Done(t, c) /\ UNCHANGED tab
       \/ c.kind = "reconcile" /\ AskSeat(t, c) /\ UNCHANGED tab
    /\ UNCHANGED <<valid, res, held, verified, scanned>>

\* Wrong: what fails after SEAT_TAKEN leaves confirm without its finally clause.
Lose_Recheck(t, c) ==
    /\ "lose" \in Ops
    /\ \/ c.kind \in {"reserve", "cancel"} /\ Settled(t, c) /\ Done(t, c)
       \/ c.kind = "recheck" /\ Done(t, c) /\ UNCHANGED tab
       \/ c.kind = "seat" /\ SeatUnknown(t, c) /\ Done(t, c)
       \/ /\ c.kind = "load"
          /\ tab' = IF c.mounted THEN [tab EXCEPT ![t].phase = "error"] ELSE tab
          /\ Done(t, c)
       \/ c.kind = "sync" /\ Done(t, c) /\ UNCHANGED tab
       \/ c.kind = "reconcile" /\ AskSeat(t, c) /\ UNCHANGED tab
    /\ UNCHANGED <<valid, res, held, verified, stored, scanned>>

\* The request or its answer is lost and the await throws; the stored id stays.
Lose(t, c) ==
    /\ "lose" \in Ops
    /\ \/ c.kind \in {"reserve", "recheck", "cancel"} /\ Settled(t, c) /\ Done(t, c)
       \/ c.kind = "seat" /\ SeatUnknown(t, c) /\ Done(t, c)
       \/ /\ c.kind = "load"
          /\ tab' = IF c.mounted THEN [tab EXCEPT ![t].phase = "error"] ELSE tab
          /\ Done(t, c)
       \/ c.kind = "sync" /\ Done(t, c) /\ UNCHANGED tab
       \/ c.kind = "reconcile" /\ AskSeat(t, c) /\ UNCHANGED tab
    /\ UNCHANGED <<valid, res, held, verified, stored, scanned>>

-----------------------------------------------------------------------------
Next ==
    \/ \E t \in Tabs :
          \/ \E screen \in {"main", "reserve", "reservation"}, id \in Ids \cup {Null} :
                Navigate(t, screen, id)
          \/ \E s \in Seats : Scan(t, s)
          \/ Verified(t) \/ Confirm(t) \/ FetchSeat(t)
          \/ Release(t) \/ Sync(t) \/ Retry(t) \/ Online(t)
          \/ \E kind \in Kinds : Serve(t, kind) \/ Receive(t, kind)
          \/ \E c \in calls[t] : Lose(t, c)
    \/ \E i \in Ids : EndReservation(i)
    \/ RevokeToken

Spec == Init /\ [][Next]_vars

\* The server works, the browser continues what has been answered, and the
\* lookups that are repeated, sync's, are not lost every time.
FairSpec ==
    /\ Spec
    /\ \A t \in Tabs :
          /\ \A kind \in Kinds \ {"sync"} :
                WF_vars(Serve(t, kind)) /\ WF_vars(Receive(t, kind))
          /\ SF_vars(Serve(t, "sync")) /\ SF_vars(Receive(t, "sync"))
          /\ SF_vars(Sync(t))

-----------------------------------------------------------------------------
(* Properties.                                                             *)

\* The store's rule (store.svelte.js): an id is removed when it is stale, so
\* never while the server has it as active.
OnlyStaleIsDropped ==
    [][stored # Null /\ stored' = Null => res[stored] # "active"]_stored

\* reconcileReservation, Reservation.apply and release: the store's id is only
\* dropped on an answer about a reservation that really is over.  That it need
\* not be the one stored is all that is wrong in OnlyStaleIsDropped.
DropFollowsAnEnd ==
    [][stored # Null /\ stored' = Null =>
          \E t \in Tabs : \E c \in calls[t] :
              c.answer \in {"ended", "ok"} /\ res[c.id] = "ended"]_vars

\* RSV-604, RSV-608: a completion screen does not go on showing a reservation
\* that is over, although a late answer may bring it back for a while.
EndIsNoticed ==
    \A t \in Tabs, i \in Ids :
        tab[t].id = i /\ tab[t].phase = "active" /\ res[i] = "ended"
            ~> ~(tab[t].id = i /\ tab[t].phase = "active")

\* RSV-504: confirm and release disable their buttons while they run, and give
\* them back in the end, whatever is answered, lost or pushed meanwhile, also when
\* confirm has the seat to ask for again after SEAT_TAKEN.
ButtonComesBack == \A t \in Tabs : tab[t].confirming ~> ~tab[t].confirming

=============================================================================
