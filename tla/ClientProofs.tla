---------------------------- MODULE ClientProofs ----------------------------
(***************************************************************************)
(* Theorems about Client, for every number of tabs and reservations and    *)
(* for answers that arrive in any order, late or never.                    *)
(***************************************************************************)
EXTENDS Client, TLAPS

-----------------------------------------------------------------------------
(* The inductive invariant.                                                *)

\* A reservation the server has made, as its table r is.
Known(id, r) == id \in Ids /\ r[id] # "none"

Questions == {"reconcile", "load", "sync"}
SeatKinds == {"seat", "recheck"}

\* What is still there of the completion screen shows a reservation, and no
\* other screen does.
TabOK(p, r) ==
    /\ p.screen = "reservation" => Known(p.id, r)
    /\ p.screen # "reservation" => p.id = Null /\ p.phase = "none"

\* A call of a tab that shows screen asks for a reservation that was made, is
\* answered as its kind is, is about a seat if it is Reserve's, and belongs to the
\* completion screen while that is there.  An end that was answered is one.
CallOK(c, screen, r) ==
    /\ c.kind \in Questions \cup {"cancel"} => Known(c.id, r)
    /\ c.kind \in Questions => c.answer \in {"none", "active", "ended"}
    /\ c.kind = "cancel" => c.answer \in {"none", "ok"}
    /\ c.kind = "reserve" =>
          c.answer \in {"none", "RESERVED", "ALREADY_RESERVED", "SEAT_TAKEN", "TOKEN_EXPIRED"}
    /\ c.answer \in {"RESERVED", "ALREADY_RESERVED"} => Known(c.id, r)
    /\ c.kind \in SeatKinds \cup {"reserve"} => c.seat \in Seats
    /\ c.kind \in SeatKinds => c.answer \in {"none", "available", "taken"}
    /\ c.mounted /\ c.kind \in {"load", "sync"} => screen = "reservation"
    /\ c.answer \in {"ended", "ok"} => r[c.id] = "ended"

ClientInv ==
    /\ TypeOK
    /\ stored # Null => Known(stored, res)
    /\ \A t \in Tabs : TabOK(tab[t], res)
    /\ \A t \in Tabs : \A c \in calls[t] : CallOK(c, tab[t].screen, res)

-----------------------------------------------------------------------------
(* Steps of the browser.                                                   *)

Screens == {"main", "verify", "reserve", "reservation"}

LEMMA BlankFields ==
    ASSUME NEW screen \in Screens, NEW id \in Ids \cup {Null}, NEW at \in Seats
    PROVE  LET b == Blank(screen, id, at)
           IN /\ b \in Tab /\ b.screen = screen /\ b.id = id
              /\ screen # "reservation" => b.phase = "none"
<1> DEFINE phase == IF screen = "reservation" THEN "loading" ELSE "none"
           seat  == IF screen = "reserve" THEN "mounting" ELSE "none"
           b     == Blank(screen, id, at)
<1>1. b = [screen |-> screen, id |-> id, at |-> at, confirming |-> FALSE,
           phase |-> phase, seat |-> seat]
  BY DEF Blank
<1>2. /\ phase \in {"none", "loading"} /\ seat \in {"none", "mounting"}
      /\ screen # "reservation" => phase = "none"
  OBVIOUS
<1> HIDE DEF phase, seat, b
<1>3. b \in Tab /\ b.screen = screen /\ b.id = id /\ b.phase = phase
  BY <1>1, <1>2 DEF Tab, Screens
<1> QED
  BY <1>2, <1>3 DEF b

LEMMA BlankTab ==
    ASSUME NEW screen \in Screens, NEW id \in Ids \cup {Null}, NEW at \in Seats,
           NEW confirming \in BOOLEAN
    PROVE  LET p == [Blank(screen, id, at) EXCEPT !.confirming = confirming]
           IN /\ p \in Tab /\ p.screen = screen /\ p.id = id
              /\ screen # "reservation" => p.phase = "none"
<1>1. ASSUME NEW q \in Tab
      PROVE  LET r == [q EXCEPT !.confirming = confirming]
             IN r \in Tab /\ r.screen = q.screen /\ r.id = q.id /\ r.phase = q.phase
  BY DEF Tab
<1> QED
  BY <1>1, BlankFields

LEMMA TabFields ==
    ASSUME NEW p \in Tab, NEW confirming \in BOOLEAN,
           NEW phase \in {"none", "loading", "active", "ended", "error"}
    PROVE  /\ LET q == [p EXCEPT !.confirming = confirming]
              IN q \in Tab /\ q.screen = p.screen /\ q.id = p.id /\ q.phase = p.phase
           /\ LET q == [p EXCEPT !.phase = phase]
              IN q \in Tab /\ q.screen = p.screen /\ q.id = p.id /\ q.phase = phase
BY DEF Tab

LEMMA NewCallFields ==
    ASSUME NEW kind \in Kinds, NEW id \in Ids \cup {Null}, NEW seat \in Seats \cup {Null}
    PROVE  LET c == NewCall(kind, id, seat)
           IN /\ c \in Call /\ c.kind = kind /\ c.id = id /\ c.seat = seat
              /\ c.mounted /\ c.answer = "none"
BY DEF NewCall, Call

\* A reservation that was made stays one, one that is over stays over, and the
\* seats are seats.
Grows ==
    /\ res' \in [Ids -> {"none", "active", "ended"}]
    /\ \A i \in Ids : /\ res[i] # "none" => res'[i] # "none"
                      /\ res[i] = "ended" => res'[i] = "ended"
    /\ held' \in Seats /\ scanned' \in Seats

LEMMA KeptByGrowth ==
    ASSUME Grows
    PROVE  /\ \A i : Known(i, res) => Known(i, res')
           /\ \A p : TabOK(p, res) => TabOK(p, res')
           /\ \A c \in Call : \A screen : CallOK(c, screen, res) => CallOK(c, screen, res')
<1>1. \A i : Known(i, res) => Known(i, res')
  BY DEF Known, Grows
<1>2. \A p : TabOK(p, res) => TabOK(p, res')
  BY <1>1 DEF TabOK
<1>3. ASSUME NEW c \in Call, NEW screen, CallOK(c, screen, res)
      PROVE  CallOK(c, screen, res')
  <2>1. c.answer \in {"ended", "ok"} => c.id \in Ids /\ res[c.id] = "ended"
    BY <1>3 DEF CallOK, Known, Call, Kinds, Questions, SeatKinds
  <2>2. c.answer \in {"ended", "ok"} => res'[c.id] = "ended"
    BY <2>1 DEF Grows
  <2> QED
    BY <1>1, <1>3, <2>2 DEF CallOK
<1> QED
  BY <1>1, <1>2, <1>3

\* Nothing the server does on its own disturbs the screens.
LEMMA ServerKeepsInv ==
    ASSUME ClientInv, Grows, valid' \in BOOLEAN, UNCHANGED <<verified, stored, tab, calls>>
    PROVE  ClientInv'
<1>1. TypeOK'
  BY DEF ClientInv, TypeOK, Grows
<1>2. \A t \in Tabs : \A c \in calls[t] : c \in Call
  BY DEF ClientInv, TypeOK
<1> QED
  BY <1>1, <1>2, KeptByGrowth DEF ClientInv

\* A step of one tab.
LEMMA TabStep ==
    ASSUME ClientInv, Grows, NEW t \in Tabs, NEW p \in Tab, NEW cs \in SUBSET Call,
           TabOK(p, res'), \A c \in cs : CallOK(c, p.screen, res'),
           valid' \in BOOLEAN, verified' \in BOOLEAN,
           stored' = Null \/ Known(stored', res'),
           tab' = [tab EXCEPT ![t] = p], calls' = [calls EXCEPT ![t] = cs]
    PROVE  ClientInv'
<1>1. TypeOK'
  BY DEF ClientInv, TypeOK, Grows, Known
<1>2. ASSUME NEW s \in Tabs
      PROVE  TabOK(tab'[s], res') /\ \A c \in calls'[s] : CallOK(c, tab'[s].screen, res')
  <2>1. CASE s = t
    <3>1. tab'[s] = p /\ calls'[s] = cs
      BY <2>1 DEF ClientInv, TypeOK
    <3> QED
      BY <3>1
  <2>2. CASE s # t
    <3>1. tab'[s] = tab[s] /\ calls'[s] = calls[s]
      BY <2>2 DEF ClientInv, TypeOK
    <3>2. /\ TabOK(tab[s], res)
          /\ \A c \in calls[s] : c \in Call /\ CallOK(c, tab[s].screen, res)
      BY DEF ClientInv, TypeOK
    <3> QED
      BY <3>1, <3>2, KeptByGrowth
  <2> QED
    BY <2>1, <2>2
<1> QED
  BY <1>1, <1>2 DEF ClientInv

\* What the invariant says of one tab.
LEMMA OfTab ==
    ASSUME ClientInv, NEW t \in Tabs
    PROVE  /\ tab[t] \in Tab /\ TabOK(tab[t], res) /\ tab[t].at \in Seats
           /\ calls[t] \in SUBSET Call
           /\ \A c \in calls[t] : CallOK(c, tab[t].screen, res)
BY DEF ClientInv, TypeOK, Tab

\* The calls of a component that is left or kept: the new component's own call
\* asks for a reservation that was made.
LEMMA MountCall ==
    ASSUME NEW screen \in Screens, NEW id \in Ids \cup {Null}, NEW sid \in Ids \cup {Null},
           NEW r, screen = "reservation" => Known(id, r), sid # Null => Known(sid, r),
           NEW at \in Seats, NEW c \in OnMount(screen, id, sid, at)
    PROVE  c \in Call /\ CallOK(c, screen, r)
<1>1. CASE screen = "reservation"
  <2>1. c = NewCall("load", id, Null)
    BY <1>1 DEF OnMount
  <2> QED
    BY <1>1, <2>1, NewCallFields DEF CallOK, Kinds, Questions, SeatKinds
<1>2. CASE screen # "reservation" /\ sid # Null
  <2>1. c = NewCall("reconcile", sid, Null)
    BY <1>2 DEF OnMount
  <2> QED
    BY <1>2, <2>1, NewCallFields DEF CallOK, Kinds, Questions, SeatKinds
<1>3. CASE screen # "reservation" /\ sid = Null
  <2>1. c = NewCall("seat", Null, at)
    BY <1>3 DEF OnMount
  <2> QED
    BY <2>1, NewCallFields DEF CallOK, Kinds, Questions, SeatKinds
<1> QED
  BY <1>1, <1>2, <1>3

\* A call whose component may have been left.
LEMMA LeftCall ==
    ASSUME NEW c \in Call, NEW old \in Screens, NEW screen \in Screens, NEW r,
           CallOK(c, old, r)
    PROVE  LET d == [c EXCEPT !.mounted = c.mounted /\ old = screen]
           IN d \in Call /\ CallOK(d, screen, r)
<1> DEFINE mounted == c.mounted /\ old = screen
           d       == [c EXCEPT !.mounted = mounted]
<1>1. mounted \in BOOLEAN
  OBVIOUS
<1>2. /\ d \in Call /\ d.kind = c.kind /\ d.id = c.id /\ d.answer = c.answer
      /\ d.seat = c.seat /\ d.mounted = mounted
  <2>1. ASSUME NEW b \in BOOLEAN
        PROVE  LET e == [c EXCEPT !.mounted = b]
               IN /\ e \in Call /\ e.kind = c.kind /\ e.id = c.id /\ e.answer = c.answer
                  /\ e.seat = c.seat /\ e.mounted = b
    BY DEF Call
  <2> HIDE DEF mounted
  <2> QED
    BY <1>1, <2>1
<1>3. d.mounted => c.mounted /\ old = screen
  BY <1>2
<1> HIDE DEF mounted, d
<1>4. CallOK(d, screen, r)
  BY <1>2, <1>3 DEF CallOK
<1> QED
  BY <1>2, <1>4 DEF d, mounted

LEMMA PushStep ==
    ASSUME ClientInv, Grows, NEW t \in Tabs,
           NEW screen \in Screens, NEW id \in Ids \cup {Null}, NEW sid \in Ids \cup {Null},
           NEW cs \in SUBSET calls[t],
           screen = "reservation" => Known(id, res'), screen # "reservation" => id = Null,
           sid # Null => Known(sid, res'),
           valid' \in BOOLEAN, verified' \in BOOLEAN,
           stored' = Null \/ Known(stored', res'),
           Push(t, screen, id, cs, sid)
    PROVE  ClientInv'
<1>1. /\ tab[t] \in Tab /\ TabOK(tab[t], res') /\ tab[t].screen \in Screens
      /\ cs \in SUBSET Call /\ \A c \in cs : CallOK(c, tab[t].screen, res')
  BY OfTab, KeptByGrowth DEF Tab, Screens
<1>2. CASE tab[t].screen = screen /\ tab[t].id = id
  <2>1. tab' = [tab EXCEPT ![t] = tab[t]] /\ calls' = [calls EXCEPT ![t] = cs]
    BY <1>2 DEF Push, ClientInv, TypeOK
  <2> QED
    BY <1>1, <2>1, TabStep
<1>3. CASE ~(tab[t].screen = screen /\ tab[t].id = id)
  <2> DEFINE confirming == tab[t].confirming /\ tab[t].screen = screen
             p   == [Blank(screen, id, scanned) EXCEPT !.confirming = confirming]
             old == {[c EXCEPT !.mounted = c.mounted /\ tab[t].screen = screen] : c \in cs}
             new == old \cup OnMount(screen, id, sid, scanned)
  <2>1. tab' = [tab EXCEPT ![t] = p] /\ calls' = [calls EXCEPT ![t] = new]
    BY <1>3 DEF Push
  <2>2. /\ p \in Tab /\ p.screen = screen /\ p.id = id
        /\ screen # "reservation" => p.phase = "none"
    <3>1. confirming \in BOOLEAN
      OBVIOUS
    <3>2. scanned \in Seats
      BY DEF ClientInv, TypeOK
    <3> HIDE DEF confirming
    <3> QED
      BY <3>1, <3>2, BlankTab
  <2>3. TabOK(p, res')
    BY <2>2 DEF TabOK
  <2>4. \A c \in new : c \in Call /\ CallOK(c, screen, res')
    <3>1. \A c \in old : c \in Call /\ CallOK(c, screen, res')
      BY <1>1, LeftCall
    <3>2. \A c \in OnMount(screen, id, sid, scanned) : c \in Call /\ CallOK(c, screen, res')
      <4>1. scanned \in Seats
        BY DEF ClientInv, TypeOK
      <4> QED
        BY <4>1, MountCall
    <3> QED
      BY <3>1, <3>2
  <2> HIDE DEF p, new
  <2> QED
    BY <2>1, <2>2, <2>3, <2>4, TabStep
<1> QED
  BY <1>2, <1>3

-----------------------------------------------------------------------------
(* One lemma for each action.                                              *)

\* A call the tab starts.
LEMMA StartStep ==
    ASSUME ClientInv, NEW t \in Tabs, NEW kind \in Kinds, NEW id \in Ids \cup {Null},
           NEW seat \in Seats \cup {Null}, NEW p \in Tab, TabOK(p, res), p.screen = tab[t].screen,
           kind \in Questions \cup {"cancel"} => Known(id, res),
           kind \in {"load", "sync"} => p.screen = "reservation",
           kind \in SeatKinds \cup {"reserve"} => seat \in Seats,
           Start(t, kind, id, seat), tab' = [tab EXCEPT ![t] = p],
           UNCHANGED <<valid, res, held, verified, stored, scanned>>
    PROVE  ClientInv'
<1>1. Grows /\ valid' \in BOOLEAN /\ verified' \in BOOLEAN
      /\ (stored' = Null \/ Known(stored', res'))
  BY DEF Grows, ClientInv, TypeOK
<1> DEFINE c == NewCall(kind, id, seat)
           cs == calls[t] \cup {c}
<1>2. c \in Call /\ c.kind = kind /\ c.id = id /\ c.seat = seat /\ c.answer = "none"
  BY NewCallFields
<1>3. CallOK(c, p.screen, res)
  <2> HIDE DEF c
  <2> QED
    BY <1>2 DEF CallOK
<1>4. cs \in SUBSET Call /\ \A d \in cs : CallOK(d, p.screen, res)
  BY <1>2, <1>3, OfTab
<1>5. calls' = [calls EXCEPT ![t] = cs]
  BY DEF Start
<1> HIDE DEF cs
<1> QED
  BY <1>1, <1>4, <1>5, TabStep

LEMMA NavigateStep ==
    ASSUME ClientInv, NEW t \in Tabs, NEW screen \in {"main", "reserve", "reservation"},
           NEW id \in Ids \cup {Null}, Navigate(t, screen, id)
    PROVE  ClientInv'
<1> DEFINE target == IF screen = "reserve" /\ ~verified THEN "verify" ELSE screen
<1>1. /\ Grows /\ valid' \in BOOLEAN /\ verified' \in BOOLEAN
      /\ stored' = Null \/ Known(stored', res')
      /\ stored \in Ids \cup {Null} /\ (stored # Null => Known(stored, res'))
  BY DEF Navigate, Grows, ClientInv, TypeOK
<1>2. target \in Screens
  BY DEF Screens
<1>3. /\ target = "reservation" => Known(id, res')
      /\ target # "reservation" => id = Null
  BY DEF Navigate, Known
<1>4. Push(t, target, id, calls[t], stored)
  BY DEF Navigate
<1> HIDE DEF target
<1> QED
  BY <1>1, <1>2, <1>3, <1>4, PushStep

LEMMA VerifiedStep ==
    ASSUME ClientInv, NEW t \in Tabs, Verified(t)
    PROVE  ClientInv'
<1>1. /\ Grows /\ verified' \in BOOLEAN /\ valid' \in BOOLEAN
      /\ stored' = Null \/ Known(stored', res')
      /\ stored \in Ids \cup {Null} /\ (stored # Null => Known(stored, res'))
  BY DEF Verified, Grows, ClientInv, TypeOK
<1>2. CASE UNCHANGED <<tab, calls>>
  BY <1>1, <1>2 DEF ClientInv, TypeOK, Verified
<1>3. CASE Push(t, "reserve", Null, calls[t], stored)
  BY <1>1, <1>3, PushStep DEF Screens
<1> QED
  BY <1>2, <1>3 DEF Verified

LEMMA ConfirmStep ==
    ASSUME ClientInv, NEW t \in Tabs, Confirm(t)
    PROVE  ClientInv'
<1> DEFINE p == [tab[t] EXCEPT !.confirming = TRUE]
<1>0. tab[t] \in Tab
  BY OfTab
<1>1. p \in Tab /\ p.screen = tab[t].screen /\ p.id = tab[t].id /\ p.phase = tab[t].phase
  BY <1>0 DEF Tab
<1>2. TabOK(p, res)
  <2> HIDE DEF p
  <2> QED
    BY <1>1, OfTab DEF TabOK
<1>3. tab' = [tab EXCEPT ![t] = p]
  BY DEF Confirm
<1>4. Start(t, "reserve", Null, tab[t].at)
  BY DEF Confirm
<1>5. UNCHANGED <<valid, res, held, verified, stored, scanned>>
  BY DEF Confirm
<1> HIDE DEF p
<1> QED
  BY <1>1, <1>2, <1>3, <1>4, <1>5, OfTab, StartStep DEF Kinds, Questions, SeatKinds

LEMMA FetchSeatStep ==
    ASSUME ClientInv, NEW t \in Tabs, FetchSeat(t)
    PROVE  ClientInv'
<1>1. tab' = [tab EXCEPT ![t] = tab[t]] /\ Start(t, "seat", Null, tab[t].at)
  BY DEF FetchSeat, ClientInv, TypeOK
<1>2. UNCHANGED <<valid, res, held, verified, stored, scanned>>
  BY DEF FetchSeat
<1> QED
  BY <1>1, <1>2, OfTab, StartStep DEF Kinds, Questions, SeatKinds

LEMMA ScanStep ==
    ASSUME ClientInv, NEW t \in Tabs, NEW s \in Seats, Scan(t, s)
    PROVE  ClientInv'
<1> DEFINE p  == Blank("main", Null, s)
           cs == OnMount("main", Null, stored, s)
<1>1. /\ Grows /\ valid' \in BOOLEAN /\ verified' \in BOOLEAN
      /\ stored' = Null \/ Known(stored', res')
      /\ stored \in Ids \cup {Null} /\ (stored # Null => Known(stored, res'))
  BY DEF Scan, Grows, ClientInv, TypeOK
<1>2. p \in Tab /\ p.screen = "main" /\ p.id = Null /\ p.phase = "none"
  BY BlankFields DEF Screens
<1>3. cs \in SUBSET Call /\ \A c \in cs : CallOK(c, "main", res')
  <2> HIDE DEF cs
  <2>1. \A c \in cs : c \in Call /\ CallOK(c, "main", res')
    BY <1>1, MountCall DEF cs, Screens
  <2> QED
    BY <2>1
<1>4. tab' = [tab EXCEPT ![t] = p] /\ calls' = [calls EXCEPT ![t] = cs]
  BY DEF Scan
<1> HIDE DEF p, cs
<1>5. TabOK(p, res')
  BY <1>2 DEF TabOK
<1> QED
  BY <1>1, <1>2, <1>3, <1>4, <1>5, TabStep

\* A completion screen in a phase of its own shows a reservation.
LEMMA PhaseShows ==
    ASSUME ClientInv, NEW t \in Tabs, tab[t].phase # "none"
    PROVE  tab[t].screen = "reservation" /\ Known(tab[t].id, res) /\ tab[t].id \in Ids
BY OfTab DEF TabOK, Known

LEMMA ReleaseStep ==
    ASSUME ClientInv, NEW t \in Tabs, Release(t)
    PROVE  ClientInv'
<1> DEFINE p == [tab[t] EXCEPT !.confirming = TRUE]
<1>0. tab[t] \in Tab
  BY OfTab
<1>1. p \in Tab /\ p.screen = tab[t].screen /\ p.id = tab[t].id /\ p.phase = tab[t].phase
  BY <1>0 DEF Tab
<1>2. TabOK(p, res)
  <2> HIDE DEF p
  <2> QED
    BY <1>1, OfTab DEF TabOK
<1>3. tab' = [tab EXCEPT ![t] = p] /\ Start(t, "cancel", tab[t].id, Null)
  BY DEF Release
<1>4. UNCHANGED <<valid, res, held, verified, stored, scanned>> /\ tab[t].phase # "none"
  BY DEF Release
<1> HIDE DEF p
<1> QED
  BY <1>1, <1>2, <1>3, <1>4, PhaseShows, StartStep DEF Kinds, Questions, SeatKinds

LEMMA SyncStep ==
    ASSUME ClientInv, NEW t \in Tabs, Sync(t)
    PROVE  ClientInv'
<1>1. tab' = [tab EXCEPT ![t] = tab[t]] /\ Start(t, "sync", tab[t].id, Null)
  BY DEF Sync, ClientInv, TypeOK
<1>2. UNCHANGED <<valid, res, held, verified, stored, scanned>> /\ tab[t].phase # "none"
  BY DEF Sync
<1> QED
  BY <1>1, <1>2, OfTab, PhaseShows, StartStep DEF Kinds, Questions, SeatKinds

LEMMA RetryStep ==
    ASSUME ClientInv, NEW t \in Tabs, Retry(t)
    PROVE  ClientInv'
<1> DEFINE p == [tab[t] EXCEPT !.phase = "loading"]
<1>1. p \in Tab /\ p.screen = tab[t].screen /\ p.id = tab[t].id
  BY OfTab, TabFields
<1>2. tab[t].phase # "none" /\ UNCHANGED <<valid, res, held, verified, stored, scanned>>
  BY DEF Retry
<1>3. TabOK(p, res)
  <2> HIDE DEF p
  <2> QED
    BY <1>1, <1>2, PhaseShows DEF TabOK
<1>4. tab' = [tab EXCEPT ![t] = p] /\ Start(t, "load", tab[t].id, Null)
  BY DEF Retry
<1> HIDE DEF p
<1> QED
  BY <1>1, <1>2, <1>3, <1>4, PhaseShows, StartStep DEF Kinds, Questions, SeatKinds

LEMMA OnlineStep ==
    ASSUME ClientInv, NEW t \in Tabs, Online(t)
    PROVE  ClientInv'
<1>1. tab' = [tab EXCEPT ![t] = tab[t]] /\ Start(t, "reconcile", stored, Null)
  BY DEF Online, ClientInv, TypeOK
<1>2. UNCHANGED <<valid, res, held, verified, stored, scanned>> /\ stored \in Ids \cup {Null}
      /\ Known(stored, res)
  BY DEF Online, ClientInv, TypeOK
<1> QED
  BY <1>1, <1>2, OfTab, StartStep DEF Kinds, Questions, SeatKinds

\* The server answers the call c.
LEMMA AnsweredStep ==
    ASSUME ClientInv, Grows, NEW t \in Tabs, NEW c \in calls[t],
           NEW id \in Ids \cup {Null},
           NEW answer \in {"none", "active", "ended", "available", "taken", "RESERVED",
                           "ALREADY_RESERVED", "SEAT_TAKEN", "TOKEN_EXPIRED", "ok"},
           c.kind \in Questions \cup {"cancel"} => Known(id, res'),
           c.kind \in Questions => answer \in {"none", "active", "ended"},
           c.kind = "cancel" => answer \in {"none", "ok"},
           c.kind \in SeatKinds => answer \in {"none", "available", "taken"},
           c.kind = "reserve" =>
              answer \in {"none", "RESERVED", "ALREADY_RESERVED", "SEAT_TAKEN", "TOKEN_EXPIRED"},
           answer \in {"RESERVED", "ALREADY_RESERVED"} => Known(id, res'),
           answer \in {"ended", "ok"} => res'[id] = "ended",
           Answered(t, c, answer, id), UNCHANGED <<valid, verified, stored, scanned, tab>>
    PROVE  ClientInv'
<1> DEFINE d  == [c EXCEPT !.answer = answer, !.id = id]
           cs == (calls[t] \ {c}) \cup {d}
<1>1. /\ valid' \in BOOLEAN /\ verified' \in BOOLEAN
      /\ stored' = Null \/ Known(stored', res')
  BY KeptByGrowth DEF ClientInv, TypeOK
<1>2. /\ tab[t] \in Tab /\ TabOK(tab[t], res')
      /\ \A e \in calls[t] : e \in Call /\ CallOK(e, tab[t].screen, res')
  BY OfTab, KeptByGrowth
<1>3. /\ d \in Call /\ d.kind = c.kind /\ d.id = id /\ d.answer = answer
      /\ d.mounted = c.mounted /\ d.seat = c.seat
  BY <1>2 DEF Call
<1>4. CallOK(d, tab[t].screen, res')
  <2>1. /\ c.mounted /\ c.kind \in {"load", "sync"} => tab[t].screen = "reservation"
        /\ c.kind \in SeatKinds \cup {"reserve"} => c.seat \in Seats
    BY <1>2 DEF CallOK
  <2> HIDE DEF d
  <2> QED
    BY <1>3, <2>1 DEF CallOK
<1>5. cs \in SUBSET Call /\ \A e \in cs : CallOK(e, tab[t].screen, res')
  <2> HIDE DEF d
  <2> QED
    BY <1>2, <1>3, <1>4
<1>6. tab' = [tab EXCEPT ![t] = tab[t]] /\ calls' = [calls EXCEPT ![t] = cs]
  BY DEF Answered, ClientInv, TypeOK
<1> HIDE DEF cs
<1> QED
  BY <1>1, <1>2, <1>5, <1>6, TabStep

LEMMA ServeStep ==
    ASSUME ClientInv, NEW t \in Tabs, NEW kind \in Kinds, Serve(t, kind)
    PROVE  ClientInv'
<1> USE DEF Questions, SeatKinds
<1>1. PICK c \in calls[t] :
          /\ c.kind = kind /\ c.answer = "none"
          /\ \/ kind = "reserve" /\ ServeReserve(t, c)
             \/ /\ kind = "cancel"
                /\ res' = [res EXCEPT ![c.id] = "ended"]
                /\ Answered(t, c, "ok", c.id)
                /\ UNCHANGED held
             \/ /\ kind \in {"reconcile", "load", "sync"}
                /\ Answered(t, c, res[c.id], c.id)
                /\ UNCHANGED <<res, held>>
             \/ /\ kind \in {"seat", "recheck"} /\ ServeSeat(t, c)
                /\ UNCHANGED <<res, held>>
  BY DEF Serve
<1>2. UNCHANGED <<valid, verified, stored, scanned, tab>>
  BY DEF Serve
<1>3. CallOK(c, tab[t].screen, res) /\ c \in Call
  BY OfTab
<1>4. /\ res \in [Ids -> {"none", "active", "ended"}]
      /\ held \in Seats /\ scanned' \in Seats
  BY <1>2 DEF ClientInv, TypeOK
<1>5. UNCHANGED <<res, held>> => Grows
  BY <1>4 DEF Grows
<1>6. CASE kind = "reserve" /\ ServeReserve(t, c)
  <2>1. CASE Answered(t, c, "TOKEN_EXPIRED", Null) /\ UNCHANGED <<res, held>>
    BY <1>1, <1>2, <1>5, <1>6, <2>1, AnsweredStep
  <2>2. CASE Answered(t, c, "SEAT_TAKEN", Null) /\ UNCHANGED <<res, held>>
    BY <1>1, <1>2, <1>5, <1>6, <2>2, AnsweredStep
  <2>3. ASSUME NEW i \in Mine, Answered(t, c, "ALREADY_RESERVED", i),
               UNCHANGED <<res, held>>
        PROVE  ClientInv'
    <3>1. i \in Ids /\ Known(i, res')
      BY <2>3 DEF Mine, Known
    <3> QED
      BY <1>1, <1>2, <1>5, <1>6, <2>3, <3>1, AnsweredStep
  <2>4. ASSUME NEW i \in Ids, res[i] = "none", res' = [res EXCEPT ![i] = "active"],
               Answered(t, c, "RESERVED", i), held' = c.seat
        PROVE  ClientInv'
    <3>1. c.seat \in Seats
      BY <1>1, <1>3, <1>6 DEF CallOK
    <3>2. Grows /\ Known(i, res')
      BY <1>4, <2>4, <3>1 DEF Grows, Known
    <3> QED
      BY <1>1, <1>2, <1>6, <2>4, <3>2, AnsweredStep
  <2> QED
    BY <1>6, <2>1, <2>2, <2>3, <2>4 DEF ServeReserve
<1>7. CASE /\ kind = "cancel"
           /\ res' = [res EXCEPT ![c.id] = "ended"]
           /\ Answered(t, c, "ok", c.id)
           /\ UNCHANGED held
  <2>1. c.id \in Ids /\ res[c.id] # "none"
    BY <1>1, <1>3, <1>7 DEF CallOK, Known
  <2>2. Grows /\ Known(c.id, res') /\ res'[c.id] = "ended"
    BY <1>4, <1>7, <2>1 DEF Grows, Known
  <2> QED
    BY <1>1, <1>2, <1>7, <2>1, <2>2, AnsweredStep
<1>8. CASE /\ kind \in {"reconcile", "load", "sync"}
           /\ Answered(t, c, res[c.id], c.id)
           /\ UNCHANGED <<res, held>>
  <2>1. c.id \in Ids /\ res[c.id] # "none"
    BY <1>1, <1>3, <1>8 DEF CallOK, Known
  <2>2. res[c.id] \in {"active", "ended"} /\ Known(c.id, res')
    BY <1>4, <1>8, <2>1 DEF Known
  <2> QED
    BY <1>1, <1>2, <1>5, <1>8, <2>1, <2>2, AnsweredStep
<1>9. CASE /\ kind \in {"seat", "recheck"} /\ ServeSeat(t, c)
           /\ UNCHANGED <<res, held>>
  <2>1. PICK answer \in {"available", "taken"} : Answered(t, c, answer, Null)
    BY <1>9 DEF ServeSeat
  <2> QED
    BY <1>1, <1>2, <1>5, <1>9, <2>1, AnsweredStep
<1> QED
  BY <1>1, <1>6, <1>7, <1>8, <1>9

\* The tab is done with the call c, and makes those of new.
LEMMA DoneStep ==
    ASSUME ClientInv, NEW t \in Tabs, NEW c \in calls[t], NEW new \in SUBSET Call,
           NEW p \in Tab, TabOK(p, res), p.screen = tab[t].screen,
           \A d \in new : CallOK(d, p.screen, res),
           tab' = [tab EXCEPT ![t] = p], calls' = [calls EXCEPT ![t] = (@ \ {c}) \cup new],
           stored' \in {stored, Null}, UNCHANGED <<valid, res, held, verified, scanned>>
    PROVE  ClientInv'
<1>1. /\ Grows /\ valid' \in BOOLEAN /\ verified' \in BOOLEAN
      /\ stored' = Null \/ Known(stored', res')
  BY DEF Grows, ClientInv, TypeOK
<1> DEFINE cs == (calls[t] \ {c}) \cup new
<1>2. cs \in SUBSET Call /\ \A d \in cs : CallOK(d, p.screen, res)
  BY OfTab
<1>3. calls' = [calls EXCEPT ![t] = cs]
  OBVIOUS
<1> HIDE DEF cs
<1> QED
  BY <1>1, <1>2, <1>3, TabStep

\* The same, with no call to make.
LEMMA OverStep ==
    ASSUME ClientInv, NEW t \in Tabs, NEW c \in calls[t],
           NEW p \in Tab, TabOK(p, res), p.screen = tab[t].screen,
           tab' = [tab EXCEPT ![t] = p], Done(t, c),
           stored' \in {stored, Null}, UNCHANGED <<valid, res, held, verified, scanned>>
    PROVE  ClientInv'
<1>1. calls' = [calls EXCEPT ![t] = (@ \ {c}) \cup {}]
  BY DEF Done
<1>2. {} \in SUBSET Call /\ \A d \in {} : CallOK(d, p.screen, res)
  OBVIOUS
<1> QED
  BY <1>1, <1>2, DoneStep

\* What Applied, Settled and Lose write to a tab.
LEMMA TabAfter ==
    ASSUME ClientInv, NEW t \in Tabs, NEW c \in calls[t],
           NEW phase \in {"loading", "active", "ended", "error"}
    PROVE  /\ LET q == IF c.mounted THEN [tab[t] EXCEPT !.confirming = FALSE] ELSE tab[t]
              IN q \in Tab /\ TabOK(q, res) /\ q.screen = tab[t].screen
           /\ c.kind \in {"load", "sync"} =>
                LET q == IF c.mounted THEN [tab[t] EXCEPT !.phase = phase] ELSE tab[t]
                IN q \in Tab /\ TabOK(q, res) /\ q.screen = tab[t].screen
<1> DEFINE settled == [tab[t] EXCEPT !.confirming = FALSE]
           phased  == [tab[t] EXCEPT !.phase = phase]
<1>1. /\ tab[t] \in Tab /\ TabOK(tab[t], res)
      /\ c.mounted /\ c.kind \in {"load", "sync"} => tab[t].screen = "reservation"
  BY OfTab DEF CallOK
<1>2. /\ settled \in Tab /\ settled.screen = tab[t].screen /\ settled.id = tab[t].id
      /\ settled.phase = tab[t].phase
  BY <1>1 DEF Tab
<1>3. phased \in Tab /\ phased.screen = tab[t].screen /\ phased.id = tab[t].id
  BY <1>1 DEF Tab
<1> HIDE DEF settled, phased
<1>4. TabOK(settled, res)
  BY <1>1, <1>2 DEF TabOK
<1>5. c.mounted /\ c.kind \in {"load", "sync"} => TabOK(phased, res)
  BY <1>1, <1>3 DEF TabOK
<1>6. LET q == IF c.mounted THEN settled ELSE tab[t]
      IN q \in Tab /\ TabOK(q, res) /\ q.screen = tab[t].screen
  BY <1>1, <1>2, <1>4
<1>7. c.kind \in {"load", "sync"} =>
        LET q == IF c.mounted THEN phased ELSE tab[t]
        IN q \in Tab /\ TabOK(q, res) /\ q.screen = tab[t].screen
  BY <1>1, <1>3, <1>5
<1> QED
  BY <1>6, <1>7 DEF settled, phased

LEMMA SettledStep ==
    ASSUME ClientInv, NEW t \in Tabs, NEW c \in calls[t], Settled(t, c), Done(t, c),
           UNCHANGED <<valid, res, held, verified, stored, scanned>>
    PROVE  ClientInv'
<1> DEFINE p == IF c.mounted THEN [tab[t] EXCEPT !.confirming = FALSE] ELSE tab[t]
<1>1. p \in Tab /\ TabOK(p, res) /\ p.screen = tab[t].screen
  BY TabAfter
<1>2. tab' = [tab EXCEPT ![t] = p]
  BY DEF Settled, ClientInv, TypeOK
<1> HIDE DEF p
<1> QED
  BY <1>1, <1>2, OverStep

\* An answer, or the loss of it, that sets the phase of the completion screen.
LEMMA PhaseStep ==
    ASSUME ClientInv, NEW t \in Tabs, NEW c \in calls[t], c.kind \in {"load", "sync"},
           NEW phase \in {"loading", "active", "ended", "error"},
           tab' = IF c.mounted THEN [tab EXCEPT ![t].phase = phase] ELSE tab,
           Done(t, c),
           stored' \in {stored, Null}, UNCHANGED <<valid, res, held, verified, scanned>>
    PROVE  ClientInv'
<1> DEFINE p == IF c.mounted THEN [tab[t] EXCEPT !.phase = phase] ELSE tab[t]
<1>1. p \in Tab /\ TabOK(p, res) /\ p.screen = tab[t].screen
  BY TabAfter
<1>2. tab' = [tab EXCEPT ![t] = p]
  BY DEF ClientInv, TypeOK
<1> HIDE DEF p
<1> QED
  BY <1>1, <1>2, OverStep

\* A call that ends without a trace on its tab.
LEMMA ForgottenStep ==
    ASSUME ClientInv, NEW t \in Tabs, NEW c \in calls[t], NEW new \in SUBSET Call,
           \A d \in new : CallOK(d, tab[t].screen, res),
           calls' = [calls EXCEPT ![t] = (@ \ {c}) \cup new],
           stored' \in {stored, Null}, UNCHANGED <<valid, res, held, verified, scanned, tab>>
    PROVE  ClientInv'
<1>1. tab' = [tab EXCEPT ![t] = tab[t]]
  BY DEF ClientInv, TypeOK
<1> QED
  BY <1>1, OfTab, DoneStep

LEMMA GoneStep ==
    ASSUME ClientInv, NEW t \in Tabs, NEW c \in calls[t], Done(t, c),
           stored' \in {stored, Null}, UNCHANGED <<valid, res, held, verified, scanned, tab>>
    PROVE  ClientInv'
<1>1. tab' = [tab EXCEPT ![t] = tab[t]]
  BY DEF ClientInv, TypeOK
<1> QED
  BY <1>1, OfTab, OverStep

\* Reserve goes on to ask for its seat.
LEMMA AskSeatStep ==
    ASSUME ClientInv, NEW t \in Tabs, NEW c \in calls[t], AskSeat(t, c),
           stored' \in {stored, Null}, UNCHANGED <<valid, res, held, verified, scanned, tab>>
    PROVE  ClientInv'
<1> DEFINE ask == NewCall("seat", Null, tab[t].at)
           new == IF c.mounted /\ tab[t].screen = "reserve" THEN {ask} ELSE {}
<1>1. /\ ask \in Call /\ ask.kind = "seat" /\ ask.seat \in Seats /\ ask.answer = "none"
  BY OfTab, NewCallFields DEF Kinds
<1>2. calls' = [calls EXCEPT ![t] = (@ \ {c}) \cup new]
  BY DEF AskSeat
<1> HIDE DEF ask
<1>3. CallOK(ask, tab[t].screen, res)
  BY <1>1 DEF CallOK, Questions, SeatKinds
<1>4. new \in SUBSET Call /\ \A d \in new : CallOK(d, tab[t].screen, res)
  BY <1>1, <1>3
<1> HIDE DEF new
<1> QED
  BY <1>2, <1>4, ForgottenStep

\* confirm asks for its seat again after SEAT_TAKEN.
LEMMA RecheckStep ==
    ASSUME ClientInv, NEW t \in Tabs, NEW c \in calls[t], c.kind = "reserve",
           calls' = [calls EXCEPT ![t] = (@ \ {c}) \cup
                        {[NewCall("recheck", Null, c.seat) EXCEPT !.mounted = c.mounted]}],
           UNCHANGED <<valid, res, held, verified, stored, scanned, tab>>
    PROVE  ClientInv'
<1> DEFINE ask == NewCall("recheck", Null, c.seat)
           d   == [ask EXCEPT !.mounted = c.mounted]
<1>1. c \in Call /\ c.seat \in Seats /\ c.mounted \in BOOLEAN
  BY OfTab DEF CallOK, Call
<1>2. ask \in Call /\ ask.kind = "recheck" /\ ask.seat = c.seat /\ ask.answer = "none"
  BY <1>1, NewCallFields DEF Kinds
<1>3. ASSUME NEW q \in Call, NEW b \in BOOLEAN
      PROVE  LET r == [q EXCEPT !.mounted = b]
             IN r \in Call /\ r.kind = q.kind /\ r.seat = q.seat /\ r.answer = q.answer
  BY DEF Call
<1> HIDE DEF ask
<1>4. d \in Call /\ d.kind = "recheck" /\ d.seat \in Seats /\ d.answer = "none"
  BY <1>1, <1>2, <1>3
<1>5. calls' = [calls EXCEPT ![t] = (@ \ {c}) \cup {d}]
  BY DEF ask
<1> HIDE DEF d
<1>6. CallOK(d, tab[t].screen, res)
  BY <1>4 DEF CallOK, Questions, SeatKinds
<1>7. {d} \in SUBSET Call /\ \A e \in {d} : CallOK(e, tab[t].screen, res)
  BY <1>4, <1>6
<1> QED
  BY <1>5, <1>7, ForgottenStep

\* An answer about the seat, or the loss of it.
LEMMA SeatStep ==
    ASSUME ClientInv, NEW t \in Tabs, NEW c \in calls[t], Done(t, c),
           \/ SeatFetched(t, c) /\ c.kind \in SeatKinds /\ c.answer # "none"
           \/ SeatUnknown(t, c),
           UNCHANGED <<valid, res, held, verified, stored, scanned>>
    PROVE  ClientInv'
<1>1. tab[t] \in Tab /\ TabOK(tab[t], res)
  BY OfTab
<1>2. CASE c.mounted /\ SeatFetched(t, c) /\ c.kind \in SeatKinds /\ c.answer # "none"
  <2> DEFINE confirming == tab[t].confirming /\ c.kind # "recheck"
             p == [tab[t] EXCEPT !.seat = c.answer, !.confirming = confirming]
  <2>1. c.answer \in {"available", "taken"}
    BY <1>2, OfTab DEF CallOK
  <2>2. confirming \in BOOLEAN
    OBVIOUS
  <2>3. tab' = [tab EXCEPT ![t] = p]
    BY <1>2 DEF SeatFetched, ClientInv, TypeOK
  <2>4. p \in Tab /\ p.screen = tab[t].screen /\ p.id = tab[t].id /\ p.phase = tab[t].phase
    <3> HIDE DEF confirming
    <3>1. c.answer \in {"mounting", "none", "available", "taken"}
      BY <2>1
    <3>2. tab[t] \in Tab
      BY <1>1
    <3> QED
      BY <2>2, <3>1, <3>2 DEF Tab
  <2> HIDE DEF p
  <2>5. TabOK(p, res)
    BY <1>1, <2>4 DEF TabOK
  <2> QED
    BY <2>3, <2>4, <2>5, OverStep
<1>3. CASE c.mounted /\ tab[t].seat = "mounting" /\ SeatUnknown(t, c)
  <2> DEFINE p == [tab[t] EXCEPT !.seat = "none"]
  <2>1. tab' = [tab EXCEPT ![t] = p]
    BY <1>3 DEF SeatUnknown
  <2>2. p \in Tab /\ p.screen = tab[t].screen /\ p.id = tab[t].id /\ p.phase = tab[t].phase
    BY <1>1 DEF Tab
  <2> HIDE DEF p
  <2>3. TabOK(p, res)
    BY <1>1, <2>2 DEF TabOK
  <2> QED
    BY <2>1, <2>2, <2>3, OverStep
<1>4. CASE UNCHANGED tab
  BY <1>4, GoneStep
<1> QED
  BY <1>2, <1>3, <1>4 DEF SeatFetched, SeatUnknown

LEMMA LoseStep ==
    ASSUME ClientInv, NEW t \in Tabs, NEW c \in calls[t], Lose(t, c)
    PROVE  ClientInv'
<1>1. UNCHANGED <<valid, res, held, verified, stored, scanned>>
  BY DEF Lose
<1>2. CASE Settled(t, c) /\ Done(t, c)
  BY <1>1, <1>2, SettledStep
<1>3. CASE SeatUnknown(t, c) /\ Done(t, c)
  BY <1>1, <1>3, SeatStep
<1>4. CASE /\ c.kind = "load" /\ Done(t, c)
           /\ tab' = IF c.mounted THEN [tab EXCEPT ![t].phase = "error"] ELSE tab
  BY <1>1, <1>4, PhaseStep
<1>5. CASE Done(t, c) /\ UNCHANGED tab
  BY <1>1, <1>5, GoneStep
<1>6. CASE AskSeat(t, c) /\ UNCHANGED tab
  BY <1>1, <1>6, AskSeatStep
<1> QED
  BY <1>2, <1>3, <1>4, <1>5, <1>6 DEF Lose

LEMMA ReceiveStep ==
    ASSUME ClientInv, NEW t \in Tabs, NEW kind \in Kinds, Receive(t, kind)
    PROVE  ClientInv'
<1>1. PICK c \in calls[t] :
          /\ c.kind = kind /\ c.answer # "none"
          /\ \/ kind = "reconcile" /\ Reconciled(t, c)
             \/ kind \in {"load", "sync"} /\ Applied(t, c)
             \/ kind \in {"seat", "recheck"} /\ SeatFetched(t, c)
             \/ kind = "reserve" /\ Confirmed(t, c)
             \/ kind = "cancel" /\ Released(t, c)
  BY DEF Receive
<1>2. UNCHANGED <<valid, res, held, scanned>>
  BY DEF Receive
<1>3. /\ Grows /\ valid' \in BOOLEAN /\ verified \in BOOLEAN
      /\ stored \in Ids \cup {Null} /\ (stored # Null => Known(stored, res'))
  BY <1>2 DEF Grows, ClientInv, TypeOK
<1>4. CallOK(c, tab[t].screen, res)
  BY OfTab
<1>5. calls[t] \ {c} \in SUBSET calls[t]
  OBVIOUS
<1>6. CASE kind = "reconcile" /\ Reconciled(t, c)
  <2>1. Known(c.id, res') /\ c.id \in Ids
    BY <1>1, <1>2, <1>4, <1>6 DEF CallOK, Questions, Known
  <2>2. CASE stored' = Null /\ AskSeat(t, c) /\ UNCHANGED <<verified, tab>>
    BY <1>2, <2>2, AskSeatStep
  <2>3. CASE Done(t, c) /\ UNCHANGED <<verified, stored, tab>>
    BY <1>2, <2>3, GoneStep
  <2>4. CASE Push(t, "reservation", c.id, calls[t] \ {c}, stored) /\ UNCHANGED <<verified, stored>>
    BY <1>3, <1>5, <2>1, <2>4, PushStep DEF Screens
  <2> QED
    BY <1>6, <2>2, <2>3, <2>4 DEF Reconciled
<1>7. CASE kind \in {"load", "sync"} /\ Applied(t, c)
  <2>1. c.answer \in {"loading", "active", "ended", "error"}
    BY <1>1, <1>4, <1>7 DEF CallOK, Questions
  <2> QED
    BY <1>1, <1>2, <1>7, <2>1, PhaseStep DEF Applied
<1>8. CASE kind \in {"seat", "recheck"} /\ SeatFetched(t, c)
  <2>1. Done(t, c) /\ UNCHANGED <<verified, stored>>
    BY <1>8 DEF SeatFetched
  <2> QED
    BY <1>1, <1>2, <1>8, <2>1, SeatStep DEF SeatKinds
<1>9. CASE kind = "reserve" /\ Confirmed(t, c)
  <2>1. CASE /\ c.answer \in {"RESERVED", "ALREADY_RESERVED"}
             /\ stored' = c.id
             /\ Push(t, "reservation", c.id, calls[t] \ {c}, c.id)
             /\ UNCHANGED verified
    <3>1. Known(c.id, res') /\ c.id \in Ids
      BY <1>2, <1>4, <2>1 DEF CallOK, Known
    <3> QED
      BY <1>3, <1>5, <2>1, <3>1, PushStep DEF Screens
  <2>2. CASE /\ verified' = FALSE
             /\ Push(t, "verify", Null, calls[t] \ {c}, stored)
             /\ UNCHANGED stored
    BY <1>3, <1>5, <2>2, PushStep DEF Screens
  <2>3. CASE /\ calls' = [calls EXCEPT ![t] = (@ \ {c}) \cup
                        {[NewCall("recheck", Null, c.seat) EXCEPT !.mounted = c.mounted]}]
             /\ UNCHANGED <<verified, stored, tab>>
    BY <1>1, <1>2, <1>9, <2>3, RecheckStep
  <2> QED
    BY <1>9, <2>1, <2>2, <2>3 DEF Confirmed
<1>10. CASE kind = "cancel" /\ Released(t, c)
  BY <1>3, <1>5, <1>10, PushStep DEF Released, Screens
<1> QED
  BY <1>1, <1>6, <1>7, <1>8, <1>9, <1>10

LEMMA EndReservationStep ==
    ASSUME ClientInv, NEW i \in Ids, EndReservation(i)
    PROVE  ClientInv'
<1>1. Grows /\ valid' \in BOOLEAN
  BY DEF EndReservation, Grows, ClientInv, TypeOK
<1> QED
  BY <1>1, ServerKeepsInv DEF EndReservation

LEMMA RevokeTokenStep ==
    ASSUME ClientInv, RevokeToken
    PROVE  ClientInv'
<1>1. Grows /\ valid' \in BOOLEAN
  BY DEF RevokeToken, Grows, ClientInv, TypeOK
<1> QED
  BY <1>1, ServerKeepsInv DEF RevokeToken

-----------------------------------------------------------------------------
(* The invariant holds.                                                    *)

LEMMA ClientInvInit == Init => ClientInv
<1> SUFFICES ASSUME Init PROVE ClientInv
  OBVIOUS
<1> DEFINE p == Blank("main", Null, scanned)
<1>0. scanned \in Seats
  BY DEF Init
<1>1. /\ p \in Tab /\ p.screen = "main" /\ p.id = Null /\ p.phase = "none"
  BY <1>0, BlankFields DEF Screens
<1>2. tab = [t \in Tabs |-> p] /\ calls = [t \in Tabs |-> {}]
  BY DEF Init
<1> HIDE DEF p
<1>3. TabOK(p, res)
  BY <1>1 DEF TabOK
<1>4. TypeOK
  BY <1>1, <1>2 DEF Init, TypeOK
<1> QED
  BY <1>2, <1>3, <1>4 DEF Init, ClientInv

LEMMA ClientInvNext == ClientInv /\ [Next]_vars => ClientInv'
<1> SUFFICES ASSUME ClientInv, [Next]_vars PROVE ClientInv'
  OBVIOUS
<1>1. CASE UNCHANGED vars
  BY <1>1 DEF vars, ClientInv, TypeOK
<1>2. ASSUME NEW t \in Tabs, NEW screen \in {"main", "reserve", "reservation"},
             NEW id \in Ids \cup {Null}, Navigate(t, screen, id)
      PROVE  ClientInv'
  BY <1>2, NavigateStep
<1>3. ASSUME NEW t \in Tabs,
             \/ Verified(t) \/ Confirm(t) \/ FetchSeat(t)
             \/ Release(t) \/ Sync(t) \/ Retry(t) \/ Online(t)
      PROVE  ClientInv'
  BY <1>3, VerifiedStep, ConfirmStep, FetchSeatStep, ReleaseStep, SyncStep, RetryStep, OnlineStep
<1>4. ASSUME NEW t \in Tabs, NEW kind \in Kinds, Serve(t, kind) \/ Receive(t, kind)
      PROVE  ClientInv'
  BY <1>4, ServeStep, ReceiveStep
<1>5. ASSUME NEW t \in Tabs, NEW c \in calls[t], Lose(t, c)
      PROVE  ClientInv'
  BY <1>5, LoseStep
<1>6. ASSUME NEW i \in Ids, EndReservation(i)
      PROVE  ClientInv'
  BY <1>6, EndReservationStep
<1>7. CASE RevokeToken
  BY <1>7, RevokeTokenStep
<1>8. ASSUME NEW t \in Tabs, NEW s \in Seats, Scan(t, s)
      PROVE  ClientInv'
  BY <1>8, ScanStep
<1> QED
  BY <1>1, <1>2, <1>3, <1>4, <1>5, <1>6, <1>7, <1>8 DEF Next

LEMMA ClientInvHolds == Spec => []ClientInv
  BY ClientInvInit, ClientInvNext, PTL DEF Spec

-----------------------------------------------------------------------------
(* Theorems.                                                               *)

\* Every variable of the browser and of what it sees of the server keeps its
\* type; in particular the store never holds anything but a reservation's id.
THEOREM TypeCorrect == Spec => []TypeOK
<1>1. ClientInv => TypeOK
  BY DEF ClientInv
<1> QED
  BY <1>1, ClientInvHolds, PTL

\* reconcileReservation, apply and release drop the store's id only on the
\* answer that a reservation is over, and that reservation is over.
THEOREM DropsFollowEnds == Spec => DropFollowsAnEnd
<1> DEFINE Told == \E t \in Tabs : \E c \in calls[t] :
                       c.answer \in {"ended", "ok"} /\ res[c.id] = "ended"
           Drop == stored # Null /\ stored' = Null => Told
<1>1. ClientInv /\ [Next]_vars => [Drop]_vars
  <2> SUFFICES ASSUME ClientInv, Next, stored # Null, stored' = Null
               PROVE  Told
    BY DEF vars
  <2>1. PICK t \in Tabs, kind \in Kinds : Receive(t, kind)
    BY DEF Next, Navigate, Scan, Verified, Confirm, FetchSeat, Release, Sync, Retry, Online,
           Serve, Lose, EndReservation, RevokeToken
  <2>2. PICK c \in calls[t] :
            /\ c.kind = kind /\ c.answer # "none"
            /\ \/ kind = "reconcile" /\ Reconciled(t, c)
               \/ kind \in {"load", "sync"} /\ Applied(t, c)
               \/ kind \in {"seat", "recheck"} /\ SeatFetched(t, c)
               \/ kind = "reserve" /\ Confirmed(t, c)
               \/ kind = "cancel" /\ Released(t, c)
    BY <2>1 DEF Receive
  <2>3. CallOK(c, tab[t].screen, res)
    BY OfTab
  <2>4. c.answer \in {"ended", "ok"}
    <3>1. CASE kind = "reconcile" /\ Reconciled(t, c)
      BY <3>1 DEF Reconciled
    <3>2. CASE kind \in {"load", "sync"} /\ Applied(t, c)
      BY <3>2 DEF Applied
    <3>3. CASE kind = "reserve" /\ Confirmed(t, c)
      <4>1. c.answer \notin {"RESERVED", "ALREADY_RESERVED"}
        BY <2>3, <3>3, ClientAssumption DEF Confirmed, CallOK, Known
      <4> QED
        BY <3>3, <4>1 DEF Confirmed
    <3>4. CASE kind = "cancel" /\ Released(t, c)
      BY <2>2, <2>3, <3>4 DEF CallOK
    <3>5. CASE kind \in {"seat", "recheck"} /\ SeatFetched(t, c)
      BY <3>5 DEF SeatFetched
    <3> QED
      BY <2>2, <3>1, <3>2, <3>3, <3>4, <3>5
  <2> QED
    BY <2>3, <2>4 DEF CallOK
<1> QED
  BY <1>1, ClientInvHolds, PTL DEF Spec, DropFollowsAnEnd

=============================================================================
