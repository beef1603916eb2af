------------------------------- MODULE Ledger -------------------------------
(***************************************************************************)
(* What the rest of the backend may rely on about the verifications table: *)
(* the rows that carry a token, how they come to be and how an audit       *)
(* changes them.  POST /api/verify ends in Approve (or writes no token);   *)
(* the operator's audit queue ends in AuditOk or Revoke.  Rejected         *)
(* attempts have no token and do not appear here.                          *)
(***************************************************************************)
EXTENDS Kst

CONSTANTS
    Tokens,   \* verify tokens (a fresh uuid per approval)
    Devices,  \* X-Device-Id values
    Null      \* no device, no seat, no row

VARIABLES
    now,      \* datetime.utcnow()
    verifs    \* verifs[tok]: the verification row that carries tok

ledgerVars == <<now, verifs>>

NoVerif == [status |-> "none", device |-> Null, day |-> KstDay(0), audit |-> FALSE]

\* audit is needs_audit /\ audited_at IS NULL: the row waits in the audit queue.
VerifRow ==
    [status: {"none", "approved", "rejected"}, device: Devices \cup {Null},
     day: DaysBy(now), audit: BOOLEAN]

LedgerTypeOK ==
    /\ now \in Nat
    /\ verifs \in [Tokens -> VerifRow]

LedgerInit ==
    /\ now = 0
    /\ verifs = [tok \in Tokens |-> NoVerif]

-----------------------------------------------------------------------------
\* uq_verif_device_day_approved: one approved row per device and day.
DayFree(dev, day) ==
    ~ \E tok \in Tokens : /\ verifs[tok].status = "approved"
                          /\ verifs[tok].device = dev
                          /\ verifs[tok].day = day

\* The approving INSERT of POST /api/verify.  The row's day was read from the
\* clock while the request ran, so it may be older than today.
Approve(tok, dev, day, flagged) ==
    /\ verifs[tok].status = "none"
    /\ DayFree(dev, day)
    /\ verifs' = [verifs EXCEPT ![tok] =
            [status |-> "approved", device |-> dev, day |-> day, audit |-> flagged]]
    /\ now' = now

\* POST /api/admin/verifications/{id}/ok: the conditional UPDATE's row matched.
AuditOk(tok) ==
    /\ verifs[tok].audit
    /\ verifs' = [verifs EXCEPT ![tok].audit = FALSE]
    /\ now' = now

\* The part of POST /api/admin/verifications/{id}/revoke on this table.
RevokeToken(tok) ==
    /\ verifs[tok].audit
    /\ verifs' = [verifs EXCEPT ![tok].status = "rejected", ![tok].audit = FALSE]
    /\ now' = now

Tick ==
    /\ now < MaxTime
    /\ now' = now + 1
    /\ verifs' = verifs

LedgerNext ==
    \/ \E tok \in Tokens, dev \in Devices, t \in 0..now, flagged \in BOOLEAN :
          Approve(tok, dev, KstDay(t), flagged)
    \/ \E tok \in Tokens : AuditOk(tok) \/ RevokeToken(tok)
    \/ Tick

LedgerSpec == LedgerInit /\ [][LedgerNext]_ledgerVars

-----------------------------------------------------------------------------
\* The token check of POST /api/reserve: approved, and issued today.
Usable(tok) ==
    /\ verifs[tok].status = "approved"
    /\ verifs[tok].day = KstDay(now)

\* One approval per device and KST day (decision D-06), whatever the audits do.
OneApprovalPerDay ==
    \A a, b \in Tokens :
        /\ verifs[a].status = "approved" /\ verifs[b].status = "approved"
        /\ verifs[a].device = verifs[b].device /\ verifs[a].day = verifs[b].day
        => a = b

=============================================================================
