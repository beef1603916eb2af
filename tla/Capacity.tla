------------------------------ MODULE Capacity ------------------------------
(***************************************************************************)
(* The bounded resources a slow OCR engine could use up, and what stands   *)
(* in the way: the backend's worker threads, its pool of database          *)
(* connections (db.py), its call of receipt-core (ocr/http_engine.py) and  *)
(* receipt-core's semaphore (server.go).                                   *)
(*                                                                         *)
(* A handler's statement takes a connection which its session keeps until  *)
(* the next commit or until the handler is over, POST /api/verify during   *)
(* the call of receipt-core too; the statement after a commit waits for a  *)
(* connection again.  receipt-core never waits for a slot.  Its engine     *)
(* call has no deadline and knows nothing of a caller that has given up.   *)
(***************************************************************************)
EXTENDS Naturals, FiniteSets, Sequences

CONSTANTS
    Photos,   \* clients that submit receipts
    Others,   \* clients that make any other request
    Patient,  \* clients whose waits for a connection stay below the pool's timeout
    Calls,    \* bound: the calls receipt-core may have at a time
    Commits,  \* bound: the commits of a request after which it goes on
    Threads,  \* worker threads of the backend (40)
    Conns,    \* connections of the pool (5, and 10 overflow)
    Slots,    \* RECEIPT_CORE_MAX_CONCURRENCY (8)
    Null,
    Ops       \* bound: the kinds of steps made in the instance

Clients == Photos \cup Others

\* The defaults are in this order: a full core leaves connections and threads.
ASSUME CapacityAssumption ==
    /\ Slots \in Nat \ {0} /\ Conns \in Nat /\ Threads \in Nat /\ Commits \in Nat
    /\ Slots < Conns /\ Slots < Threads
    /\ Photos \cap Others = {} /\ Null \notin Clients
    /\ IsFiniteSet(Clients) /\ IsFiniteSet(Calls)

VARIABLES
    back,   \* back[r]: the request of client r
    queue,  \* the requests that wait for a thread
    conns,  \* connections that are checked out
    sem,    \* tokens in the channel s.sem
    call    \* call[c]: a handler of receipt-core

vars == <<back, queue, conns, sem, call>>

\* A client in reply has no request under way.  Only run and waiting hold a
\* connection.  code is what the handler knows of its
\* answer; OK stands for every answer it comes to itself.
NoBack == [pc |-> "reply", commits |-> 0, code |-> "OK"]
Back == [pc: {"queued", "connect", "run", "waiting", "reply"}, commits: 0..Commits,
         code: {"none", "OK", "OCR_UNAVAILABLE", "ERROR"}]

\* failed stands for every other answer than a 200 and a 503 saturated.
\* from: the client whose request waits for the answer, if it still does.
NoCall == [pc |-> "none", from |-> Null, code |-> "none"]
Call == [pc: {"none", "arrived", "slot", "engine", "answer"}, from: Photos \cup {Null},
         code: {"none", "result", "saturated", "failed"}]

TypeOK ==
    /\ back \in [Clients -> Back] /\ queue \in Seq(Clients)
    /\ conns \in 0..Conns
    /\ sem \in 0..Slots
    /\ call \in [Calls -> Call]

Init ==
    /\ back = [r \in Clients |-> NoBack]
    /\ queue = <<>>
    /\ conns = 0
    /\ sem = 0
    /\ call = [c \in Calls |-> NoCall]

Running == {c \in Calls : call[c].pc = "engine"}

Working == {r \in Clients : back[r].pc \in {"connect", "run", "waiting"}}

-----------------------------------------------------------------------------
(* The backend.                                                            *)

Reply(r, code) == back' = [back EXCEPT ![r] = [NoBack EXCEPT !.code = code]]

Arrive(r) ==
    /\ back[r].pc = "reply"
    /\ back' = [back EXCEPT ![r].pc = "queued", ![r].code = "none"]
    /\ queue' = Append(queue, r)
    /\ UNCHANGED <<conns, sem, call>>

\* A thread of the pool takes the request that has waited longest.
Start(r) ==
    /\ back[r].pc = "queued"
    /\ queue # <<>> /\ r = Head(queue)
    /\ Cardinality(Working) < Threads
    /\ back' = [back EXCEPT ![r].pc = "connect"]
    /\ queue' = Tail(queue)
    /\ UNCHANGED <<conns, sem, call>>

\* Wrong: every request opens a connection of its own.
Connect_Unlimited(r) ==
    /\ back[r].pc = "connect"
    /\ conns' = conns + 1
    /\ back' = [back EXCEPT ![r].pc = "run"]
    /\ UNCHANGED <<queue, sem, call>>

\* The first statement of the handler, or the first after a commit.
Connect(r) ==
    /\ back[r].pc = "connect"
    /\ conns < Conns
    /\ conns' = conns + 1
    /\ back' = [back EXCEPT ![r].pc = "run"]
    /\ UNCHANGED <<queue, sem, call>>

\* QueuePool waits for thirty seconds; nothing is checked out, and a commit made
\* before stands.
PoolTimeout(r) ==
    /\ "poolTimeout" \in Ops
    /\ r \notin Patient
    /\ back[r].pc = "connect" /\ conns = Conns
    /\ Reply(r, "ERROR")
    /\ UNCHANGED <<queue, conns, sem, call>>

\* db.commit gives the connection back; a refresh, or the reads after a sweep,
\* follow, but no call of the engine.
Commit(r) ==
    /\ back[r].pc = "run" /\ back[r].code # "OCR_UNAVAILABLE"
    /\ back[r].commits < Commits
    /\ conns' = conns - 1
    /\ back' = [back EXCEPT ![r].pc = "connect", ![r].commits = @ + 1, ![r].code = "OK"]
    /\ UNCHANGED <<queue, sem, call>>

\* HttpReceiptEngine.recognize posts the image, before anything is committed.
PostImage(r) ==
    /\ r \in Photos
    /\ back[r].pc = "run" /\ back[r].code = "none"
    /\ \E c \in Calls :
          /\ call[c] = NoCall
          /\ call' = [call EXCEPT ![c] = [NoCall EXCEPT !.pc = "arrived", !.from = r]]
    /\ back' = [back EXCEPT ![r].pc = "waiting"]
    /\ UNCHANGED <<queue, conns, sem>>

\* What it makes of the response: whatever is not a 200 is an OcrUnavailable.
Receive(r, c) ==
    /\ back[r].pc = "waiting" /\ call[c].from = r /\ call[c].pc = "answer"
    /\ back' = [back EXCEPT ![r].pc = "run",
                            ![r].code = IF call[c].code = "result" THEN "OK"
                                                                   ELSE "OCR_UNAVAILABLE"]
    /\ call' = [call EXCEPT ![c] = NoCall]
    /\ UNCHANGED <<queue, conns, sem>>

\* Wrong: receipt-core drops a call, and its slot, with the caller.
CallTimeout_Frees(r) ==
    /\ back[r].pc = "waiting"
    /\ back' = [back EXCEPT ![r].pc = "run", ![r].code = "OCR_UNAVAILABLE"]
    /\ call' = [c \in Calls |-> IF call[c].from = r THEN [call[c] EXCEPT !.from = Null]
                                                    ELSE call[c]]
    /\ sem' = IF \E c \in Running : call[c].from = r THEN sem - 1 ELSE sem
    /\ UNCHANGED <<queue, conns>>

\* The client of receipt-core loses patience (ten seconds) or the connection;
\* the call itself goes on.
CallTimeout(r) ==
    /\ back[r].pc = "waiting"
    /\ back' = [back EXCEPT ![r].pc = "run", ![r].code = "OCR_UNAVAILABLE"]
    /\ call' = [c \in Calls |-> IF call[c].from = r THEN [call[c] EXCEPT !.from = Null]
                                                    ELSE call[c]]
    /\ UNCHANGED <<queue, conns, sem>>

\* Wrong: the connection is given back where the handler succeeds only.
Close_OnSuccess(r) ==
    /\ back[r].pc = "run"
    /\ conns' = IF back[r].code = "OCR_UNAVAILABLE" THEN conns ELSE conns - 1
    /\ Reply(r, IF back[r].code = "none" THEN "OK" ELSE back[r].code)
    /\ UNCHANGED <<queue, sem, call>>

\* The handler is over, by return or by exception, and get_db closes the
\* session.
Close(r) ==
    /\ back[r].pc = "run"
    /\ conns' = conns - 1
    /\ Reply(r, IF back[r].code = "none" THEN "OK" ELSE back[r].code)
    /\ UNCHANGED <<queue, sem, call>>

-----------------------------------------------------------------------------
(* receipt-core.                                                           *)

\* Receiving from the channel; it would block if the channel were empty.
Release == sem > 0 /\ sem' = sem - 1

CoreAnswer(c, code) == call' = [call EXCEPT ![c].pc = "answer", ![c].code = code]

\* Wrong: a call waits for a slot, as it would with a blocking send.
Admit_Blocking(c) ==
    /\ call[c].pc = "arrived"
    /\ sem < Slots
    /\ sem' = sem + 1
    /\ call' = [call EXCEPT ![c].pc = "slot"]
    /\ UNCHANGED <<back, queue, conns>>

\* authOK, then the select with its default.
Admit(c) ==
    /\ call[c].pc = "arrived"
    /\ \/ CoreAnswer(c, "failed") /\ UNCHANGED sem
       \/ sem = Slots /\ CoreAnswer(c, "saturated") /\ UNCHANGED sem
       \/ sem < Slots /\ sem' = sem + 1 /\ call' = [call EXCEPT ![c].pc = "slot"]
    /\ UNCHANGED <<back, queue, conns>>

\* Wrong: a refused image keeps its slot.
ReadImage_Leaks(c) ==
    /\ call[c].pc = "slot"
    /\ \/ CoreAnswer(c, "failed")
       \/ call' = [call EXCEPT ![c].pc = "engine"]
    /\ UNCHANGED <<back, queue, conns, sem>>

\* The form is parsed and guardImage looks at the image; a refusal runs the
\* deferred release.
ReadImage(c) ==
    /\ call[c].pc = "slot"
    /\ \/ CoreAnswer(c, "failed") /\ Release
       \/ call' = [call EXCEPT ![c].pc = "engine"] /\ UNCHANGED sem
    /\ UNCHANGED <<back, queue, conns>>

\* engine.Recognize returns, if it ever does.
Recognize(c) ==
    /\ call[c].pc = "engine"
    /\ \E code \in {"result", "failed"} : CoreAnswer(c, code)
    /\ Release
    /\ UNCHANGED <<back, queue, conns>>

\* Nobody waits for the answer any more.
DropAnswer(c) ==
    /\ call[c].pc = "answer" /\ call[c].from = Null
    /\ call' = [call EXCEPT ![c] = NoCall]
    /\ UNCHANGED <<back, queue, conns, sem>>

\* The container restarts: its calls end and their callers see it.
CoreRestart ==
    /\ "coreRestart" \in Ops
    /\ sem' = 0
    /\ call' = [c \in Calls |-> NoCall]
    /\ back' = [r \in Clients |->
                  IF back[r].pc = "waiting"
                  THEN [back[r] EXCEPT !.pc = "run", !.code = "OCR_UNAVAILABLE"]
                  ELSE back[r]]
    /\ UNCHANGED <<queue, conns>>

-----------------------------------------------------------------------------
BackStep(r) ==
    \/ (\E c \in Calls : Receive(r, c)) \/ Close(r)

CoreStep(c) == Admit(c) \/ ReadImage(c) \/ DropAnswer(c)

Next ==
    \/ \E r \in Clients :
          \/ Arrive(r) \/ Start(r) \/ Connect(r) \/ PoolTimeout(r)
          \/ Commit(r) \/ PostImage(r) \/ CallTimeout(r) \/ BackStep(r)
    \/ \E c \in Calls : CoreStep(c) \/ Recognize(c)
    \/ CoreRestart

Spec == Init /\ [][Next]_vars

\* Threads run, and take up what waits for them; whoever waits for a connection
\* is not passed over for ever.  Nothing is assumed of the engine, nor of the
\* caller's patience.
FairSpec ==
    /\ Spec
    /\ WF_vars(\E r \in Clients : Start(r))
    /\ \A r \in Clients : WF_vars(BackStep(r)) /\ SF_vars(Connect(r))
    /\ \A c \in Calls : WF_vars(CoreStep(c))

-----------------------------------------------------------------------------
(* Properties.                                                             *)

\* RECEIPT_CORE_MAX_CONCURRENCY bounds the engine calls, those whose caller has
\* given up included.
EngineIsBounded == Cardinality(Running) <= Slots

\* A call is only turned away while every slot is taken by a call that is
\* being worked on: no path through the handler keeps a slot to itself.
SaturationIsReal ==
    [][\A c \in Calls : call[c].pc = "arrived" /\ call'[c].code = "saturated" =>
          Cardinality({d \in Calls : call[d].pc \in {"slot", "engine"}}) = Slots]_call

\* Isolation (design-receipt-core.md): even if the engine never answers and
\* nobody gives up on it, every other request gets a thread, and a connection
\* after each commit, and is answered, unless its wait for a connection is cut off
\* by the pool's timeout.
OthersAreServed ==
    \A r \in Others \cap Patient :
        back[r].pc = "queued" ~> back[r].pc = "reply" /\ back[r].code = "OK"

\* VF-701: with a caller that times out, every submission is answered too,
\* whatever the engine does.
SubmissionsAreAnswered ==
    (\A r \in Photos : WF_vars(CallTimeout(r))) =>
        \A r \in Photos : back[r].pc = "queued" ~> back[r].pc = "reply"

=============================================================================
