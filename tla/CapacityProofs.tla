--------------------------- MODULE CapacityProofs ---------------------------
(***************************************************************************)
(* Theorems about Capacity, for every number of clients, calls, threads,   *)
(* connections and slots.                                                  *)
(***************************************************************************)
EXTENDS Capacity, FiniteSetTheorems, TLAPS

-----------------------------------------------------------------------------
(* Counting: a set that gains or loses one element.                        *)

LEMMA OneMore ==
    ASSUME NEW S, NEW T, NEW x, IsFiniteSet(S), x \notin S, T = S \cup {x}
    PROVE  Cardinality(T) = Cardinality(S) + 1
BY FS_AddElement

LEMMA OneLess ==
    ASSUME NEW S, NEW T, NEW x, IsFiniteSet(S), x \in S, T = S \ {x}
    PROVE  Cardinality(T) = Cardinality(S) - 1 /\ Cardinality(S) > 0
<1>1. /\ Cardinality(S) \in Nat
      /\ Cardinality(S) # 0
  BY FS_CardinalityType, FS_EmptySet
<1> QED
  BY <1>1, FS_RemoveElement

-----------------------------------------------------------------------------
(* The inductive invariant: both counters count what they should.          *)

\* The handlers that hold a connection, and the calls that hold a slot.
Connected == {r \in Clients : back[r].pc \in {"run", "waiting"}}
Slotted == {c \in Calls : call[c].pc \in {"slot", "engine"}}

ConnsCounted == conns = Cardinality(Connected) /\ conns <= Conns
SlotsCounted == sem = Cardinality(Slotted) /\ sem <= Slots

\* Only receipts are recognized, and a call has no outcome before its answer.
CallsAreReceipts == \A r \in Clients : back[r].pc = "waiting" => r \in Photos
NoEarlyOutcome == \A c \in Calls : call[c].pc # "answer" => call[c].code = "none"

CapacityInv ==
    /\ back \in [Clients -> Back] /\ queue \in Seq(Clients) /\ call \in [Calls -> Call]
    /\ ConnsCounted /\ SlotsCounted /\ CallsAreReceipts /\ NoEarlyOutcome

LEMMA CountersAreNaturals ==
    /\ IsFiniteSet(Connected) /\ IsFiniteSet(Slotted)
    /\ ConnsCounted => conns \in 0..Conns
    /\ SlotsCounted => sem \in 0..Slots
<1>1. /\ Connected \in SUBSET Clients
      /\ Slotted \in SUBSET Calls
  BY DEF Connected, Slotted
<1>2. IsFiniteSet(Connected) /\ IsFiniteSet(Slotted)
  BY <1>1, FS_Subset, CapacityAssumption
<1> QED
  BY <1>2, FS_CardinalityType, CapacityAssumption DEF ConnsCounted, SlotsCounted

\* The same handlers hold connections, the same calls hold slots.
LEMMA SameConnected ==
    ASSUME ConnsCounted, conns' = conns,
           \A r \in Clients : back'[r].pc \in {"run", "waiting"}
                                 <=> back[r].pc \in {"run", "waiting"}
    PROVE  ConnsCounted'
<1>1. Connected' = Connected
  BY DEF Connected
<1> QED
  BY <1>1 DEF ConnsCounted

LEMMA SameSlotted ==
    ASSUME SlotsCounted, sem' = sem,
           \A c \in Calls : call'[c].pc \in {"slot", "engine"}
                                 <=> call[c].pc \in {"slot", "engine"}
    PROVE  SlotsCounted'
<1>1. Slotted' = Slotted
  BY DEF Slotted
<1> QED
  BY <1>1 DEF SlotsCounted

\* A call leaves its slot and takes the token out of the channel.
LEMMA SlotReleased ==
    ASSUME CapacityInv, NEW c \in Calls, Release, call[c].pc \in {"slot", "engine"},
           call'[c].pc \notin {"slot", "engine"},
           \A d \in Calls : d # c => call'[d] = call[d]
    PROVE  SlotsCounted'
<1>1. c \in Slotted /\ Slotted' = Slotted \ {c}
  BY DEF Slotted
<1>2. Cardinality(Slotted') = Cardinality(Slotted) - 1
  BY <1>1, CountersAreNaturals, OneLess
<1>3. sem \in Nat /\ Slots \in Nat
  BY CountersAreNaturals, CapacityAssumption DEF CapacityInv
<1> QED
  BY <1>2, <1>3, CapacityAssumption DEF CapacityInv, SlotsCounted, Release

-----------------------------------------------------------------------------
(* The steps.                                                              *)

LEMMA QueueKept ==
    ASSUME queue \in Seq(Clients), NEW r \in Clients, Arrive(r) \/ Start(r)
    PROVE  queue' \in Seq(Clients)
BY DEF Arrive, Start

LEMMA BackendStep ==
    ASSUME CapacityInv, NEW r \in Clients,
           \/ Arrive(r) \/ Start(r) \/ Connect(r) \/ PoolTimeout(r) \/ Commit(r) \/ Close(r)
    PROVE  CapacityInv'
<1> USE DEF CapacityInv
<1>0. /\ UNCHANGED <<sem, call>> /\ \A q \in Clients : q # r => back'[q] = back[q]
      /\ SlotsCounted' /\ NoEarlyOutcome'
  BY SameSlotted DEF Arrive, Start, Connect, PoolTimeout, Commit, Close, Reply, NoEarlyOutcome
<1>1. queue' \in Seq(Clients)
  BY QueueKept DEF Connect, PoolTimeout, Commit, Close
<1>2. back' \in [Clients -> Back] /\ CallsAreReceipts' /\ back'[r].pc # "waiting"
  <2>1. CASE Arrive(r) \/ Start(r) \/ Connect(r)
    BY <2>1 DEF Arrive, Start, Connect, Back, CallsAreReceipts
  <2>2. CASE Commit(r)
    <3>1. back[r].commits + 1 \in 0..Commits
      BY <2>2, CapacityAssumption DEF Commit, Back
    <3> QED
      BY <2>2, <3>1 DEF Commit, Back, CallsAreReceipts
  <2>3. ASSUME NEW code \in {"OK", "OCR_UNAVAILABLE", "ERROR"}, Reply(r, code)
        PROVE  back' \in [Clients -> Back] /\ CallsAreReceipts' /\ back'[r].pc # "waiting"
    <3>1. 0 \in 0..Commits
      BY CapacityAssumption
    <3> QED
      BY <2>3, <3>1 DEF Reply, NoBack, Back, CallsAreReceipts
  <2>4. back[r].code = "none" \/ back[r].code \in {"OK", "OCR_UNAVAILABLE", "ERROR"}
    BY DEF Back
  <2> QED
    BY <2>1, <2>2, <2>3, <2>4 DEF PoolTimeout, Close
<1>3. CASE Arrive(r) \/ Start(r) \/ PoolTimeout(r)
  <2>1. /\ conns' = conns
        /\ back[r].pc \notin {"run", "waiting"}
        /\ back'[r].pc \notin {"run", "waiting"}
    BY <1>3 DEF Arrive, Start, PoolTimeout, Reply, Back, NoBack
  <2>2. ConnsCounted'
    BY <1>0, <2>1, SameConnected
  <2> QED
    BY <1>0, <1>1, <1>2, <2>2
<1>4. CASE Connect(r)
  <2>1. /\ conns < Conns /\ conns' = conns + 1
        /\ r \notin Connected /\ Connected' = Connected \cup {r}
    BY <1>0, <1>4 DEF Connect, Connected, Back
  <2>2. Cardinality(Connected') = Cardinality(Connected) + 1
    BY <2>1, CountersAreNaturals, OneMore
  <2>3. ConnsCounted'
    BY <2>1, <2>2, CountersAreNaturals, CapacityAssumption DEF ConnsCounted
  <2> QED
    BY <1>0, <1>1, <1>2, <2>3
<1>5. CASE Commit(r) \/ Close(r)
  <2>1. /\ conns' = conns - 1
        /\ r \in Connected /\ Connected' = Connected \ {r}
    BY <1>0, <1>5 DEF Commit, Close, Reply, NoBack, Connected, Back
  <2>2. Cardinality(Connected') = Cardinality(Connected) - 1
    BY <2>1, CountersAreNaturals, OneLess
  <2>3. ConnsCounted'
    BY <2>1, <2>2, CountersAreNaturals, CapacityAssumption DEF ConnsCounted
  <2> QED
    BY <1>0, <1>1, <1>2, <2>3
<1> QED
  BY <1>3, <1>4, <1>5

LEMMA CallerStep ==
    ASSUME CapacityInv, NEW r \in Clients,
           PostImage(r) \/ CallTimeout(r) \/ \E c \in Calls : Receive(r, c)
    PROVE  CapacityInv'
<1> USE DEF CapacityInv
<1>0. /\ UNCHANGED <<queue, conns, sem>> /\ \A q \in Clients : q # r => back'[q] = back[q]
      /\ back[r].pc \in {"run", "waiting"} /\ r \in Photos
  BY DEF PostImage, CallTimeout, Receive, CallsAreReceipts
<1>1. /\ back' \in [Clients -> Back] /\ CallsAreReceipts'
      /\ back'[r].pc \in {"run", "waiting"}
  <2>1. ASSUME NEW pc \in {"run", "waiting"},
               NEW code \in {"none", "OK", "OCR_UNAVAILABLE"},
               back' = [back EXCEPT ![r].pc = pc, ![r].code = code]
        PROVE  /\ back' \in [Clients -> Back] /\ CallsAreReceipts'
               /\ back'[r].pc \in {"run", "waiting"}
    BY <1>0, <2>1 DEF Back, CallsAreReceipts
  <2>2. CASE PostImage(r)
    BY <1>0, <2>2 DEF PostImage, Back, CallsAreReceipts
  <2> QED
    BY <2>1, <2>2 DEF CallTimeout, Receive
<1>2. ConnsCounted'
  BY <1>0, <1>1, SameConnected
<1>3. /\ call' \in [Calls -> Call] /\ NoEarlyOutcome'
      /\ \A c \in Calls : call'[c].pc \in {"slot", "engine"}
                              <=> call[c].pc \in {"slot", "engine"}
  <2>1. CASE PostImage(r)
    <3>1. [NoCall EXCEPT !.pc = "arrived", !.from = r] \in Call
      BY <1>0 DEF NoCall, Call
    <3> QED
      BY <2>1, <3>1 DEF PostImage, NoCall, NoEarlyOutcome
  <2>2. CASE CallTimeout(r)
    BY <2>2 DEF CallTimeout, Call, NoEarlyOutcome
  <2>3. ASSUME NEW c \in Calls, Receive(r, c)
        PROVE  /\ call' \in [Calls -> Call] /\ NoEarlyOutcome'
               /\ \A d \in Calls : call'[d].pc \in {"slot", "engine"}
                                       <=> call[d].pc \in {"slot", "engine"}
    BY <2>3 DEF Receive, NoCall, Call, NoEarlyOutcome
  <2> QED
    BY <2>1, <2>2, <2>3
<1>4. SlotsCounted'
  BY <1>0, <1>3, SameSlotted
<1>5. queue' \in Seq(Clients)
  BY <1>0
<1> QED
  BY <1>1, <1>2, <1>3, <1>4, <1>5

LEMMA AnsweredCall ==
    ASSUME call \in [Calls -> Call], NEW c \in Calls,
           NEW code \in {"result", "saturated", "failed"}, CoreAnswer(c, code)
    PROVE  /\ call' \in [Calls -> Call]
           /\ call'[c].pc = "answer" /\ call'[c].code = code
           /\ \A d \in Calls : d # c => call'[d] = call[d]
BY DEF CoreAnswer, Call

LEMMA CoreStepKeeps ==
    ASSUME CapacityInv, NEW c \in Calls, CoreStep(c) \/ Recognize(c)
    PROVE  CapacityInv'
<1> USE DEF CapacityInv
<1>0. /\ UNCHANGED <<back, queue, conns>> /\ CallsAreReceipts'
      /\ ConnsCounted'
  BY SameConnected
     DEF CoreStep, Admit, ReadImage, DropAnswer, Recognize, CallsAreReceipts
<1>1. ASSUME NEW code \in {"result", "saturated", "failed"}, CoreAnswer(c, code),
             \/ call[c].pc = "arrived" /\ UNCHANGED sem
             \/ call[c].pc \in {"slot", "engine"} /\ Release
      PROVE  CapacityInv'
  <2>1. /\ call' \in [Calls -> Call]
        /\ call'[c].pc = "answer"
        /\ \A d \in Calls : d # c => call'[d] = call[d]
    BY <1>1, AnsweredCall
  <2>2. NoEarlyOutcome'
    BY <2>1 DEF NoEarlyOutcome
  <2>3. SlotsCounted'
    BY <1>1, <2>1, SameSlotted, SlotReleased
  <2> QED
    BY <1>0, <2>1, <2>2, <2>3
<1>2. CASE call[c].pc = "arrived" /\ sem < Slots /\ sem' = sem + 1
           /\ call' = [call EXCEPT ![c].pc = "slot"]
  <2>1. /\ call' \in [Calls -> Call] /\ NoEarlyOutcome'
        /\ c \notin Slotted /\ Slotted' = Slotted \cup {c}
    BY <1>2 DEF Call, NoEarlyOutcome, Slotted
  <2>2. Cardinality(Slotted') = Cardinality(Slotted) + 1
    BY <2>1, CountersAreNaturals, OneMore
  <2>3. SlotsCounted'
    BY <1>2, <2>2, CountersAreNaturals, CapacityAssumption DEF SlotsCounted
  <2> QED
    BY <1>0, <2>1, <2>3
<1>3. CASE call[c].pc = "slot" /\ call' = [call EXCEPT ![c].pc = "engine"] /\ UNCHANGED sem
  <2>1. /\ call' \in [Calls -> Call] /\ NoEarlyOutcome'
        /\ \A d \in Calls : call'[d].pc \in {"slot", "engine"}
                                <=> call[d].pc \in {"slot", "engine"}
    BY <1>3 DEF Call, NoEarlyOutcome
  <2>2. SlotsCounted'
    BY <1>3, <2>1, SameSlotted
  <2> QED
    BY <1>0, <2>1, <2>2
<1>4. CASE DropAnswer(c)
  <2>1. /\ UNCHANGED sem /\ call' \in [Calls -> Call] /\ NoEarlyOutcome'
        /\ \A d \in Calls : call'[d].pc \in {"slot", "engine"}
                                <=> call[d].pc \in {"slot", "engine"}
    BY <1>4 DEF DropAnswer, NoCall, Call, NoEarlyOutcome
  <2>2. SlotsCounted'
    BY <2>1, SameSlotted
  <2> QED
    BY <1>0, <2>1, <2>2
<1>5. CASE Admit(c)
  BY <1>1, <1>2, <1>5 DEF Admit
<1>6. CASE ReadImage(c)
  BY <1>1, <1>3, <1>6 DEF ReadImage
<1>7. CASE Recognize(c)
  BY <1>1, <1>7 DEF Recognize
<1> QED
  BY <1>4, <1>5, <1>6, <1>7 DEF CoreStep

LEMMA RestartKeeps ==
    ASSUME CapacityInv, CoreRestart
    PROVE  CapacityInv'
<1> USE DEF CapacityInv
<1>0. queue' \in Seq(Clients)
  BY DEF CoreRestart
<1>1. back' \in [Clients -> Back] /\ CallsAreReceipts'
  BY DEF CoreRestart, Back, CallsAreReceipts
<1>2. call' \in [Calls -> Call] /\ NoEarlyOutcome' /\ Slotted' = {}
  BY DEF CoreRestart, NoCall, Call, NoEarlyOutcome, Slotted
<1>3. ConnsCounted'
  <2>1. \A r \in Clients : back'[r].pc \in {"run", "waiting"}
                               <=> back[r].pc \in {"run", "waiting"}
    BY DEF CoreRestart, Back
  <2>2. conns' = conns
    BY DEF CoreRestart
  <2> QED
    BY <2>1, <2>2, SameConnected
<1>4. SlotsCounted'
  <2>1. sem' = 0
    BY DEF CoreRestart
  <2> QED
    BY <1>2, <2>1, FS_EmptySet, CapacityAssumption DEF SlotsCounted
<1> QED
  BY <1>0, <1>1, <1>2, <1>3, <1>4

LEMMA CapacityInvInit == Init => CapacityInv
<1> SUFFICES ASSUME Init PROVE CapacityInv
  OBVIOUS
<1>1. Connected = {} /\ Slotted = {}
  BY DEF Init, NoBack, NoCall, Connected, Slotted
<1>2. ConnsCounted /\ SlotsCounted
  BY <1>1, FS_EmptySet, CapacityAssumption DEF Init, ConnsCounted, SlotsCounted
<1>3. 0 \in 0..Commits
  BY CapacityAssumption
<1>4. back \in [Clients -> Back] /\ CallsAreReceipts
  BY <1>3 DEF Init, NoBack, Back, CallsAreReceipts
<1>5. call \in [Calls -> Call] /\ NoEarlyOutcome
  BY DEF Init, NoCall, Call, NoEarlyOutcome
<1>6. queue \in Seq(Clients)
  BY DEF Init
<1> QED
  BY <1>2, <1>4, <1>5, <1>6 DEF CapacityInv

LEMMA CapacityInvNext == CapacityInv /\ [Next]_vars => CapacityInv'
<1> SUFFICES ASSUME CapacityInv, [Next]_vars PROVE CapacityInv'
  OBVIOUS
<1>1. CASE UNCHANGED vars
  BY <1>1 DEF vars, CapacityInv, ConnsCounted, SlotsCounted, Connected, Slotted,
     CallsAreReceipts, NoEarlyOutcome
<1> QED
  BY <1>1, BackendStep, CallerStep, CoreStepKeeps, RestartKeeps DEF Next, BackStep

LEMMA CapacityInvHolds == Spec => []CapacityInv
BY CapacityInvInit, CapacityInvNext, PTL DEF Spec

-----------------------------------------------------------------------------
(* The theorems.                                                           *)

\* In particular no connection is given back twice and none is lost, and the
\* channel of receipt-core never blocks a handler that gives its slot back.
THEOREM TypeCorrect == Spec => []TypeOK
<1>1. CapacityInv => TypeOK
  BY CountersAreNaturals DEF CapacityInv, TypeOK
<1> QED
  BY <1>1, CapacityInvHolds, PTL

\* At most RECEIPT_CORE_MAX_CONCURRENCY engine calls run, whichever callers
\* give up, images are refused or restarts happen.
THEOREM EngineStaysBounded == Spec => []EngineIsBounded
<1>1. ASSUME CapacityInv PROVE EngineIsBounded
  <2>1. Running \in SUBSET Slotted /\ IsFiniteSet(Slotted)
    BY CountersAreNaturals DEF Running, Slotted
  <2>2. Cardinality(Running) <= Cardinality(Slotted) /\ IsFiniteSet(Running)
    BY <2>1, FS_Subset
  <2> QED
    BY <1>1, <2>1, <2>2, FS_CardinalityType, CapacityAssumption
       DEF CapacityInv, SlotsCounted, EngineIsBounded
<1> QED
  BY <1>1, CapacityInvHolds, PTL

\* A call is turned away only while every slot belongs to a call that is being
\* worked on: the counter never runs ahead of them.
THEOREM SaturationStaysReal == Spec => SaturationIsReal
<1> DEFINE Real == \A c \in Calls : call[c].pc = "arrived" /\ call'[c].code = "saturated" =>
                      Cardinality({d \in Calls : call[d].pc \in {"slot", "engine"}}) = Slots
<1>1. ASSUME CapacityInv, Next PROVE Real
  <2> SUFFICES ASSUME NEW c \in Calls, call[c].pc = "arrived",
                      call'[c].code = "saturated"
               PROVE  Cardinality(Slotted) = Slots
    BY DEF Slotted
  <2>1. call[c].code = "none" /\ call \in [Calls -> Call]
    BY <1>1 DEF CapacityInv, NoEarlyOutcome
  <2>2. Admit(c) /\ sem = Slots
    <3>1. ASSUME NEW d \in Calls, CoreStep(d) \/ Recognize(d)
          PROVE  Admit(c) /\ sem = Slots
      BY <2>1, <3>1 DEF CoreStep, Admit, ReadImage, DropAnswer, Recognize, CoreAnswer,
         NoCall, Call
    <3>2. ASSUME NEW r \in Clients,
                 \/ Arrive(r) \/ Start(r) \/ Connect(r) \/ PoolTimeout(r)
                 \/ Commit(r) \/ PostImage(r) \/ CallTimeout(r) \/ BackStep(r)
          PROVE  FALSE
      BY <2>1, <3>2 DEF Arrive, Start, Connect, PoolTimeout, Commit, PostImage, CallTimeout,
         BackStep, Receive, Close, NoCall, Call
    <3>3. CASE CoreRestart
      BY <3>3 DEF CoreRestart, NoCall
    <3> QED
      BY <1>1, <3>1, <3>2, <3>3 DEF Next
  <2> QED
    BY <1>1, <2>2 DEF CapacityInv, SlotsCounted
<1>2. CapacityInv /\ [Next]_vars => [Real]_call
  BY <1>1 DEF vars
<1> QED
  BY <1>2, CapacityInvHolds, PTL DEF Spec, SaturationIsReal

=============================================================================
