----------------------------- MODULE Guestbook -----------------------------
(***************************************************************************)
(* The guestbook: POST and GET /api/guestbook (routers/guestbook.py), the  *)
(* operator's deletion (routers/admin.py), and the screen that posts and   *)
(* pages through the entries (routes/Guestbook.svelte).                    *)
(*                                                                         *)
(* An entry is stamped by the server just before its INSERT asks for the   *)
(* write lock, so entries may become visible out of the order of their     *)
(* stamps.  The rate limit is a dictionary in memory, read before the      *)
(* INSERT and written after its COMMIT.  A screen waits for at most one    *)
(* post and one page, the two independently of each other.  When it hears  *)
(* nothing of a post it lets the visitor post again, while the handler of  *)
(* the first, which nobody listens to any more, goes on; two tabs are two  *)
(* screens of one device.                                                  *)
(***************************************************************************)
EXTENDS Naturals, Sequences, FiniteSets

CONSTANTS
    Screens,    \* open guestbook screens
    Devices,    \* X-Device-Id values
    Owner,      \* Owner[s]: the device screen s runs on
    Handlers,   \* bound: the requests to post that are handled at a time
    Readers,    \* bound: the screens whose list is followed
    Ids,        \* entry ids, in their order as strings
    Old,        \* ids of the entries there are already, of the first tick
    Window,     \* ticks between two posts of a device (60 seconds)
    PageSize,   \* entries of a page (limit)
    MaxTime,    \* bound: the clock stops here
    Null,
    Ops         \* bound: the kinds of steps made in the instance

ASSUME GuestbookAssumption ==
    /\ Owner \in [Screens -> Devices] /\ Readers \subseteq Screens
    /\ Ids \subseteq Nat /\ IsFiniteSet(Ids) /\ Old \subseteq Ids
    /\ Window \in Nat \ {0} /\ PageSize \in Nat \ {0} /\ MaxTime \in Nat
    /\ Null \notin Nat /\ Null \notin [at: Nat, id: Nat]

VARIABLES
    now,       \* the server's clock
    entry,     \* entry[i]: what was inserted under id i, kept after its deletion
    live,      \* ids in guestbook_entries
    lastPost,  \* _last_post_at
    noted,     \* history: the posts lastPost has been told of since the start,
               \* but for those a later note may have put an older reading over
    post,      \* post[h]: a request to post and its handler
    feed       \* feed[s]: the list of screen s and the page it waits for

vars == <<now, entry, live, lastPost, noted, post, feed>>

Times == 0..MaxTime

\* created_at, and the history of the request: the device, its reading of the
\* clock for the limit, and the posts the limit had been told of before that.
Entry == [at: Times, by: Devices \cup {Null}, read: Times, since: SUBSET Ids]
NoEntry == [at |-> Null, by |-> Null, read |-> Null, since |-> {}]

Used == {i \in Ids : entry[i] # NoEntry}

\* The position of an entry in the list: (created_at, id).
Keys == [at: Times, id: Ids]
Key(i) == [at |-> entry[i].at, id |-> i]

\* screen: handleSubmit of which screen waits for the answer, Null once none does.
NoPost == [pc |-> "idle", screen |-> Null, by |-> Null, read |-> Null, at |-> Null,
           since |-> {}, id |-> Null, code |-> "none"]

Post == [pc: {"idle", "stamp", "insert", "note", "answer"},
         screen: Screens \cup {Null}, by: Devices \cup {Null},
         read: Times \cup {Null}, at: Times \cup {Null}, since: SUBSET Ids,
         id: Ids \cup {Null},
         code: {"none", "INVALID", "RATE_LIMITED", "ERROR", "created"}]

NoPage == [ids |-> <<>>, next |-> Null]

\* load: what the screen waits for.  base and doubled are history: the entries
\* there were when the first page was read, and the posts whose answer came
\* after a page had already brought them.
NoFeed == [load |-> "first", read |-> FALSE, page |-> NoPage, list |-> <<>>,
           cursor |-> Null, base |-> {}, doubled |-> {}]

Feed == [load: {"first", "next", "idle", "error"}, read: BOOLEAN,
         page: [ids: Seq(Ids), next: Keys \cup {Null}], list: Seq(Ids),
         cursor: Keys \cup {Null}, base: SUBSET Ids, doubled: SUBSET Ids]

TypeOK ==
    /\ now \in Times
    /\ entry \in [Ids -> Entry \cup {NoEntry}]
    /\ live \subseteq Used
    /\ lastPost \in [Devices -> Times \cup {Null}]
    /\ noted \in [Devices -> SUBSET Ids]
    /\ post \in [Handlers -> Post]
    /\ feed \in [Screens -> Feed]

Init ==
    /\ now = 0
    /\ entry = [i \in Ids |->
                  IF i \in Old THEN [at |-> 0, by |-> Null, read |-> 0, since |-> {}]
                  ELSE NoEntry]
    /\ live = Old
    /\ lastPost = [d \in Devices |-> Null]
    /\ noted = [d \in Devices |-> {}]
    /\ post = [h \in Handlers |-> NoPost]
    /\ feed = [s \in Screens |->
                 [NoFeed EXCEPT !.load = IF s \in Readers THEN "first" ELSE "idle"]]

-----------------------------------------------------------------------------
(* The order of the list and its pages.                                    *)

\* Wrong: the time alone, without the id that breaks ties.
Before_TimeOnly(k, c) == k.at < c.at

\* k comes after c in the list: it is older.
Before(k, c) == k.at < c.at \/ (k.at = c.at /\ k.id < c.id)

\* What a page may hold: everything, or what is older than the cursor.
Candidates(cursor) ==
    {i \in live : cursor # Null => Before(Key(i), cursor)}

\* The first n of a set of entries, newest first.
Newest(S, n) ==
    [k \in 1..n |-> CHOOSE i \in S :
        Cardinality({j \in S : Key(i).at < Key(j).at \/ (Key(i).at = Key(j).at /\ i < j)}) = k - 1]

\* GET /api/guestbook: one SELECT, with a row more than the page to see
\* whether another page follows.
PageAfter(cursor) ==
    LET S    == Candidates(cursor)
        more == Cardinality(S) > PageSize
        ids  == Newest(S, IF more THEN PageSize ELSE Cardinality(S))
    IN [ids |-> ids, next |-> IF more THEN Key(ids[PageSize]) ELSE Null]

Listed(list) == {list[k] : k \in DOMAIN list}

\* Wrong: the page is appended as it is.
AppendPage_Blind(list, ids) == list \o ids

\* appendPage: in the order of the page, what has not been seen already, in the
\* list or earlier in the page.
AppendPage(list, ids) ==
    LET fresh == {k \in DOMAIN ids : /\ ids[k] \notin Listed(list)
                                     /\ \A j \in 1..(k - 1) : ids[j] # ids[k]}
    IN list \o [n \in 1..Cardinality(fresh) |->
                  ids[CHOOSE k \in fresh : Cardinality({j \in fresh : j < k}) = n - 1]]

-----------------------------------------------------------------------------
(* Posting.                                                                *)

Limited(d) == lastPost[d] # Null /\ now - lastPost[d] < Window

AnswerPost(h, code) ==
    post' = [post EXCEPT ![h].pc = "answer", ![h].code = code,
                         ![h].read = Null, ![h].at = Null, ![h].since = {}]

\* Bound: a post is begun only while an id is left for it.
IdsLeft ==
    Cardinality({h \in Handlers : post[h].pc \in {"stamp", "insert"}})
        < Cardinality(Ids \ Used)

\* submitting: a screen that waits for a post makes no other one.
MayPost(h, s) ==
    /\ post[h].pc = "idle"
    /\ \A g \in Handlers : post[g].screen # s
    /\ IdsLeft

\* A request of screen s; and its handler's reading of the clock for the limit,
\* with the posts that the limit knew of at that moment.
Sent(s) == [NoPost EXCEPT !.screen = s, !.by = Owner[s]]

Asked(s) == [Sent(s) EXCEPT !.read = now, !.since = noted[Owner[s]]]

\* Wrong: the window is consumed before anything has been written.
BeginPost_Consumes(h, s) ==
    /\ MayPost(h, s)
    /\ LET asked == Asked(s)
       IN IF Limited(Owner[s])
          THEN /\ post' = [post EXCEPT ![h] =
                              [asked EXCEPT !.pc = "answer", !.code = "RATE_LIMITED"]]
               /\ UNCHANGED lastPost
          ELSE /\ post' = [post EXCEPT ![h] = [asked EXCEPT !.pc = "stamp"]]
               /\ lastPost' = [lastPost EXCEPT ![Owner[s]] = now]
    /\ UNCHANGED <<now, entry, live, noted, feed>>

\* handleSubmit, and the handler up to the rate limit, which comes after the
\* validation of the text, the stars and the tags.
BeginPost(h, s) ==
    /\ MayPost(h, s)
    /\ LET asked == Asked(s)
       IN \/ post' = [post EXCEPT ![h] = [Sent(s) EXCEPT !.pc = "answer", !.code = "INVALID"]]
          \/ /\ Limited(Owner[s])
             /\ post' = [post EXCEPT ![h] =
                            [asked EXCEPT !.pc = "answer", !.code = "RATE_LIMITED"]]
          \/ /\ ~Limited(Owner[s])
             /\ post' = [post EXCEPT ![h] = [asked EXCEPT !.pc = "stamp"]]
    /\ UNCHANGED <<now, entry, live, lastPost, noted, feed>>

\* Wrong: created_at has no default.
StampPost_Unset(h) ==
    /\ post[h].pc = "stamp"
    /\ post' = [post EXCEPT ![h].pc = "insert"]
    /\ UNCHANGED <<now, entry, live, lastPost, noted, feed>>

\* The flush stamps the entry; its INSERT then waits for the write lock.
StampPost(h) ==
    /\ post[h].pc = "stamp"
    /\ post' = [post EXCEPT ![h].pc = "insert", ![h].at = now]
    /\ UNCHANGED <<now, entry, live, lastPost, noted, feed>>

\* The INSERTs of the entry and of its tags, and the COMMIT.
InsertPost(h) ==
    /\ post[h].pc = "insert"
    /\ \E i \in Ids \ Used :
          /\ entry' = [entry EXCEPT ![i] =
                         [at |-> post[h].at, by |-> post[h].by, read |-> post[h].read,
                          since |-> post[h].since]]
          /\ live' = live \cup {i}
          /\ post' = [post EXCEPT ![h].pc = "note", ![h].id = i]
    /\ UNCHANGED <<now, lastPost, noted, feed>>

\* What the limit knows for certain once h has told it: its own post, and those
\* it knew when h passed it.  Of two posts that overlapped the later note counts.
Note(h) ==
    [noted EXCEPT ![post[h].by] = (@ \cap post[h].since) \cup {post[h].id}]

\* Wrong: the limit is never told.
NotePost_Forgets(h) ==
    /\ post[h].pc = "note"
    /\ AnswerPost(h, "created")
    /\ noted' = Note(h)
    /\ UNCHANGED <<now, entry, live, lastPost, feed>>

\* The refresh, which fails if an operator has deleted the entry meanwhile,
\* and the limit, which gets the older reading of the clock.
NotePost(h) ==
    /\ post[h].pc = "note"
    /\ IF post[h].id \in live
       THEN /\ lastPost' = [lastPost EXCEPT ![post[h].by] = post[h].read]
            /\ noted' = Note(h)
            /\ AnswerPost(h, "created")
       ELSE AnswerPost(h, "ERROR") /\ UNCHANGED <<lastPost, noted>>
    /\ UNCHANGED <<now, entry, live, feed>>

\* A statement fails, the database being locked for too long: what was not
\* committed is gone.
FailPost(h) ==
    /\ "fail" \in Ops
    /\ post[h].pc \in {"insert", "note"}
    /\ AnswerPost(h, "ERROR")
    /\ UNCHANGED <<now, entry, live, lastPost, noted, feed>>

\* The answer of the handler: the screen, if it still waits, puts what was
\* created on top of its list.
PostAnswered(h) ==
    /\ post[h].pc = "answer"
    /\ post' = [post EXCEPT ![h] = NoPost]
    /\ LET s == post[h].screen
       IN feed' = IF post[h].code = "created" /\ s \in Readers
                  THEN [feed EXCEPT
                          ![s].list = <<post[h].id>> \o @,
                          ![s].doubled = @ \cup ({post[h].id} \cap Listed(feed[s].list))]
                  ELSE feed
    /\ UNCHANGED <<now, entry, live, lastPost, noted>>

\* The connection drops: handleSubmit keeps the text and resets submitting, so
\* that the visitor can try again, while the handler goes on with its request.
PostLost(h) ==
    /\ "lose" \in Ops
    /\ post[h].pc # "idle" /\ post[h].screen # Null
    /\ post' = [post EXCEPT ![h].screen = Null]
    /\ UNCHANGED <<now, entry, live, lastPost, noted, feed>>

-----------------------------------------------------------------------------
(* Reading.                                                                *)

\* The SELECT of the page that screen s asked for.
SelectPage(s) ==
    /\ feed[s].load \in {"first", "next"} /\ ~feed[s].read
    /\ feed' = [feed EXCEPT
                  ![s].read = TRUE,
                  ![s].page = PageAfter(IF feed[s].load = "first" THEN Null
                                                                  ELSE feed[s].cursor),
                  ![s].base = IF feed[s].load = "first" THEN live ELSE @]
    /\ UNCHANGED <<now, entry, live, lastPost, noted, post>>

\* The first page replaces the list, a later one is appended to it.
PageArrives(s) ==
    /\ feed[s].read
    /\ feed' = [feed EXCEPT
                  ![s].load = "idle", ![s].read = FALSE, ![s].page = NoPage,
                  ![s].list = IF feed[s].load = "first" THEN feed[s].page.ids
                              ELSE AppendPage(feed[s].list, feed[s].page.ids),
                  ![s].doubled = IF feed[s].load = "first" THEN {} ELSE @,
                  ![s].cursor = feed[s].page.next]
    /\ UNCHANGED <<now, entry, live, lastPost, noted, post>>

\* The request or its answer is lost: the first page shows the error, a later
\* one fails silently.
LoadFails(s) ==
    /\ "lose" \in Ops
    /\ feed[s].load \in {"first", "next"}
    /\ feed' = [feed EXCEPT
                  ![s].load = IF feed[s].load = "first" THEN "error" ELSE "idle",
                  ![s].read = FALSE, ![s].page = NoPage]
    /\ UNCHANGED <<now, entry, live, lastPost, noted, post>>

\* "Try again" below the error calls loadInitial once more.
RetryLoad(s) ==
    /\ feed[s].load = "error"
    /\ feed' = [feed EXCEPT ![s].load = "first"]
    /\ UNCHANGED <<now, entry, live, lastPost, noted, post>>

\* loadMore: the end of the list has come into view.
LoadMore(s) ==
    /\ feed[s].load = "idle" /\ feed[s].cursor # Null /\ feed[s].list # <<>>
    /\ feed' = [feed EXCEPT ![s].load = "next"]
    /\ UNCHANGED <<now, entry, live, lastPost, noted, post>>

-----------------------------------------------------------------------------
(* The operator, the process and the clock.                                *)

DeleteEntry(i) ==
    /\ "delete" \in Ops
    /\ i \in live
    /\ live' = live \ {i}
    /\ UNCHANGED <<now, entry, lastPost, noted, post, feed>>

\* The process ends and starts again: its memory and its requests are gone.
Restart ==
    /\ "restart" \in Ops
    /\ lastPost' = [d \in Devices |-> Null]
    /\ noted' = [d \in Devices |-> {}]
    /\ post' = [h \in Handlers |-> NoPost]
    /\ feed' = [s \in Screens |->
                  [feed[s] EXCEPT !.read = FALSE, !.page = NoPage,
                     !.load = CASE @ = "first" -> "error"
                                [] @ = "next" -> "idle"
                                [] OTHER -> @]]
    /\ UNCHANGED <<now, entry, live>>

TimePasses ==
    /\ now < MaxTime
    /\ now' = now + 1
    /\ UNCHANGED <<entry, live, lastPost, noted, post, feed>>

Next ==
    \/ \E h \in Handlers :
          \/ \E s \in Screens : BeginPost(h, s)
          \/ StampPost(h) \/ InsertPost(h) \/ NotePost(h)
          \/ FailPost(h) \/ PostAnswered(h) \/ PostLost(h)
    \/ \E s \in Screens :
          \/ SelectPage(s) \/ PageArrives(s) \/ LoadFails(s)
          \/ RetryLoad(s) \/ LoadMore(s)
    \/ \E i \in Ids : DeleteEntry(i)
    \/ Restart
    \/ TimePasses

Spec == Init /\ [][Next]_vars

-----------------------------------------------------------------------------
(* Properties.                                                             *)

\* GB-506: a screen skips nothing while it pages.  Of the entries there were
\* when its first page was read and still are, those not older than the cursor
\* are in its list, and all of them once there is no cursor, whatever was
\* posted, stamped late or deleted in the meantime.
NothingSkipped ==
    \A s \in Screens : feed[s].load \in {"idle", "next"} =>
        \A i \in feed[s].base \cap live :
            (feed[s].cursor = Null \/ ~Before(Key(i), feed[s].cursor))
                => i \in Listed(feed[s].list)

\* GB-504, GB-506: nothing is twice in a list, except a post whose answer
\* came after a page that had it already.  A post may come back in a later
\* page when it was stamped before the entries that were committed first.
NothingRepeated ==
    \A s \in Screens : \A j, k \in DOMAIN feed[s].list :
        j # k /\ feed[s].list[j] = feed[s].list[k]
            => feed[s].list[j] \in feed[s].doubled

\* D-19, GB-403: a device is only told to wait if it has posted less than a
\* window ago; attempts that failed never count.
RateLimitIsEarned ==
    \A h \in Handlers : post[h].code = "RATE_LIMITED" =>
        \E i \in Used : entry[i].by = post[h].by /\ entry[i].read + Window > post[h].read

\* D-19: a post the limit has been told of keeps its device from posting for a
\* window.  Of posts that overlap, from two tabs or because a screen posted again
\* when it lost the first (GB-404), it is the one noted last that counts: its
\* reading may be older than that of another, which it then takes the place of.
NotedPostsCount ==
    \A i \in Used : \A j \in entry[i].since : entry[i].read >= entry[j].read + Window

=============================================================================
