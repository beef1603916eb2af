--------------------------- MODULE GuestbookProofs ---------------------------
(***************************************************************************)
(* Theorems about Guestbook, for every number of screens, devices, ids and *)
(* ticks, every window and every page size.                                *)
(***************************************************************************)
EXTENDS Guestbook, FiniteOrders

-----------------------------------------------------------------------------
(* A page holds the newest entries, each of them once.                     *)

\* The entries of S that are newer than i.
Newer(S, i) ==
    {j \in S : Key(i).at < Key(j).at \/ (Key(i).at = Key(j).at /\ i < j)}

LEMMA NewestPlaces ==
    ASSUME TypeOK, NEW S \in SUBSET Used
    PROVE  /\ Cardinality(S) \in Nat
           /\ \A i \in S : Cardinality(Newer(S, i)) \in 0..(Cardinality(S) - 1)
           /\ \A i, j \in S : i \in Newer(S, j) =>
                 Cardinality(Newer(S, i)) < Cardinality(Newer(S, j))
           /\ \A i, j \in S : Cardinality(Newer(S, i)) = Cardinality(Newer(S, j)) => i = j
           /\ \A n \in 1..Cardinality(S) : \E i \in S : Cardinality(Newer(S, i)) = n - 1
           /\ \A i, j \in S : i = j \/ i \in Newer(S, j) \/ j \in Newer(S, i)
<1> DEFINE above == [i \in S |-> Newer(S, i)]
<1>1. \A i \in S : i \in Nat /\ entry[i].at \in Nat
  BY GuestbookAssumption DEF TypeOK, Used, Entry, Times
<1>2. IsFiniteSet(S)
  BY GuestbookAssumption, FS_Subset DEF Used
<1>3. above \in [S -> SUBSET S] /\ \A i \in S : i \notin above[i]
  BY <1>1 DEF Newer, Key
<1>4. \A i, j \in S : i = j \/ i \in above[j] \/ j \in above[i]
  BY <1>1 DEF Newer, Key
<1>5. \A i, j \in S : i \in above[j] => above[i] \subseteq above[j]
  BY <1>1 DEF Newer, Key
<1> HIDE DEF above
<1>6. /\ Cardinality(S) \in Nat
      /\ \A i \in S : Cardinality(above[i]) \in 0..(Cardinality(S) - 1)
      /\ \A i, j \in S : i \in above[j] => Cardinality(above[i]) < Cardinality(above[j])
      /\ \A i, j \in S : Cardinality(above[i]) = Cardinality(above[j]) => i = j
      /\ \A n \in 1..Cardinality(S) : \E i \in S : Cardinality(above[i]) = n - 1
  <2>1. \A i, j \in S : i # j => \/ i \in above[j] /\ above[i] \subseteq above[j]
                                 \/ j \in above[i] /\ above[j] \subseteq above[i]
    BY <1>4, <1>5
  <2> QED
    BY <1>2, <1>3, <2>1, Places
<1>7. \A i \in S : above[i] = Newer(S, i)
  BY DEF above
<1> QED
  BY <1>4, <1>6, <1>7

LEMMA NewestOnce ==
    ASSUME TypeOK, NEW S \in SUBSET Used, NEW n \in 0..Cardinality(S)
    PROVE  /\ Newest(S, n) \in Seq(Ids) /\ Len(Newest(S, n)) = n
           /\ \A k \in 1..n : Newest(S, n)[k] \in S
           /\ \A j, k \in 1..n : j # k => Newest(S, n)[j] # Newest(S, n)[k]
           /\ n = Cardinality(S) => S \subseteq Listed(Newest(S, n))
           /\ n > 0 => \A i \in S :
                 ~Before(Key(i), Key(Newest(S, n)[n])) => i \in Listed(Newest(S, n))
<1> DEFINE ids == Newest(S, n)
<1>1. ids = [k \in 1..n |-> CHOOSE i \in S : Cardinality(Newer(S, i)) = k - 1]
  BY DEF Newest, Newer
<1>2. Cardinality(S) \in Nat /\ n \in Nat /\ n <= Cardinality(S)
  BY NewestPlaces
<1> HIDE DEF ids
<1>3. ASSUME NEW k \in 1..n
      PROVE  ids[k] \in S /\ Cardinality(Newer(S, ids[k])) = k - 1
  <2>1. ids[k] = CHOOSE i \in S : Cardinality(Newer(S, i)) = k - 1
    BY <1>1
  <2>2. k \in 1..Cardinality(S)
    BY <1>2
  <2>3. \E i \in S : Cardinality(Newer(S, i)) = k - 1
    BY <2>2, NewestPlaces
  <2> QED
    BY <2>1, <2>3
<1>4. ids \in Seq(Ids) /\ Len(ids) = n
  <2>1. \A k \in 1..n : ids[k] \in Ids
    BY <1>3 DEF Used
  <2> QED
    BY <1>1, <1>2, <2>1
<1>5. \A j, k \in 1..n : j # k => ids[j] # ids[k]
  BY <1>2, <1>3
<1>6. ASSUME NEW i \in S, Cardinality(Newer(S, i)) < n
      PROVE  i \in Listed(ids)
  <2> DEFINE k == Cardinality(Newer(S, i)) + 1
  <2>1. k \in 1..n /\ Cardinality(Newer(S, i)) = k - 1
    BY <1>2, <1>6, NewestPlaces
  <2>2. ids[k] \in S /\ Cardinality(Newer(S, ids[k])) = k - 1
    BY <1>3, <2>1
  <2>3. ids[k] = i
    BY <2>1, <2>2, NewestPlaces
  <2> QED
    BY <1>1, <2>1, <2>3 DEF Listed
<1>7. n = Cardinality(S) => S \subseteq Listed(ids)
  BY <1>2, <1>6, NewestPlaces
<1>8. ASSUME n > 0, NEW i \in S, ~Before(Key(i), Key(ids[n]))
      PROVE  i \in Listed(ids)
  <2>1. n \in 1..n /\ ids[n] \in S /\ Cardinality(Newer(S, ids[n])) = n - 1
    BY <1>2, <1>3, <1>8
  <2>2. ids[n] \notin Newer(S, i)
    BY <1>8 DEF Before, Key, Newer
  <2>3. i = ids[n] \/ i \in Newer(S, ids[n])
    BY <2>1, <2>2, NewestPlaces
  <2>4. Cardinality(Newer(S, i)) <= n - 1 /\ Cardinality(Newer(S, i)) \in Nat
    BY <1>2, <2>1, <2>3, NewestPlaces
  <2> QED
    BY <1>2, <1>6, <2>4
<1> QED
  BY <1>3, <1>4, <1>5, <1>7, <1>8 DEF ids

\* The list after a page: nothing is lost, everything of the page is there,
\* and what the page adds is there once.
LEMMA Appended ==
    ASSUME NEW list \in Seq(Ids), NEW ids \in Seq(Ids)
    PROVE  LET whole == AppendPage(list, ids)
           IN /\ whole \in Seq(Ids)
              /\ Listed(list) \cup Listed(ids) \subseteq Listed(whole)
              /\ \A k \in DOMAIN list : k \in DOMAIN whole /\ whole[k] = list[k]
              /\ \A j, k \in DOMAIN whole : j # k /\ whole[j] = whole[k] =>
                    j \in DOMAIN list /\ k \in DOMAIN list
<1> DEFINE fresh == {k \in DOMAIN ids : /\ ids[k] \notin Listed(list)
                                        /\ \A j \in 1..(k - 1) : ids[j] # ids[k]}
           above == [k \in fresh |-> {j \in fresh : j < k}]
           size  == Cardinality(fresh)
           nth(n) == CHOOSE k \in fresh : Cardinality({j \in fresh : j < k}) = n - 1
           added == [n \in 1..size |-> ids[nth(n)]]
           whole == list \o added
<1>1. AppendPage(list, ids) = whole
  BY DEF AppendPage
<1>2. /\ fresh \subseteq DOMAIN ids /\ DOMAIN ids = 1..Len(ids) /\ Len(ids) \in Nat
      /\ \A k \in fresh : ids[k] \in Ids /\ ids[k] \notin Listed(list)
      /\ \A j, k \in fresh : ids[j] = ids[k] => j = k
  OBVIOUS
<1>3. IsFiniteSet(DOMAIN ids) /\ IsFiniteSet(fresh)
  <2>1. IsFiniteSet(DOMAIN ids) /\ fresh \in SUBSET DOMAIN ids
    BY <1>2, FS_Interval
  <2> HIDE DEF fresh
  <2> QED
    BY <2>1, FS_Subset
<1>4. /\ above \in [fresh -> SUBSET fresh] /\ \A k \in fresh : k \notin above[k]
      /\ \A j, k \in fresh : j # k => \/ j \in above[k] /\ above[j] \subseteq above[k]
                                      \/ k \in above[j] /\ above[k] \subseteq above[j]
  BY <1>2
<1>5. /\ size \in Nat
      /\ \A j, k \in fresh : Cardinality(above[j]) = Cardinality(above[k]) => j = k
      /\ \A k \in fresh : Cardinality(above[k]) \in 0..(size - 1)
      /\ \A n \in 1..size : \E k \in fresh : Cardinality(above[k]) = n - 1
  <2> HIDE DEF fresh, above
  <2> QED
    BY <1>3, <1>4, Places
<1>6. \A k \in fresh : above[k] = {j \in fresh : j < k}
  OBVIOUS
<1>7. PICK pos \in [1..size -> fresh] :
         \A n \in 1..size : Cardinality(above[pos[n]]) = n - 1 /\ added[n] = ids[pos[n]]
  <2>1. ASSUME NEW n \in 1..size
        PROVE  nth(n) \in fresh /\ Cardinality(above[nth(n)]) = n - 1
    <3>1. \E k \in fresh : Cardinality({j \in fresh : j < k}) = n - 1
      BY <1>5, <1>6
    <3> HIDE DEF fresh, above
    <3>2. nth(n) \in fresh /\ Cardinality({j \in fresh : j < nth(n)}) = n - 1
      BY <3>1
    <3> QED
      BY <3>2, <1>6
  <2> DEFINE f == [n \in 1..size |-> nth(n)]
  <2> HIDE DEF fresh, above, size, nth
  <2>2. f \in [1..size -> fresh] /\ \A n \in 1..size : f[n] = nth(n) /\ added[n] = ids[nth(n)]
    BY <2>1
  <2> HIDE DEF f, added
  <2> QED
    BY <2>1, <2>2
<1>8. added \in Seq(Ids) /\ Len(added) = size
  <2>1. \A n \in 1..size : added[n] \in Ids
    BY <1>2, <1>7
  <2>2. DOMAIN added = 1..size /\ added = [n \in 1..size |-> added[n]]
    <3> HIDE DEF nth, size
    <3> QED
      OBVIOUS
  <2> HIDE DEF added, fresh, size
  <2>3. added \in [1..size -> Ids]
    BY <2>1, <2>2
  <2> QED
    BY <1>5, <2>3
<1> HIDE DEF fresh, added, above, size, nth
<1>9. whole \in Seq(Ids) /\ Len(whole) = Len(list) + size
  BY <1>8
<1>10. /\ \A k \in 1..Len(list) : whole[k] = list[k]
       /\ \A k \in 1..size : whole[Len(list) + k] = added[k]
  BY <1>8
<1>11. /\ Listed(list) \subseteq Listed(whole)
       /\ \A k \in fresh : ids[k] \in Listed(whole)
  <2>1. ASSUME NEW k \in fresh PROVE ids[k] \in Listed(whole)
    <3> DEFINE n == Cardinality(above[k]) + 1
    <3>1. n \in 1..size /\ Cardinality(above[k]) = n - 1
      BY <1>5
    <3>2. pos[n] = k
      BY <1>5, <1>7, <3>1
    <3>3. whole[Len(list) + n] = ids[k] /\ Len(list) + n \in DOMAIN whole
      BY <1>5, <1>7, <1>9, <1>10, <3>1, <3>2
    <3> HIDE DEF whole, n
    <3> QED
      BY <3>3 DEF Listed
  <2>2. \A k \in DOMAIN list : k \in DOMAIN whole /\ whole[k] = list[k]
    BY <1>5, <1>9, <1>10
  <2> HIDE DEF whole
  <2> QED
    BY <2>1, <2>2 DEF Listed
<1>12. Listed(ids) \subseteq Listed(whole)
  <2> SUFFICES ASSUME NEW k \in DOMAIN ids, ids[k] \notin Listed(list)
               PROVE  ids[k] \in Listed(whole)
    BY <1>11 DEF Listed
  <2> DEFINE same == {j \in DOMAIN ids : ids[j] = ids[k]}
  <2>1. PICK j \in same : \A l \in same : j <= l
    <3>1. same \in SUBSET Nat /\ same # {} /\ same \in SUBSET DOMAIN ids
      BY <1>2
    <3>2. IsFiniteSet(same)
      <4> HIDE DEF same
      <4> QED
        BY <1>3, <3>1, FS_Subset
    <3> HIDE DEF same
    <3> QED
      BY <3>1, <3>2, FirstMember
  <2>2. j \in fresh
    BY <1>2, <2>1 DEF fresh
  <2> QED
    BY <1>11, <2>1, <2>2
<1>13. ASSUME NEW j \in DOMAIN whole, NEW k \in DOMAIN whole, j # k, whole[j] = whole[k]
       PROVE  j \in DOMAIN list /\ k \in DOMAIN list
  <2>1. DOMAIN list = 1..Len(list) /\ DOMAIN whole = 1..(Len(list) + size)
    BY <1>5, <1>9
  <2>2. ASSUME NEW n \in 1..(Len(list) + size), n > Len(list)
        PROVE  /\ n - Len(list) \in 1..size
               /\ whole[n] = ids[pos[n - Len(list)]] /\ pos[n - Len(list)] \in fresh
    <3>1. n - Len(list) \in 1..size /\ n = Len(list) + (n - Len(list))
      BY <1>5, <2>2
    <3>2. whole[n] = added[n - Len(list)]
      BY <1>10, <3>1
    <3> HIDE DEF whole
    <3> QED
      BY <1>7, <3>1, <3>2
  <2>3. \A n \in 1..Len(list) : whole[n] \in Listed(list)
    BY <1>10 DEF Listed
  <2>4. ASSUME NEW m \in 1..size, NEW n \in 1..size, pos[m] = pos[n]
        PROVE  m = n
    <3>1. m - 1 = n - 1
      BY <1>7, <2>4
    <3> QED
      BY <1>5, <3>1
  <2> HIDE DEF whole
  <2>5. ASSUME NEW m \in 1..(Len(list) + size), m > Len(list),
               NEW n \in 1..Len(list)
        PROVE  whole[m] # whole[n]
    BY <1>2, <2>2, <2>3, <2>5
  <2>6. ASSUME j > Len(list), k > Len(list) PROVE FALSE
    <3>1. pos[j - Len(list)] = pos[k - Len(list)]
      BY <1>2, <1>13, <2>1, <2>2, <2>6
    <3>2. j - Len(list) = k - Len(list)
      BY <2>1, <2>2, <2>4, <2>6, <3>1
    <3> QED
      BY <1>5, <1>13, <2>1, <3>2
  <2> QED
    BY <1>5, <1>13, <2>1, <2>5, <2>6
<1>14. \A k \in DOMAIN list : k \in DOMAIN whole /\ whole[k] = list[k]
  BY <1>5, <1>9, <1>10
<1> HIDE DEF whole
<1> QED
  BY <1>1, <1>9, <1>11, <1>12, <1>13, <1>14

LEMMA NullIsNoKey == Null \notin Keys
<1>1. 0..MaxTime \subseteq Nat
  BY GuestbookAssumption
<1>2. \A k \in Keys : k \in [at: Nat, id: Nat]
  BY <1>1, GuestbookAssumption DEF Keys, Times
<1> QED
  BY <1>2, GuestbookAssumption

\* A page with a successor ends in the entry its cursor is made of; it leaves
\* out only what is older.
LEMMA PageIs ==
    ASSUME TypeOK, NEW cursor \in Keys \cup {Null}
    PROVE  LET page == PageAfter(cursor)
           IN /\ page \in [ids: Seq(Ids), next: Keys \cup {Null}]
              /\ \A j, k \in DOMAIN page.ids : j # k => page.ids[j] # page.ids[k]
              /\ \A i \in live :
                    /\ cursor # Null => Before(Key(i), cursor)
                    /\ page.next # Null => ~Before(Key(i), page.next)
                    => i \in Listed(page.ids)
<1> DEFINE S    == Candidates(cursor)
           more == Cardinality(S) > PageSize
           size == IF more THEN PageSize ELSE Cardinality(S)
           ids  == Newest(S, size)
           page == [ids |-> ids, next |-> IF more THEN Key(ids[PageSize]) ELSE Null]
<1>1. PageAfter(cursor) = page
  BY DEF PageAfter
<1>2. /\ S \in SUBSET Used
      /\ \A i \in live : (cursor # Null => Before(Key(i), cursor)) => i \in S
  BY DEF Candidates, TypeOK
<1> HIDE DEF S
<1>3. Cardinality(S) \in Nat /\ size \in 0..Cardinality(S) /\ PageSize > 0 /\ PageSize \in Nat
  BY <1>2, NewestPlaces, GuestbookAssumption
<1> HIDE DEF size
<1>4. /\ ids \in Seq(Ids) /\ Len(ids) = size
      /\ \A k \in 1..size : ids[k] \in S
      /\ \A j, k \in 1..size : j # k => ids[j] # ids[k]
      /\ size = Cardinality(S) => S \subseteq Listed(ids)
      /\ size > 0 => \A i \in S : ~Before(Key(i), Key(ids[size])) => i \in Listed(ids)
  BY <1>2, <1>3, NewestOnce
<1>5. DOMAIN ids = 1..size
  BY <1>4
<1> HIDE DEF ids
<1>6. CASE more
  <2>1. size = PageSize /\ size > 0
    BY <1>3, <1>6 DEF size
  <2>2. Key(ids[size]) \in Keys
    <3>1. ids[size] \in Used
      BY <1>2, <1>3, <1>4, <2>1
    <3> QED
      BY <3>1, GuestbookAssumption DEF Used, TypeOK, Entry, Key, Keys
  <2>3. Key(ids[size]) # Null
    BY <2>2, NullIsNoKey
  <2>4. page.ids = ids /\ page.next = Key(ids[size])
    BY <1>6, <2>1
  <2>5. page \in [ids: Seq(Ids), next: Keys \cup {Null}]
    BY <1>4, <2>2, <2>4
  <2> HIDE DEF page
  <2> QED
    BY <1>1, <1>2, <1>4, <1>5, <2>1, <2>3, <2>4, <2>5
<1>7. CASE ~more
  <2>1. page.ids = ids /\ page.next = Null /\ size = Cardinality(S)
    BY <1>7 DEF size
  <2>2. page \in [ids: Seq(Ids), next: Keys \cup {Null}]
    BY <1>4, <1>7
  <2> HIDE DEF page
  <2> QED
    BY <1>1, <1>2, <1>4, <1>5, <2>1, <2>2
<1> QED
  BY <1>6, <1>7

-----------------------------------------------------------------------------
(* The inductive invariant.                                                *)

\* Where a device is made to wait from comes from an entry of its own.
LimitOK ==
    \A d \in Devices : lastPost[d] # Null =>
        \E i \in Used : entry[i].by = d /\ entry[i].read = lastPost[d]

PostOK(h) ==
    /\ post[h].pc \in {"stamp", "insert", "note"} =>
          post[h].read # Null /\ post[h].by \in Devices
    /\ post[h].pc = "insert" => post[h].at # Null
    /\ post[h].pc = "note" => /\ post[h].id \in Used /\ entry[post[h].id].by = post[h].by
                              /\ entry[post[h].id].read = post[h].read
    /\ post[h].pc # "answer" => post[h].code = "none"
    /\ post[h].code = "created" => post[h].id \in Used
    /\ post[h].code = "RATE_LIMITED" =>
          \E i \in Used : entry[i].by = post[h].by /\ entry[i].read + Window > post[h].read

\* The page under way closes the gap between the list and its own cursor.
PageOK(s) ==
    LET page == feed[s].page
    IN /\ feed[s].load \in {"first", "next"}
       /\ \A j, k \in DOMAIN page.ids : j # k => page.ids[j] # page.ids[k]
       /\ \A i \in feed[s].base \cap live :
             /\ feed[s].load = "next" /\ feed[s].cursor # Null =>
                   Before(Key(i), feed[s].cursor)
             /\ page.next # Null => ~Before(Key(i), page.next)
             => i \in Listed(page.ids)

FeedOK(s) ==
    /\ feed[s].base \subseteq Used
    /\ feed[s].read => PageOK(s)
    /\ feed[s].load \in {"idle", "next"} =>
          \A i \in feed[s].base \cap live :
              (feed[s].cursor = Null \/ ~Before(Key(i), feed[s].cursor))
                  => i \in Listed(feed[s].list)
    /\ \A j, k \in DOMAIN feed[s].list :
          j # k /\ feed[s].list[j] = feed[s].list[k]
              => feed[s].list[j] \in feed[s].doubled

GuestInv ==
    /\ TypeOK /\ LimitOK
    /\ \A h \in Handlers : PostOK(h)
    /\ \A s \in Screens : FeedOK(s)

-----------------------------------------------------------------------------
(* Entries are never changed, and come back to life never.                 *)

BookGrows ==
    /\ \A i \in Used : i \in Used' /\ entry'[i] = entry[i]
    /\ live' \cap Used \subseteq live

LEMMA SameBook ==
    ASSUME UNCHANGED <<entry, live>>
    PROVE  BookGrows
BY DEF BookGrows, Used

LEMMA LimitKept ==
    ASSUME LimitOK, BookGrows, UNCHANGED lastPost
    PROVE  LimitOK'
BY DEF LimitOK, BookGrows

LEMMA PostKept ==
    ASSUME BookGrows, NEW h \in Handlers, PostOK(h), post'[h] = post[h]
    PROVE  PostOK(h)'
BY DEF PostOK, BookGrows

LEMMA FeedKept ==
    ASSUME BookGrows, NEW s \in Screens, FeedOK(s), feed'[s] = feed[s]
    PROVE  FeedOK(s)'
<1>1. \A i \in feed[s].base : i \in Used /\ i \in Used' /\ Key(i)' = Key(i)
  BY DEF FeedOK, BookGrows, Key
<1>2. \A i \in feed[s].base : i \in live' => i \in live
  BY <1>1 DEF BookGrows
<1>3. feed[s].read => PageOK(s)'
  BY <1>1, <1>2 DEF FeedOK, PageOK, Before, Listed
<1> QED
  BY <1>1, <1>2, <1>3 DEF FeedOK, Before, Listed

\* A step of one handler, of one screen, or of both.
LEMMA StepKeeps ==
    ASSUME GuestInv, BookGrows, TypeOK', LimitOK',
           \A h \in Handlers : post'[h] = post[h] \/ PostOK(h)',
           \A s \in Screens : feed'[s] = feed[s] \/ FeedOK(s)'
    PROVE  GuestInv'
BY PostKept, FeedKept DEF GuestInv

-----------------------------------------------------------------------------
(* Posting.                                                                *)

\* One post has changed, and nothing else.
LEMMA OnlyPost ==
    ASSUME GuestInv, NEW h \in Handlers, NEW p \in Post, post' = [post EXCEPT ![h] = p],
           UNCHANGED <<now, entry, live, lastPost, noted, feed>>, PostOK(h)'
    PROVE  GuestInv'
<1>1. TypeOK' /\ LimitOK' /\ BookGrows
  BY SameBook, LimitKept DEF GuestInv, TypeOK, Used
<1>2. \A g \in Handlers : post'[g] = post[g] \/ PostOK(g)'
  BY DEF GuestInv, TypeOK
<1> QED
  BY <1>1, <1>2, StepKeeps

\* What a screen asks for.
LEMMA AskedIs ==
    ASSUME TypeOK, NEW s \in Screens
    PROVE  /\ Sent(s) \in Post /\ Asked(s) \in Post
           /\ Asked(s).read = now /\ Asked(s).since = noted[Owner[s]]
           /\ Asked(s).by = Owner[s] /\ Asked(s).code = "none"
BY GuestbookAssumption DEF TypeOK, Sent, Asked, NoPost, Post

LEMMA BeginPostKeeps ==
    ASSUME GuestInv, NEW h \in Handlers, NEW s \in Screens, BeginPost(h, s)
    PROVE  GuestInv'
<1> DEFINE d     == Owner[s]
           asked == Asked(s)
           sent  == Sent(s)
<1>0. TypeOK /\ now \in Times /\ d \in Devices
  BY GuestbookAssumption DEF GuestInv, TypeOK
<1>1. /\ asked \in Post /\ asked.read = now /\ asked.code = "none" /\ asked.by = d
      /\ sent \in Post /\ now \in Times /\ d \in Devices
  BY <1>0, AskedIs
<1>2. now \in Nat /\ now # Null
  BY <1>1, GuestbookAssumption DEF Times
<1>3. UNCHANGED <<now, entry, live, lastPost, noted, feed>>
  BY DEF BeginPost
<1>4. ASSUME NEW q \in Post, NEW code \in {"INVALID", "RATE_LIMITED"}
      PROVE  LET p == [q EXCEPT !.pc = "answer", !.code = code]
             IN /\ p \in Post /\ p.pc = "answer" /\ p.code = code /\ p.read = q.read
                /\ p.by = q.by
  BY DEF Post
<1>5. ASSUME NEW q \in Post
      PROVE  LET p == [q EXCEPT !.pc = "stamp"]
             IN /\ p \in Post /\ p.pc = "stamp" /\ p.code = q.code /\ p.read = q.read
                /\ p.by = q.by
  BY DEF Post
<1> HIDE DEF asked, sent
<1>6. CASE post' = [post EXCEPT ![h] = [sent EXCEPT !.pc = "answer", !.code = "INVALID"]]
  <2> DEFINE p == [sent EXCEPT !.pc = "answer", !.code = "INVALID"]
  <2>1. p \in Post /\ p.pc = "answer" /\ p.code = "INVALID"
    BY <1>1, <1>4
  <2> HIDE DEF p
  <2>2. post' = [post EXCEPT ![h] = p] /\ post'[h] = p
    BY <1>6 DEF p, GuestInv, TypeOK
  <2>3. PostOK(h)'
    BY <2>1, <2>2 DEF PostOK
  <2> QED
    BY <1>3, <2>1, <2>2, <2>3, OnlyPost
<1>7. CASE /\ Limited(d)
           /\ post' = [post EXCEPT ![h] =
                         [asked EXCEPT !.pc = "answer", !.code = "RATE_LIMITED"]]
  <2> DEFINE p == [asked EXCEPT !.pc = "answer", !.code = "RATE_LIMITED"]
  <2>1. p \in Post /\ p.pc = "answer" /\ p.code = "RATE_LIMITED" /\ p.read = now
        /\ p.by = d
    BY <1>1, <1>4
  <2> HIDE DEF p
  <2>2. post' = [post EXCEPT ![h] = p] /\ post'[h] = p
    BY <1>7 DEF p, GuestInv, TypeOK
  <2>3. PICK i \in Used : entry[i].by = d /\ entry[i].read = lastPost[d]
    BY <1>1, <1>7 DEF Limited, GuestInv, LimitOK
  <2>4. lastPost[d] \in Nat /\ now < lastPost[d] + Window
    <3>1. lastPost[d] \in Times /\ lastPost[d] # Null /\ now - lastPost[d] < Window
      BY <1>1, <1>7 DEF Limited, GuestInv, TypeOK
    <3> QED
      BY <1>2, <3>1, GuestbookAssumption DEF Times
  <2>5. PostOK(h)'
    BY <1>3, <2>1, <2>2, <2>3, <2>4 DEF PostOK, Used
  <2> QED
    BY <1>3, <2>1, <2>2, <2>5, OnlyPost
<1>8. CASE post' = [post EXCEPT ![h] = [asked EXCEPT !.pc = "stamp"]]
  <2> DEFINE p == [asked EXCEPT !.pc = "stamp"]
  <2>1. p \in Post /\ p.pc = "stamp" /\ p.code = "none" /\ p.read = now /\ p.by = d
    BY <1>1, <1>5
  <2> HIDE DEF p
  <2>2. post' = [post EXCEPT ![h] = p] /\ post'[h] = p
    BY <1>8 DEF p, GuestInv, TypeOK
  <2>3. PostOK(h)'
    BY <1>1, <1>2, <2>1, <2>2 DEF PostOK
  <2> QED
    BY <1>3, <2>1, <2>2, <2>3, OnlyPost
<1> QED
  BY <1>6, <1>7, <1>8 DEF BeginPost, asked, sent

LEMMA StampPostKeeps ==
    ASSUME GuestInv, NEW h \in Handlers, StampPost(h)
    PROVE  GuestInv'
<1>1. /\ post \in [Handlers -> Post] /\ now \in Times /\ PostOK(h) /\ post[h].pc = "stamp"
      /\ UNCHANGED <<now, entry, live, lastPost, noted, feed>>
  BY DEF GuestInv, TypeOK, StampPost
<1>2. now # Null
  BY <1>1, GuestbookAssumption DEF Times
<1> DEFINE p == [post[h] EXCEPT !.pc = "insert", !.at = now]
<1>3. post' = [post EXCEPT ![h] = p]
  BY <1>1 DEF StampPost
<1>4. p \in Post /\ p.pc = "insert" /\ p.at = now /\ p.read = post[h].read
      /\ p.code = post[h].code /\ p.by = post[h].by
  BY <1>1 DEF Post
<1> HIDE DEF p
<1>5. post'[h] = p
  BY <1>1, <1>3
<1>6. PostOK(h)'
  BY <1>1, <1>2, <1>4, <1>5 DEF PostOK
<1> QED
  BY <1>1, <1>3, <1>4, <1>6, OnlyPost

LEMMA InsertPostKeeps ==
    ASSUME GuestInv, NEW h \in Handlers, InsertPost(h)
    PROVE  GuestInv'
<1> DEFINE new == [at |-> post[h].at, by |-> post[h].by, read |-> post[h].read,
                   since |-> post[h].since]
<1>1. /\ TypeOK /\ LimitOK /\ PostOK(h)
      /\ post[h] \in Post /\ post[h].pc = "insert" /\ post[h].by \in Devices
  BY DEF GuestInv, TypeOK, InsertPost, PostOK
<1>2. PICK i \in Ids \ Used :
        /\ entry' = [entry EXCEPT ![i] = new]
        /\ live' = live \cup {i}
        /\ post' = [post EXCEPT ![h].pc = "note", ![h].id = i]
        /\ UNCHANGED <<now, lastPost, noted, feed>>
  BY DEF InsertPost
<1> DEFINE p == [post[h] EXCEPT !.pc = "note", !.id = i]
<1>3. post' = [post EXCEPT ![h] = p]
  BY <1>1, <1>2 DEF TypeOK
<1>4. /\ p \in Post /\ p.pc = "note" /\ p.id = i /\ p.read = post[h].read
      /\ p.code = post[h].code /\ p.by = post[h].by
  BY <1>1 DEF Post
<1>5. new \in Entry /\ new.at # Null /\ new.by = post[h].by /\ new.read = post[h].read
  BY <1>1 DEF Post, PostOK, Entry
<1>6. new # NoEntry
  BY <1>5 DEF NoEntry
<1> HIDE DEF p, new
<1>7. post' \in [Handlers -> Post] /\ post'[h] = p /\ \A g \in Handlers : g # h => post'[g] = post[g]
  BY <1>1, <1>3, <1>4 DEF TypeOK
<1>8. /\ entry' \in [Ids -> Entry \cup {NoEntry}] /\ entry'[i] = new
      /\ \A j \in Ids : j # i => entry'[j] = entry[j]
  BY <1>1, <1>2, <1>5 DEF TypeOK
<1>9. Used' = Used \cup {i} /\ BookGrows
  BY <1>1, <1>2, <1>6, <1>8 DEF Used, BookGrows, TypeOK
<1>10. TypeOK'
  BY <1>1, <1>2, <1>7, <1>8, <1>9 DEF TypeOK
<1>11. PostOK(h)'
  BY <1>1, <1>4, <1>5, <1>7, <1>8, <1>9 DEF PostOK
<1>12. LimitOK'
  BY <1>1, <1>2, <1>9, LimitKept
<1> QED
  BY <1>2, <1>7, <1>9, <1>10, <1>11, <1>12, StepKeeps

\* The answer of a post.
LEMMA AnswerPostEffect ==
    ASSUME TypeOK, NEW h \in Handlers, NEW code \in {"ERROR", "created"}, AnswerPost(h, code)
    PROVE  \E p \in Post : /\ post' = [post EXCEPT ![h] = p] /\ post'[h] = p
                           /\ p.pc = "answer" /\ p.code = code /\ p.id = post[h].id
<1> DEFINE p == [post[h] EXCEPT !.pc = "answer", !.code = code, !.read = Null, !.at = Null,
                               !.since = {}]
<1>1. post' = [post EXCEPT ![h] = p]
  BY DEF AnswerPost, TypeOK
<1>2. p \in Post /\ p.pc = "answer" /\ p.code = code /\ p.id = post[h].id
  BY DEF TypeOK, Post
<1> HIDE DEF p
<1> QED
  BY <1>1, <1>2 DEF TypeOK

LEMMA NotePostKeeps ==
    ASSUME GuestInv, NEW h \in Handlers, NotePost(h)
    PROVE  GuestInv'
<1>1. /\ TypeOK /\ LimitOK /\ PostOK(h) /\ post[h] \in Post
      /\ post[h].pc = "note" /\ post[h].by \in Devices
      /\ UNCHANGED <<now, entry, live, feed>>
  BY DEF GuestInv, TypeOK, NotePost, PostOK
<1>2. BookGrows
  BY <1>1, SameBook
<1>3. ASSUME NEW code \in {"ERROR", "created"}, AnswerPost(h, code)
      PROVE  /\ post' \in [Handlers -> Post]
             /\ \A g \in Handlers : g # h => post'[g] = post[g]
             /\ PostOK(h)'
  BY <1>1, <1>3, AnswerPostEffect DEF TypeOK, PostOK, Used
<1>4. CASE post[h].id \in live
  <2>1. /\ lastPost' = [lastPost EXCEPT ![post[h].by] = post[h].read]
        /\ noted' = Note(h)
        /\ AnswerPost(h, "created")
    BY <1>1, <1>4 DEF NotePost
  <2>2. post[h].read \in Times /\ post[h].id \in Used
    BY <1>1 DEF PostOK, Post
  <2>3. TypeOK'
    <3>1. noted' \in [Devices -> SUBSET Ids]
      BY <1>1, <2>1, <2>2 DEF TypeOK, Note, Used
    <3> QED
      BY <1>1, <1>3, <2>1, <2>2, <3>1 DEF TypeOK, Used
  <2>4. LimitOK'
    <3>1. PICK d \in Devices : d = post[h].by
      BY <1>1
    <3>2. /\ lastPost'[d] = post[h].read
          /\ \A e \in Devices : e # d => lastPost'[e] = lastPost[e]
      BY <1>1, <2>1, <3>1 DEF TypeOK
    <3>3. post[h].id \in Used /\ entry[post[h].id].by = d /\ entry[post[h].id].read = post[h].read
      BY <1>1, <3>1 DEF PostOK
    <3> QED
      BY <1>1, <3>2, <3>3 DEF LimitOK, Used
  <2> QED
    BY <1>1, <1>2, <1>3, <2>1, <2>3, <2>4, StepKeeps
<1>5. CASE post[h].id \notin live
  <2>1. AnswerPost(h, "ERROR") /\ UNCHANGED <<lastPost, noted>>
    BY <1>5 DEF NotePost
  <2>2. TypeOK' /\ LimitOK'
    BY <1>1, <1>2, <1>3, <2>1, LimitKept DEF TypeOK, Used
  <2> QED
    BY <1>1, <1>2, <1>3, <2>1, <2>2, StepKeeps
<1> QED
  BY <1>4, <1>5

LEMMA FailPostKeeps ==
    ASSUME GuestInv, NEW h \in Handlers, FailPost(h)
    PROVE  GuestInv'
<1>1. AnswerPost(h, "ERROR") /\ UNCHANGED <<now, entry, live, lastPost, noted, feed>>
  BY DEF FailPost
<1>2. TypeOK
  BY DEF GuestInv
<1>3. PICK p \in Post : /\ post' = [post EXCEPT ![h] = p] /\ post'[h] = p
                        /\ p.pc = "answer" /\ p.code = "ERROR"
  BY <1>1, <1>2, AnswerPostEffect
<1>4. PostOK(h)'
  BY <1>3 DEF PostOK
<1> QED
  BY <1>1, <1>3, <1>4, OnlyPost

LEMMA NoPostIsPost ==
    NoPost \in Post /\ NoPost.pc = "idle" /\ NoPost.code = "none"
BY DEF NoPost, Post

LEMMA PostLostKeeps ==
    ASSUME GuestInv, NEW h \in Handlers, PostLost(h)
    PROVE  GuestInv'
<1> DEFINE p == [post[h] EXCEPT !.screen = Null]
<1>1. /\ TypeOK /\ PostOK(h) /\ post[h] \in Post /\ post' = [post EXCEPT ![h] = p]
      /\ UNCHANGED <<now, entry, live, lastPost, noted, feed>>
  BY DEF GuestInv, TypeOK, PostLost
<1>2. /\ p \in Post /\ p.pc = post[h].pc /\ p.by = post[h].by /\ p.read = post[h].read
      /\ p.at = post[h].at /\ p.id = post[h].id /\ p.code = post[h].code
  BY <1>1 DEF Post
<1> HIDE DEF p
<1>3. post'[h] = p
  BY <1>1 DEF TypeOK
<1>4. PostOK(h)'
  BY <1>1, <1>2, <1>3 DEF PostOK, Used
<1> QED
  BY <1>1, <1>2, <1>4, OnlyPost

LEMMA PostAnsweredKeeps ==
    ASSUME GuestInv, NEW h \in Handlers, PostAnswered(h)
    PROVE  GuestInv'
<1> PICK s : s = post[h].screen
  OBVIOUS
<1>1. /\ TypeOK /\ LimitOK /\ PostOK(h)
      /\ post' = [post EXCEPT ![h] = NoPost] /\ post'[h] = NoPost
      /\ \A g \in Handlers : g # h => post'[g] = post[g]
      /\ UNCHANGED <<now, entry, live, lastPost, noted>>
  BY DEF GuestInv, PostAnswered, TypeOK
<1>2. PostOK(h)' /\ BookGrows /\ LimitOK'
  BY <1>1, NoPostIsPost, SameBook, LimitKept DEF PostOK
<1>3. CASE feed' = feed
  <2>1. TypeOK'
    BY <1>1, <1>3, NoPostIsPost DEF TypeOK, Used
  <2> QED
    BY <1>1, <1>2, <1>3, <2>1, StepKeeps
<1>4. CASE post[h].code = "created" /\ s \in Readers
  <2> DEFINE id   == post[h].id
             list == <<id>> \o feed[s].list
             more == feed[s].doubled \cup ({id} \cap Listed(feed[s].list))
             f    == [feed[s] EXCEPT !.list = list, !.doubled = more]
  <2>1. s \in Screens /\ id \in Ids /\ feed[s] \in Feed /\ FeedOK(s)
    BY <1>1, <1>4, GuestbookAssumption DEF PostOK, Used, TypeOK, GuestInv
  <2>2. feed' = [feed EXCEPT ![s] = f]
    BY <1>1, <1>4, <2>1 DEF PostAnswered, TypeOK
  <2> HIDE DEF id
  <2>3. feed[s].list \in Seq(Ids) /\ feed[s].doubled \subseteq Ids
    BY <2>1 DEF Feed
  <2>4. /\ list \in Seq(Ids) /\ Len(list) = Len(feed[s].list) + 1 /\ list[1] = id
        /\ \A k \in DOMAIN list : k = 1 \/ (/\ k - 1 \in DOMAIN feed[s].list
                                            /\ list[k] = feed[s].list[k - 1])
        /\ \A k \in DOMAIN feed[s].list : k + 1 \in DOMAIN list /\ list[k + 1] = feed[s].list[k]
    BY <2>1, <2>3
  <2> HIDE DEF list
  <2>5. Listed(feed[s].list) \subseteq Listed(list)
    BY <2>4 DEF Listed
  <2>6. more \subseteq Ids
    BY <2>1, <2>3
  <2>7. \A j, k \in DOMAIN list : j # k /\ list[j] = list[k] => list[j] \in more
    <3> SUFFICES ASSUME NEW j \in DOMAIN list, NEW k \in DOMAIN list, j # k, list[j] = list[k]
                 PROVE  list[j] \in more
      OBVIOUS
    <3>1. CASE j = 1
      BY <2>4, <3>1 DEF Listed
    <3>2. CASE k = 1
      BY <2>4, <3>2 DEF Listed
    <3>3. CASE j # 1 /\ k # 1
      <4>1. /\ j - 1 \in DOMAIN feed[s].list /\ list[j] = feed[s].list[j - 1]
            /\ k - 1 \in DOMAIN feed[s].list /\ list[k] = feed[s].list[k - 1]
        BY <2>4, <3>3
      <4>2. j - 1 # k - 1
        BY <2>3, <2>4
      <4> QED
        BY <1>1, <2>1, <4>1, <4>2 DEF FeedOK
    <3> QED
      BY <3>1, <3>2, <3>3
  <2> HIDE DEF more
  <2>8. /\ f \in Feed /\ f.list = list /\ f.doubled = more /\ f.load = feed[s].load
        /\ f.read = feed[s].read /\ f.page = feed[s].page /\ f.base = feed[s].base
        /\ f.cursor = feed[s].cursor
    BY <2>1, <2>4, <2>6 DEF Feed
  <2> HIDE DEF f
  <2>9. /\ feed' \in [Screens -> Feed] /\ feed'[s] = f
        /\ \A t \in Screens : t # s => feed'[t] = feed[t]
    BY <1>1, <2>1, <2>2, <2>8 DEF TypeOK
  <2>10. TypeOK'
    BY <1>1, <2>9, NoPostIsPost DEF TypeOK, Used
  <2>11. Used' = Used /\ \A i \in Ids : Key(i)' = Key(i)
    BY <1>1 DEF Used, Key
  <2>12. feed[s].read => PageOK(s)'
    BY <1>1, <2>1, <2>8, <2>9, <2>11 DEF FeedOK, PageOK, Used, Before, Listed
  <2>13. FeedOK(s)'
    BY <1>1, <2>1, <2>5, <2>7, <2>8, <2>9, <2>11, <2>12 DEF FeedOK, Used, Before, Listed
  <2> QED
    BY <1>1, <1>2, <2>9, <2>10, <2>13, StepKeeps
<1> QED
  BY <1>3, <1>4 DEF PostAnswered

-----------------------------------------------------------------------------
(* Reading.                                                                *)

\* One list has changed, and nothing else.
LEMMA OnlyFeed ==
    ASSUME GuestInv, NEW s \in Screens, NEW f \in Feed, feed' = [feed EXCEPT ![s] = f],
           UNCHANGED <<now, entry, live, lastPost, noted, post>>, FeedOK(s)'
    PROVE  GuestInv'
<1>1. TypeOK' /\ LimitOK' /\ BookGrows
  BY SameBook, LimitKept DEF GuestInv, TypeOK, Used
<1>2. \A r \in Screens : feed'[r] = feed[r] \/ FeedOK(r)'
  BY DEF GuestInv, TypeOK
<1> QED
  BY <1>1, <1>2, StepKeeps

\* What a step that only reads leaves of the book.
LEMMA BookIsRead ==
    ASSUME UNCHANGED <<entry, live>>
    PROVE  Used' = Used /\ \A i : Key(i)' = Key(i)
BY DEF Used, Key

LEMMA SelectPageKeeps ==
    ASSUME GuestInv, NEW s \in Screens, SelectPage(s)
    PROVE  GuestInv'
<1>1. /\ TypeOK /\ FeedOK(s) /\ feed[s] \in Feed /\ live \subseteq Used
      /\ feed[s].load \in {"first", "next"}
      /\ UNCHANGED <<now, entry, live, lastPost, noted, post>>
  BY DEF GuestInv, TypeOK, SelectPage
<1> DEFINE c    == IF feed[s].load = "first" THEN Null ELSE feed[s].cursor
           page == PageAfter(c)
           base == IF feed[s].load = "first" THEN live ELSE feed[s].base
           f    == [feed[s] EXCEPT !.read = TRUE, !.page = page, !.base = base]
<1>2. feed' = [feed EXCEPT ![s] = f]
  BY <1>1 DEF SelectPage, TypeOK
<1>3. c \in Keys \cup {Null}
  BY <1>1 DEF Feed
<1>4. base \subseteq Ids /\ base \subseteq Used
  BY <1>1 DEF FeedOK, Used
<1>5. /\ feed[s].load = "first" => c = Null
      /\ feed[s].load = "next" => c = feed[s].cursor /\ base = feed[s].base
  OBVIOUS
<1> HIDE DEF c, base
<1>6. /\ page \in [ids: Seq(Ids), next: Keys \cup {Null}]
      /\ \A j, k \in DOMAIN page.ids : j # k => page.ids[j] # page.ids[k]
      /\ \A i \in live : /\ c # Null => Before(Key(i), c)
                         /\ page.next # Null => ~Before(Key(i), page.next)
                         => i \in Listed(page.ids)
  BY <1>1, <1>3, PageIs
<1> HIDE DEF page
<1>7. /\ f \in Feed /\ f.read = TRUE /\ f.page = page /\ f.base = base
      /\ f.load = feed[s].load /\ f.list = feed[s].list /\ f.cursor = feed[s].cursor
      /\ f.doubled = feed[s].doubled
  BY <1>1, <1>4, <1>6 DEF Feed
<1> HIDE DEF f
<1>8. feed'[s] = f
  BY <1>1, <1>2 DEF TypeOK
<1>9. Used' = Used /\ live' = live /\ \A i : Key(i)' = Key(i)
  BY <1>1, BookIsRead
<1>10. PageOK(s)'
  BY <1>1, <1>5, <1>6, <1>7, <1>8, <1>9 DEF PageOK, Before, Listed
<1>11. FeedOK(s)'
  BY <1>1, <1>4, <1>5, <1>7, <1>8, <1>9, <1>10 DEF FeedOK, Before, Listed
<1> QED
  BY <1>1, <1>2, <1>7, <1>11, OnlyFeed

LEMMA PageArrivesKeeps ==
    ASSUME GuestInv, NEW s \in Screens, PageArrives(s)
    PROVE  GuestInv'
<1>1. /\ TypeOK /\ FeedOK(s) /\ PageOK(s) /\ feed[s] \in Feed
      /\ feed[s].load \in {"first", "next"}
      /\ UNCHANGED <<now, entry, live, lastPost, noted, post>>
  BY DEF GuestInv, TypeOK, PageArrives, FeedOK, PageOK
<1> DEFINE page    == feed[s].page
           first   == feed[s].load = "first"
           list    == IF first THEN page.ids ELSE AppendPage(feed[s].list, page.ids)
           doubled == IF first THEN {} ELSE feed[s].doubled
           f       == [feed[s] EXCEPT !.load = "idle", !.read = FALSE, !.page = NoPage,
                                      !.list = list, !.doubled = doubled,
                                      !.cursor = page.next]
<1>2. feed' = [feed EXCEPT ![s] = f]
  BY <1>1 DEF PageArrives, TypeOK
<1>3. /\ page.ids \in Seq(Ids) /\ page.next \in Keys \cup {Null}
      /\ feed[s].list \in Seq(Ids) /\ feed[s].doubled \subseteq Ids
  BY <1>1 DEF Feed
<1>4. /\ list \in Seq(Ids)
      /\ \A i \in feed[s].base \cap live :
            (page.next = Null \/ ~Before(Key(i), page.next)) => i \in Listed(list)
      /\ \A j, k \in DOMAIN list : j # k /\ list[j] = list[k] => list[j] \in doubled
  <2>1. CASE first
    BY <1>1, <1>3, <2>1 DEF PageOK
  <2>2. CASE ~first
    <3>1. list = AppendPage(feed[s].list, page.ids) /\ doubled = feed[s].doubled
      BY <2>2
    <3> HIDE DEF list, doubled
    <3>2. /\ list \in Seq(Ids)
          /\ Listed(feed[s].list) \cup Listed(page.ids) \subseteq Listed(list)
          /\ \A k \in DOMAIN feed[s].list : list[k] = feed[s].list[k]
          /\ \A j, k \in DOMAIN list : j # k /\ list[j] = list[k] =>
                j \in DOMAIN feed[s].list /\ k \in DOMAIN feed[s].list
      BY <1>3, <3>1, Appended
    <3>3. ASSUME NEW i \in feed[s].base \cap live,
                 page.next = Null \/ ~Before(Key(i), page.next)
          PROVE  i \in Listed(list)
      <4>1. CASE feed[s].cursor = Null \/ ~Before(Key(i), feed[s].cursor)
        BY <1>1, <2>2, <3>2, <4>1 DEF FeedOK
      <4>2. CASE feed[s].cursor # Null /\ Before(Key(i), feed[s].cursor)
        BY <1>1, <3>2, <3>3, <4>2 DEF PageOK
      <4> QED
        BY <4>1, <4>2
    <3>4. ASSUME NEW j \in DOMAIN list, NEW k \in DOMAIN list, j # k, list[j] = list[k]
          PROVE  list[j] \in doubled
      BY <1>1, <3>1, <3>2, <3>4 DEF FeedOK
    <3> QED
      BY <3>2, <3>3, <3>4
  <2> QED
    BY <2>1, <2>2
<1>5. doubled \subseteq Ids
  BY <1>3
<1> HIDE DEF list, doubled
<1>6. /\ f \in Feed /\ f.read = FALSE /\ f.base = feed[s].base /\ f.load = "idle"
      /\ f.list = list /\ f.cursor = page.next /\ f.doubled = doubled
  <2>1. NoPage \in [ids: Seq(Ids), next: Keys \cup {Null}]
    BY DEF NoPage
  <2> QED
    BY <1>1, <1>3, <1>4, <1>5, <2>1 DEF Feed
<1> HIDE DEF f
<1>7. feed'[s] = f
  BY <1>1, <1>2 DEF TypeOK
<1>8. Used' = Used /\ live' = live /\ \A i : Key(i)' = Key(i)
  BY <1>1, BookIsRead
<1>9. FeedOK(s)'
  BY <1>1, <1>4, <1>6, <1>7, <1>8 DEF FeedOK, Before, Listed
<1> QED
  BY <1>1, <1>2, <1>6, <1>9, OnlyFeed

\* A screen that waits for nothing it has asked for keeps its list as it was.
LEMMA ListKept ==
    ASSUME UNCHANGED <<entry, live>>, NEW s \in Screens, FeedOK(s), ~feed'[s].read,
           feed'[s].base = feed[s].base, feed'[s].list = feed[s].list,
           feed'[s].cursor = feed[s].cursor, feed'[s].doubled = feed[s].doubled,
           feed'[s].load \in {"idle", "next"} => feed[s].load \in {"idle", "next"}
    PROVE  FeedOK(s)'
<1>1. Used' = Used /\ \A i : Key(i)' = Key(i)
  BY BookIsRead
<1> QED
  BY <1>1 DEF FeedOK, Before, Listed

\* The steps that only change what a screen waits for.
LEMMA LoadKeeps ==
    ASSUME GuestInv, NEW s \in Screens, LoadFails(s) \/ RetryLoad(s) \/ LoadMore(s)
    PROVE  GuestInv'
<1>1. /\ TypeOK /\ FeedOK(s) /\ feed[s] \in Feed
      /\ UNCHANGED <<now, entry, live, lastPost, noted, post>>
  BY DEF GuestInv, TypeOK, LoadFails, RetryLoad, LoadMore
<1>2. ASSUME NEW load \in {"first", "next", "idle", "error"}, NEW page, NEW read \in BOOLEAN,
             \/ page = NoPage /\ read = FALSE
             \/ page = feed[s].page /\ read = feed[s].read,
             read => feed[s].load \in {"idle", "error"},
             load \in {"idle", "next"} => feed[s].load \in {"idle", "next"},
             feed' = [feed EXCEPT ![s] =
                        [feed[s] EXCEPT !.load = load, !.read = read, !.page = page]]
      PROVE  GuestInv'
  <2> DEFINE f == [feed[s] EXCEPT !.load = load, !.read = read, !.page = page]
  <2>1. /\ f \in Feed /\ f.read = read /\ f.base = feed[s].base /\ f.load = load
        /\ f.list = feed[s].list /\ f.cursor = feed[s].cursor
        /\ f.doubled = feed[s].doubled
    <3>1. page \in [ids: Seq(Ids), next: Keys \cup {Null}]
      <4>1. NoPage \in [ids: Seq(Ids), next: Keys \cup {Null}]
        BY DEF NoPage
      <4>2. feed[s].page \in [ids: Seq(Ids), next: Keys \cup {Null}]
        BY <1>1 DEF Feed
      <4> QED
        BY <1>2, <4>1, <4>2
    <3> QED
      BY <1>1, <1>2, <3>1 DEF Feed
  <2> HIDE DEF f
  <2>2. feed'[s] = f
    BY <1>1, <1>2 DEF TypeOK, f
  <2>3. ~read
    BY <1>1, <1>2 DEF FeedOK, PageOK
  <2>4. FeedOK(s)'
    BY <1>1, <1>2, <2>1, <2>2, <2>3, ListKept
  <2> QED
    BY <1>1, <1>2, <2>1, <2>4, OnlyFeed DEF f
<1>3. CASE LoadFails(s)
  <2> DEFINE load == IF feed[s].load = "first" THEN "error" ELSE "idle"
  <2>1. /\ feed' = [feed EXCEPT ![s] =
                      [feed[s] EXCEPT !.load = load, !.read = FALSE, !.page = NoPage]]
        /\ feed[s].load \in {"first", "next"}
    BY <1>1, <1>3 DEF LoadFails, TypeOK
  <2>2. load \in {"error", "idle"} /\ (load = "idle" => feed[s].load = "next")
    BY <2>1
  <2> HIDE DEF load
  <2> QED
    BY <1>2, <2>1, <2>2
<1>4. ASSUME NEW load \in {"first", "next"}, feed[s].load \in {"idle", "error"},
             load = "next" => feed[s].load = "idle",
             feed' = [feed EXCEPT ![s].load = load]
      PROVE  GuestInv'
  <2>1. feed[s].read \in BOOLEAN
    BY <1>1 DEF Feed
  <2>2. feed' = [feed EXCEPT ![s] =
                   [feed[s] EXCEPT !.load = load, !.read = feed[s].read,
                                   !.page = feed[s].page]]
    BY <1>1, <1>4 DEF TypeOK, Feed
  <2> QED
    BY <1>2, <1>4, <2>1, <2>2
<1>5. CASE RetryLoad(s)
  BY <1>4, <1>5 DEF RetryLoad
<1>6. CASE LoadMore(s)
  BY <1>4, <1>6 DEF LoadMore
<1> QED
  BY <1>3, <1>5, <1>6

-----------------------------------------------------------------------------
(* The operator, the process and the clock.                                *)

LEMMA DeleteKeeps ==
    ASSUME GuestInv, NEW i \in Ids, DeleteEntry(i)
    PROVE  GuestInv'
<1>1. /\ TypeOK /\ LimitOK /\ live' \subseteq live
      /\ UNCHANGED <<now, entry, lastPost, noted, post, feed>>
  BY DEF GuestInv, DeleteEntry
<1>2. Used' = Used /\ BookGrows
  BY <1>1 DEF Used, BookGrows
<1>3. TypeOK' /\ LimitOK'
  BY <1>1, <1>2, LimitKept DEF TypeOK
<1> QED
  BY <1>1, <1>2, <1>3, PostKept, FeedKept DEF GuestInv

LEMMA RestartKeeps ==
    ASSUME GuestInv, Restart
    PROVE  GuestInv'
<1>1. /\ TypeOK /\ \A s \in Screens : FeedOK(s)
      /\ UNCHANGED <<now, entry, live>>
      /\ lastPost' = [d \in Devices |-> Null] /\ noted' = [d \in Devices |-> {}]
      /\ post' = [h \in Handlers |-> NoPost]
  BY DEF GuestInv, Restart
<1>2. ASSUME NEW s \in Screens
      PROVE  /\ feed'[s] \in Feed /\ feed'[s].read = FALSE /\ feed'[s].base = feed[s].base
             /\ feed'[s].list = feed[s].list /\ feed'[s].cursor = feed[s].cursor
             /\ feed'[s].doubled = feed[s].doubled
             /\ feed'[s].load \in {"idle", "next"} => feed[s].load \in {"idle", "next"}
  <2> DEFINE load == CASE feed[s].load = "first" -> "error"
                       [] feed[s].load = "next" -> "idle"
                       [] OTHER -> feed[s].load
  <2>1. feed'[s] = [feed[s] EXCEPT !.read = FALSE, !.page = NoPage, !.load = load]
    BY DEF Restart
  <2>2. feed[s] \in Feed
    BY <1>1 DEF TypeOK
  <2>3. load \in {"error", "idle"} /\ (load = "idle" => feed[s].load \in {"idle", "next"})
    BY <2>2 DEF Feed
  <2>4. NoPage \in [ids: Seq(Ids), next: Keys \cup {Null}]
    BY DEF NoPage
  <2> HIDE DEF load
  <2> QED
    BY <2>1, <2>2, <2>3, <2>4 DEF Feed
<1>3. feed' \in [Screens -> Feed]
  <2>1. feed' = [s \in Screens |-> feed'[s]]
    BY DEF Restart
  <2> QED
    BY <1>2, <2>1
<1>5. TypeOK'
  BY <1>1, <1>3, BookIsRead, NoPostIsPost DEF TypeOK
<1>6. LimitOK'
  BY <1>1 DEF LimitOK
<1>7. \A h \in Handlers : PostOK(h)'
  BY <1>1, NoPostIsPost DEF PostOK
<1>8. \A s \in Screens : FeedOK(s)'
  BY <1>1, <1>2, ListKept
<1> QED
  BY <1>5, <1>6, <1>7, <1>8 DEF GuestInv

LEMMA GuestInvInit == ASSUME Init PROVE GuestInv
<1>1. 0 \in Times
  BY GuestbookAssumption DEF Times
<1>2. entry \in [Ids -> Entry \cup {NoEntry}]
  <2>1. [at |-> 0, by |-> Null, read |-> 0, since |-> {}] \in Entry
    BY <1>1 DEF Entry
  <2> QED
    BY <2>1 DEF Init
<1>3. live \subseteq Used
  <2>1. [at |-> 0, by |-> Null, read |-> 0, since |-> {}] # NoEntry
    BY GuestbookAssumption DEF NoEntry
  <2> QED
    BY <2>1, GuestbookAssumption DEF Init, Used
<1>4. ASSUME NEW s \in Screens
      PROVE  /\ feed[s] \in Feed /\ feed[s].base = {} /\ feed[s].read = FALSE
             /\ feed[s].list = <<>>
  <2>1. NoFeed \in Feed /\ NoFeed.base = {} /\ NoFeed.read = FALSE /\ NoFeed.list = <<>>
    <3>1. NoPage \in [ids: Seq(Ids), next: Keys \cup {Null}]
      BY DEF NoPage
    <3> QED
      BY <3>1 DEF NoFeed, Feed
  <2> DEFINE load == IF s \in Readers THEN "first" ELSE "idle"
  <2>2. feed[s] = [NoFeed EXCEPT !.load = load] /\ load \in {"first", "idle"}
    BY DEF Init
  <2> HIDE DEF load
  <2> QED
    BY <2>1, <2>2 DEF Feed
<1>5. feed \in [Screens -> Feed]
  <2>1. feed = [s \in Screens |-> feed[s]]
    BY DEF Init
  <2> QED
    BY <1>4, <2>1
<1>6. TypeOK
  BY <1>1, <1>2, <1>3, <1>5, NoPostIsPost DEF Init, TypeOK
<1>7. LimitOK
  BY DEF Init, LimitOK
<1>8. \A h \in Handlers : PostOK(h)
  BY NoPostIsPost DEF Init, PostOK
<1>9. ASSUME NEW s \in Screens PROVE FeedOK(s)
  <2>2. feed[s].base = {} /\ feed[s].read = FALSE /\ DOMAIN feed[s].list = {}
    <3>1. \A list \in Seq(Ids) : list = <<>> => DOMAIN list = {}
      OBVIOUS
    <3>2. feed[s].list \in Seq(Ids)
      BY <1>4 DEF Feed
    <3> QED
      BY <1>4, <3>1, <3>2
  <2> QED
    BY <2>2 DEF FeedOK
<1> QED
  BY <1>6, <1>7, <1>8, <1>9 DEF GuestInv

LEMMA GuestInvNext == ASSUME GuestInv, [Next]_vars PROVE GuestInv'
<1>1. ASSUME NEW h \in Handlers,
             \/ \E s \in Screens : BeginPost(h, s)
             \/ StampPost(h) \/ InsertPost(h) \/ NotePost(h)
             \/ FailPost(h) \/ PostAnswered(h) \/ PostLost(h)
      PROVE  GuestInv'
  BY <1>1, BeginPostKeeps, StampPostKeeps, InsertPostKeeps, NotePostKeeps, FailPostKeeps,
     PostAnsweredKeeps, PostLostKeeps
<1>2. ASSUME NEW s \in Screens,
             \/ SelectPage(s) \/ PageArrives(s) \/ LoadFails(s)
             \/ RetryLoad(s) \/ LoadMore(s)
      PROVE  GuestInv'
  BY <1>2, SelectPageKeeps, PageArrivesKeeps, LoadKeeps
<1>3. ASSUME NEW i \in Ids, DeleteEntry(i) PROVE GuestInv'
  BY <1>3, DeleteKeeps
<1>4. CASE Restart
  BY <1>4, RestartKeeps
<1>5. CASE TimePasses \/ UNCHANGED vars
  <2>1. UNCHANGED <<entry, live, lastPost, noted, post, feed>> /\ now' \in Times
    BY <1>5, GuestbookAssumption DEF TimePasses, vars, GuestInv, TypeOK, Times
  <2>2. TypeOK'
    BY <2>1 DEF GuestInv, TypeOK, Used
  <2> QED
    BY <2>1, <2>2, SameBook, LimitKept, PostKept, FeedKept DEF GuestInv
<1> QED
  BY <1>1, <1>2, <1>3, <1>4, <1>5 DEF Next

LEMMA GuestInvHolds == Spec => []GuestInv
BY GuestInvInit, GuestInvNext, PTL DEF Spec

-----------------------------------------------------------------------------
(* The theorems.                                                           *)

\* The variables keep their types; in particular only entries that were
\* inserted are live, and lists and pages hold ids.
THEOREM TypeCorrect == Spec => []TypeOK
BY GuestInvHolds, PTL DEF GuestInv

\* GB-506: the pages of get_guestbook leave no gap, for every page size and
\* however inserts, deletions, restarts and lost answers fall between them.
THEOREM PagesLeaveNoGap == Spec => []NothingSkipped
<1>1. GuestInv => NothingSkipped
  BY DEF GuestInv, FeedOK, NothingSkipped
<1> QED
  BY <1>1, GuestInvHolds, PTL

\* GB-504, GB-506: appendPage and the page query put nothing twice in a list;
\* only the screen's own post can be there already when its answer comes.
THEOREM PagesRepeatNothing == Spec => []NothingRepeated
<1>1. GuestInv => NothingRepeated
  BY DEF GuestInv, FeedOK, NothingRepeated
<1> QED
  BY <1>1, GuestInvHolds, PTL

\* D-19, GB-403: who is told RATE_LIMITED has an entry less than a window old.
THEOREM RateLimitsAreEarned == Spec => []RateLimitIsEarned
<1>1. GuestInv => RateLimitIsEarned
  BY DEF GuestInv, PostOK, RateLimitIsEarned
<1> QED
  BY <1>1, GuestInvHolds, PTL

-----------------------------------------------------------------------------
(* The distance between the posts of a device, whatever overlaps.          *)

NotedOK(d) ==
    \A j \in noted[d] : j \in Used /\ lastPost[d] # Null /\ entry[j].read <= lastPost[d]

\* A post past the limit is a window later than all that the limit knew of then.
SinceOK(h) ==
    post[h].pc \in {"stamp", "insert", "note"} =>
        \A j \in post[h].since : j \in Used /\ entry[j].read + Window <= post[h].read

ApartOK(i) ==
    \A j \in entry[i].since : j \in Used /\ entry[j].read + Window <= entry[i].read

SpacedInv ==
    /\ GuestInv
    /\ \A d \in Devices : NotedOK(d)
    /\ \A h \in Handlers : SinceOK(h)
    /\ \A i \in Used : ApartOK(i)

LEMMA NotedKept ==
    ASSUME BookGrows, NEW d \in Devices, NotedOK(d),
           lastPost'[d] = lastPost[d], noted'[d] = noted[d]
    PROVE  NotedOK(d)'
BY DEF NotedOK, BookGrows

LEMMA SinceKept ==
    ASSUME BookGrows, NEW h \in Handlers, SinceOK(h), post'[h] = post[h]
    PROVE  SinceOK(h)'
BY DEF SinceOK, BookGrows

LEMMA ApartKept ==
    ASSUME BookGrows, NEW i \in Used, ApartOK(i)
    PROVE  ApartOK(i)'
BY DEF ApartOK, BookGrows

\* A step that adds no entry and tells the limit nothing.
LEMMA NothingNoted ==
    ASSUME SpacedInv, GuestInv', NEW h \in Handlers,
           UNCHANGED <<entry, live, lastPost, noted>>,
           \A g \in Handlers : g # h => post'[g] = post[g],
           SinceOK(h)'
    PROVE  SpacedInv'
<1>1. BookGrows /\ Used' = Used
  BY SameBook DEF Used
<1>2. \A g \in Handlers : SinceOK(g)'
  BY <1>1, SinceKept DEF SpacedInv
<1> QED
  BY <1>1, <1>2, NotedKept, ApartKept DEF SpacedInv

\* Limited lets a post through that is a window later than what was noted.
LEMMA BeginPostSpaced ==
    ASSUME SpacedInv, GuestInv', NEW h \in Handlers, NEW s \in Screens,
           BeginPost(h, s)
    PROVE  SpacedInv'
<1> DEFINE d == Owner[s]
<1>1. /\ TypeOK /\ d \in Devices /\ NotedOK(d) /\ now \in Times
      /\ UNCHANGED <<entry, live, lastPost, noted>>
      /\ \A g \in Handlers : g # h => post'[g] = post[g]
  BY GuestbookAssumption DEF SpacedInv, GuestInv, TypeOK, BeginPost
<1>2. CASE post'[h].pc = "answer"
  <2>1. SinceOK(h)'
    BY <1>2 DEF SinceOK
  <2> QED
    BY <1>1, <2>1, NothingNoted
<1>3. CASE /\ ~Limited(d)
           /\ post'[h].pc = "stamp" /\ post'[h].read = now /\ post'[h].since = noted[d]
  <2>1. now \in Nat /\ Window \in Nat
    BY <1>1, GuestbookAssumption DEF Times
  <2>2. lastPost[d] # Null => lastPost[d] \in Nat /\ lastPost[d] + Window <= now
    <3>1. lastPost[d] # Null => lastPost[d] \in Nat /\ ~(now - lastPost[d] < Window)
      BY <1>1, <1>3, GuestbookAssumption DEF Limited, TypeOK, Times
    <3> QED
      BY <2>1, <3>1
  <2>3. \A j \in noted[d] : j \in Used /\ entry[j].read + Window <= now
    <3>1. \A j \in Used : entry[j].read \in Nat
      BY <1>1, GuestbookAssumption DEF TypeOK, Used, Entry, Times
    <3> QED
      BY <1>1, <2>1, <2>2, <3>1 DEF NotedOK
  <2>4. Used' = Used
    BY <1>1 DEF Used
  <2>5. SinceOK(h)'
    BY <1>1, <1>3, <2>3, <2>4 DEF SinceOK
  <2> QED
    BY <1>1, <2>5, NothingNoted
<1>4. post'[h].pc = "answer" \/ (/\ ~Limited(d)
                                 /\ post'[h].pc = "stamp" /\ post'[h].read = now
                                 /\ post'[h].since = noted[d])
  <2> DEFINE asked == Asked(s)
             sent  == Sent(s)
  <2>1. asked \in Post /\ asked.read = now /\ asked.since = noted[d] /\ sent \in Post
    BY <1>1, AskedIs
  <2>2. ASSUME NEW q \in Post, NEW code
        PROVE  /\ [q EXCEPT !.pc = "answer", !.code = code].pc = "answer"
               /\ LET p == [q EXCEPT !.pc = "stamp"]
                  IN p.pc = "stamp" /\ p.read = q.read /\ p.since = q.since
    BY DEF Post
  <2> HIDE DEF asked, sent
  <2>3. \/ post'[h] = [sent EXCEPT !.pc = "answer", !.code = "INVALID"]
        \/ post'[h] = [asked EXCEPT !.pc = "answer", !.code = "RATE_LIMITED"]
        \/ ~Limited(d) /\ post'[h] = [asked EXCEPT !.pc = "stamp"]
    BY <1>1 DEF BeginPost, TypeOK, asked, sent
  <2>4. ASSUME NEW q \in Post, NEW code, post'[h] = [q EXCEPT !.pc = "answer", !.code = code]
        PROVE  post'[h].pc = "answer"
    BY <2>2, <2>4
  <2>5. CASE ~Limited(d) /\ post'[h] = [asked EXCEPT !.pc = "stamp"]
    BY <2>1, <2>2, <2>5
  <2> QED
    BY <2>1, <2>3, <2>4, <2>5
<1> QED
  BY <1>2, <1>3, <1>4

LEMMA InsertPostSpaced ==
    ASSUME SpacedInv, GuestInv', NEW h \in Handlers, InsertPost(h)
    PROVE  SpacedInv'
<1>1. /\ TypeOK /\ SinceOK(h) /\ post[h] \in Post /\ post[h].pc = "insert" /\ PostOK(h)
      /\ UNCHANGED <<lastPost, noted>>
  BY DEF SpacedInv, GuestInv, TypeOK, InsertPost
<1>2. PICK i \in Ids \ Used :
        /\ entry' = [entry EXCEPT ![i] =
                       [at |-> post[h].at, by |-> post[h].by, read |-> post[h].read,
                        since |-> post[h].since]]
        /\ live' = live \cup {i}
        /\ post' = [post EXCEPT ![h].pc = "note", ![h].id = i]
  BY DEF InsertPost
<1>3. /\ \A g \in Handlers : g # h => post'[g] = post[g]
      /\ post'[h].pc = "note" /\ post'[h].read = post[h].read /\ post'[h].since = post[h].since
  BY <1>1, <1>2 DEF TypeOK, Post
<1>4. /\ entry'[i].read = post[h].read /\ entry'[i].since = post[h].since
      /\ \A j \in Ids : j # i => entry'[j] = entry[j]
  BY <1>1, <1>2 DEF TypeOK
<1>5. entry'[i] # NoEntry
  BY <1>1, <1>2 DEF PostOK, NoEntry, TypeOK
<1>6. BookGrows /\ Used' = Used \cup {i}
  BY <1>1, <1>2, <1>4, <1>5 DEF BookGrows, Used, TypeOK
<1>7. \A g \in Handlers : SinceOK(g)'
  <2>1. SinceOK(h)'
    BY <1>1, <1>3, <1>6 DEF SinceOK, BookGrows
  <2> QED
    BY <1>1, <1>3, <1>6, <2>1, SinceKept DEF SpacedInv
<1>8. ApartOK(i)'
  BY <1>1, <1>4, <1>6 DEF ApartOK, SinceOK, BookGrows
<1> QED
  BY <1>1, <1>6, <1>7, <1>8, NotedKept, ApartKept DEF SpacedInv

\* What the limit knows stays behind what it is told, were it an older reading.
LEMMA NotePostSpaced ==
    ASSUME SpacedInv, GuestInv', NEW h \in Handlers, NotePost(h)
    PROVE  SpacedInv'
<1>0. PICK d \in Devices : d = post[h].by
  BY DEF SpacedInv, GuestInv, NotePost, PostOK
<1>1. /\ TypeOK /\ SinceOK(h) /\ PostOK(h) /\ post[h].pc = "note"
      /\ UNCHANGED <<entry, live>>
  BY DEF SpacedInv, GuestInv, NotePost
<1>2. BookGrows /\ Used' = Used
  BY <1>1, SameBook DEF Used
<1>3. post'[h].pc = "answer" /\ \A g \in Handlers : g # h => post'[g] = post[g]
  BY <1>1, AnswerPostEffect DEF NotePost, TypeOK
<1>4. SinceOK(h)'
  BY <1>3 DEF SinceOK
<1>5. CASE post[h].id \notin live
  BY <1>1, <1>3, <1>4, <1>5, NothingNoted DEF NotePost
<1>6. CASE post[h].id \in live
  <2>1. /\ lastPost'[d] = post[h].read
        /\ noted'[d] = (noted[d] \cap post[h].since) \cup {post[h].id}
        /\ \A e \in Devices : e # d => lastPost'[e] = lastPost[e] /\ noted'[e] = noted[e]
    BY <1>0, <1>1, <1>6 DEF NotePost, Note, TypeOK
  <2>2. /\ post[h].read \in Nat /\ post[h].read # Null /\ Window \in Nat
        /\ \A j \in Used : entry[j].read \in Nat
    BY <1>1, GuestbookAssumption DEF TypeOK, PostOK, Post, Entry, Used, Times
  <2>3. \A j \in noted'[d] : j \in Used /\ entry[j].read <= post[h].read
    <3>1. \A j \in post[h].since : j \in Used /\ entry[j].read <= post[h].read
      BY <1>1, <2>2 DEF SinceOK
    <3>2. post[h].id \in Used /\ entry[post[h].id].read = post[h].read
      BY <1>1 DEF PostOK
    <3> QED
      BY <2>1, <2>2, <3>1, <3>2
  <2>4. NotedOK(d)'
    BY <1>1, <1>2, <2>1, <2>2, <2>3 DEF NotedOK
  <2>5. \A e \in Devices : NotedOK(e)'
    BY <1>2, <2>1, <2>4, NotedKept DEF SpacedInv
  <2>6. \A g \in Handlers : SinceOK(g)'
    BY <1>2, <1>3, <1>4, SinceKept DEF SpacedInv
  <2> QED
    BY <1>2, <2>5, <2>6, ApartKept DEF SpacedInv
<1> QED
  BY <1>5, <1>6

LEMMA SpacedInvInit == ASSUME Init PROVE SpacedInv
<1>1. GuestInv
  BY GuestInvInit
<1>2. ASSUME NEW i \in Used PROVE ApartOK(i)
  BY DEF Init, Used, ApartOK
<1>3. \A h \in Handlers : SinceOK(h)
  BY NoPostIsPost DEF Init, SinceOK
<1>4. \A d \in Devices : NotedOK(d)
  BY DEF Init, NotedOK
<1> QED
  BY <1>1, <1>2, <1>3, <1>4 DEF SpacedInv

LEMMA SpacedInvNext ==
    ASSUME SpacedInv, [Next]_vars
    PROVE  SpacedInv'
<1>0. GuestInv' /\ TypeOK /\ \A h \in Handlers : SinceOK(h)
  BY GuestInvNext DEF SpacedInv, GuestInv
<1>1. ASSUME NEW h \in Handlers,
             (\E s \in Screens : BeginPost(h, s)) \/ InsertPost(h) \/ NotePost(h)
      PROVE  SpacedInv'
  BY <1>0, <1>1, BeginPostSpaced, InsertPostSpaced, NotePostSpaced
<1>2. ASSUME NEW h \in Handlers, StampPost(h) \/ PostLost(h)
      PROVE  SpacedInv'
  <2>1. /\ UNCHANGED <<entry, live, lastPost, noted>>
        /\ \A g \in Handlers : g # h => post'[g] = post[g]
        /\ \/ post[h].pc = "stamp"
           \/ post'[h].pc = post[h].pc
        /\ post'[h].read = post[h].read /\ post'[h].since = post[h].since
    BY <1>0, <1>2 DEF StampPost, PostLost, TypeOK, Post
  <2>2. Used' = Used
    BY <2>1 DEF Used
  <2>3. SinceOK(h)'
    BY <1>0, <2>1, <2>2 DEF SinceOK
  <2> QED
    BY <1>0, <2>1, <2>3, NothingNoted
<1>3. ASSUME NEW h \in Handlers, FailPost(h) \/ PostAnswered(h)
      PROVE  SpacedInv'
  <2>1. /\ UNCHANGED <<entry, live, lastPost, noted>>
        /\ \A g \in Handlers : g # h => post'[g] = post[g]
        /\ post'[h].pc \in {"answer", "idle"}
    BY <1>0, <1>3, AnswerPostEffect, NoPostIsPost DEF FailPost, PostAnswered, TypeOK
  <2>2. SinceOK(h)'
    BY <2>1 DEF SinceOK
  <2> QED
    BY <1>0, <2>1, <2>2, NothingNoted
<1>4. CASE UNCHANGED <<entry, live, lastPost, noted, post>>
  <2>1. BookGrows /\ Used' = Used
    BY <1>4, SameBook DEF Used
  <2> QED
    BY <1>0, <1>4, <2>1, NotedKept, SinceKept, ApartKept DEF SpacedInv
<1>5. ASSUME NEW i \in Ids, DeleteEntry(i)
      PROVE  SpacedInv'
  <2>1. UNCHANGED <<entry, lastPost, noted, post>> /\ live' \subseteq live
    BY <1>5 DEF DeleteEntry
  <2>2. BookGrows /\ Used' = Used
    BY <2>1 DEF BookGrows, Used
  <2> QED
    BY <1>0, <2>1, <2>2, NotedKept, SinceKept, ApartKept DEF SpacedInv
<1>6. CASE Restart
  <2>1. /\ UNCHANGED <<entry, live>> /\ \A h \in Handlers : post'[h] = NoPost
        /\ \A d \in Devices : noted'[d] = {}
    BY <1>6 DEF Restart
  <2>2. BookGrows /\ Used' = Used
    BY <2>1, SameBook DEF Used
  <2>3. (\A d \in Devices : NotedOK(d)') /\ (\A h \in Handlers : SinceOK(h)')
    BY <2>1, NoPostIsPost DEF NotedOK, SinceOK
  <2> QED
    BY <1>0, <2>2, <2>3, ApartKept DEF SpacedInv
<1>7. ASSUME NEW s \in Screens,
             \/ SelectPage(s) \/ PageArrives(s) \/ LoadFails(s)
             \/ RetryLoad(s) \/ LoadMore(s)
      PROVE  UNCHANGED <<entry, live, lastPost, noted, post>>
  BY <1>7 DEF SelectPage, PageArrives, LoadFails, RetryLoad, LoadMore
<1>8. TimePasses \/ UNCHANGED vars => UNCHANGED <<entry, live, lastPost, noted, post>>
  BY DEF TimePasses, vars
<1> QED
  BY <1>1, <1>2, <1>3, <1>4, <1>5, <1>6, <1>7, <1>8 DEF Next

\* D-19, GB-404: _last_post_at, written after the COMMIT with the reading of the
\* clock from before it, keeps every post a window away from all those the limit
\* had been told of when it arrived, however the posts of the device overlap.
THEOREM NotedPostsKeepDistance == Spec => []NotedPostsCount
<1>1. SpacedInv => NotedPostsCount
  <2> SUFFICES ASSUME SpacedInv, NEW i \in Used, NEW j \in entry[i].since
               PROVE  entry[i].read >= entry[j].read + Window
    BY DEF NotedPostsCount
  <2>1. j \in Used /\ entry[j].read + Window <= entry[i].read
    BY DEF SpacedInv, ApartOK
  <2>2. entry[i].read \in Nat /\ entry[j].read \in Nat /\ Window \in Nat
    BY <2>1, GuestbookAssumption DEF SpacedInv, GuestInv, TypeOK, Used, Entry, Times
  <2> QED
    BY <2>1, <2>2
<1>2. Init => SpacedInv
  BY SpacedInvInit
<1>3. SpacedInv /\ [Next]_vars => SpacedInv'
  BY SpacedInvNext
<1> QED
  BY <1>1, <1>2, <1>3, PTL DEF Spec

=============================================================================
