--------------------------- MODULE JobSearchProofs ---------------------------
(***************************************************************************)
(* Proofs about JobSearch for any searches, sites, listings and known      *)
(* jobs: a search loses no listing it can tell apart, and meets the unique *)
(* key only through a row another search has stored.                       *)
(***************************************************************************)
EXTENDS JobSearch, FiniteSetTheorems, TLAPS

-----------------------------------------------------------------------------
(* What the variables hold. *)

Platforms == {Sites[n] : n \in DOMAIN Sites} \cup {"exa"}
Items == UNION {{items[i] : i \in DOMAIN items} : items \in Scraped \cup Semantic}
Listings == [site : Platforms, id : {SiteId(x) : x \in Items} \cup {ExaId(x) : x \in Items},
             url : {x.url : x \in Items}]
Rows == [key : {Key(l) : l \in Listings} \cup Known, by : Searches \cup {First}]

Searching == {"idle", "scrape", "register", "exa", "commit"}
GivenUp == {"unlucky", "conflict", "gone"}

TypeOK ==
    /\ rows \subseteq Rows
    /\ stage \in [Searches -> Searching \cup GivenUp \cup {"refresh", "done"}]
    /\ next \in [Searches -> Nat \ {0}]
    /\ known \in [Searches -> SUBSET Rows]
    /\ batch \in [Searches -> Seq(Listings)]
    /\ found \in [Searches -> Seq(Rows)]
    /\ got \in [Searches -> SUBSET Listings]
    /\ \A s \in Searches : /\ stage[s] = "idle" => next[s] = 1
                           /\ stage[s] = "scrape" => next[s] <= Len(Sites)

(* What an agent or Exa brings is a list of items. *)
LEMMA AnswersAreLists ==
    ASSUME NEW items \in Scraped \cup Semantic \cup {<< >>}
    PROVE  /\ DOMAIN items = 1..Len(items) /\ Len(items) \in Nat
           /\ \A i \in DOMAIN items : items[i] \in Items
<1>1. CASE items = << >>
  BY <1>1
<1>2. CASE items \in Scraped \cup Semantic
  <2>1. items \in Seq({items[i] : i \in DOMAIN items})
    BY <1>2, JobSearchAssumption
  <2> QED BY <1>2, <2>1 DEF Items
<1> QED BY <1>1, <1>2

LEMMA ListingsOfAnswers ==
    /\ \A items \in SiteResults, n \in DOMAIN Sites : SiteListings(Sites[n], items) \in Seq(Listings)
    /\ \A items \in ExaResults : ExaListings(items) \in Seq(Listings)
<1>1. ASSUME NEW items \in SiteResults, NEW n \in DOMAIN Sites
      PROVE  SiteListings(Sites[n], items) \in Seq(Listings)
  <2>1. items \in Scraped \/ items = << >>
    BY DEF SiteResults, CoerceAgentList, Histories
  <2>2. \A i \in 1..Len(items) : [site |-> Sites[n], id |-> SiteId(items[i]), url |-> items[i].url] \in Listings
    BY <2>1, AnswersAreLists DEF Listings, Platforms
  <2> QED BY <2>1, <2>2, AnswersAreLists DEF SiteListings
<1>2. ASSUME NEW items \in ExaResults
      PROVE  ExaListings(items) \in Seq(Listings)
  <2>1. items \in Semantic \/ items = << >>
    BY DEF ExaResults
  <2>2. \A i \in 1..Len(items) : [site |-> "exa", id |-> ExaId(items[i]), url |-> items[i].url] \in Listings
    BY <2>1, AnswersAreLists DEF Listings, Platforms
  <2> QED BY <2>1, <2>2, AnswersAreLists DEF ExaListings
<1> QED BY <1>1, <1>2

LEMMA TypeInit == Init => TypeOK
BY DEF Init, TypeOK, Rows, Row, Searching

LEMMA RowOfFacts ==
    ASSUME NEW s \in Searches, NEW key, known[s] \subseteq Rows, key \in {Key(l) : l \in Listings}
    PROVE  /\ RowOf(s, key) \in Rows
           /\ RowOf(s, key).key = key
           /\ \/ RowOf(s, key) \in known[s] /\ key[2] # NoIdentity
              \/ /\ RowOf(s, key).by = s
                 /\ key[2] = NoIdentity \/ \A r \in known[s] : r.key # key
BY DEF RowOf, NewJob, Row, Rows

LEMMA SitesAreAList == Len(Sites) \in Nat /\ DOMAIN Sites = 1..Len(Sites)
BY JobSearchAssumption

LEMMA TypeStep == TypeOK /\ [Next]_vars => TypeOK'
<1> SUFFICES ASSUME TypeOK, [Next]_vars PROVE TypeOK'
  OBVIOUS
<1> USE DEF Searching, GivenUp
<1>0. \A n \in Nat : /\ Onward(n) \in {"scrape", "exa", "commit"}
                     /\ Onward(n) = "scrape" => n <= Len(Sites)
  BY DEF Onward
<1>1. ASSUME NEW s \in Searches, Begin(s) PROVE TypeOK'
  <2>1. Sites # << >> => 1 <= Len(Sites)
    BY JobSearchAssumption
  <2> QED BY <1>1, <2>1 DEF Begin, GoTo, TypeOK
<1>2. ASSUME NEW s \in Searches, SiteAnswers(s) PROVE TypeOK'
  <2>1. next[s] \in DOMAIN Sites
    BY <1>2, SitesAreAList DEF SiteAnswers, TypeOK
  <2>2. batch' \in [Searches -> Seq(Listings)]
    BY <1>2, <2>1, ListingsOfAnswers DEF SiteAnswers, TypeOK
  <2> QED BY <1>2, <2>2 DEF SiteAnswers, NextSite, GoTo, TypeOK
<1>3. ASSUME NEW s \in Searches, SiteFails(s) PROVE TypeOK'
  <2>1. next[s] + 1 \in Nat \ {0} /\ stage[s] = "scrape"
    BY <1>3 DEF SiteFails, TypeOK
  <2>2. /\ stage' = [stage EXCEPT ![s] = Onward(next[s] + 1)] /\ next' = [next EXCEPT ![s] = next[s] + 1]
        /\ UNCHANGED <<rows, known, batch, found, got>>
    BY <1>3 DEF SiteFails, NextSite, GoTo
  <2>3. /\ Onward(next[s] + 1) \in {"scrape", "exa", "commit"}
        /\ Onward(next[s] + 1) = "scrape" => next[s] + 1 <= Len(Sites)
    BY <1>0, <2>1
  <2> QED BY <2>1, <2>2, <2>3 DEF TypeOK
<1>4. ASSUME NEW s \in Searches, AskExa(s) PROVE TypeOK'
  <2>1. batch' \in [Searches -> Seq(Listings)]
    BY <1>4, ListingsOfAnswers DEF AskExa, TypeOK
  <2> QED BY <1>4, <2>1 DEF AskExa, NextSite, GoTo, TypeOK
<1>5. ASSUME NEW s \in Searches, Register(s) PROVE TypeOK'
  <2> DEFINE l == Head(batch[s])
  <2>1. l \in Listings /\ Tail(batch[s]) \in Seq(Listings)
    BY <1>5 DEF Register, TypeOK
  <2>2. RowOf(s, Key(l)) \in Rows
    BY <2>1, RowOfFacts DEF TypeOK
  <2>3. /\ got' = [got EXCEPT ![s] = @ \cup {l}] /\ batch' = [batch EXCEPT ![s] = Tail(@)]
        /\ found' = found \/ found' = [found EXCEPT ![s] = Append(@, RowOf(s, Key(l)))]
        /\ UNCHANGED <<rows, stage, next, known>>
    BY <1>5 DEF Register
  <2> HIDE DEF l
  <2>4. found' \in [Searches -> Seq(Rows)]
    <3>1. Append(found[s], RowOf(s, Key(l))) \in Seq(Rows)
      BY <2>2 DEF TypeOK
    <3> QED BY <2>3, <3>1 DEF TypeOK
  <2>5. got' \in [Searches -> SUBSET Listings] /\ batch' \in [Searches -> Seq(Listings)]
    BY <2>1, <2>3 DEF TypeOK
  <2> QED BY <2>3, <2>4, <2>5 DEF TypeOK
<1>6. ASSUME NEW s \in Searches, LeaveSite(s) PROVE TypeOK'
  BY <1>0, <1>6 DEF LeaveSite, GoTo, TypeOK
<1>7. ASSUME NEW s \in Searches, Commit(s) PROVE TypeOK'
  <2>1. \A i \in Fresh(s) : found[s][i] \in Rows
    BY DEF Fresh, TypeOK
  <2> QED BY <1>7, <2>1 DEF Commit, GoTo, TypeOK
<1>8. ASSUME NEW s \in Searches, CommitFails(s) \/ Refresh(s) \/ RefreshFails(s) PROVE TypeOK'
  <2>1. CASE CommitFails(s)
    BY <2>1 DEF CommitFails, GoTo, TypeOK
  <2>2. CASE Refresh(s)
    BY <2>2 DEF Refresh, GoTo, TypeOK
  <2>3. CASE RefreshFails(s)
    BY <2>3 DEF RefreshFails, GoTo, TypeOK
  <2> QED BY <1>8, <2>1, <2>2, <2>3
<1>9. ASSUME NEW r \in rows, DeleteJob(r) PROVE TypeOK'
  BY <1>9 DEF DeleteJob, TypeOK
<1>10. CASE UNCHANGED vars
  BY <1>10 DEF vars, TypeOK
<1> QED BY <1>1, <1>2, <1>3, <1>4, <1>5, <1>6, <1>7, <1>8, <1>9, <1>10 DEF Next, Step

-----------------------------------------------------------------------------
(* Rows and keys. *)

Nameless(key) == key[2] = NoIdentity

(* What a search has read: all earlier jobs that are still there, and        *)
(* nothing of its own, of which there is nothing before its commit.          *)
ReadInv(s) ==
    /\ stage[s] = "idle" => found[s] = << >> /\ got[s] = {}
    /\ stage[s] # "idle" => \A r \in rows : r.by = First => r \in known[s]
    /\ stage[s] \in Searching => \A r \in rows : r.by # s
    /\ \A r \in known[s] : r.by # s

(* What it has found: no key twice, a row of its own only for a key it did   *)
(* not know, no key without identity but of a listing with neither id nor    *)
(* url, and the key of every listing it was given.                           *)
FoundInv(s) ==
    /\ \A i, j \in DOMAIN found[s] :
         found[s][i].key = found[s][j].key => i = j \/ Nameless(found[s][i].key)
    /\ \A i \in DOMAIN found[s] :
         /\ found[s][i].by = s => \/ Nameless(found[s][i].key)
                                  \/ \A r \in known[s] : r.key # found[s][i].key
         /\ Nameless(found[s][i].key) => \E l \in got[s] : l.id = Blank /\ l.url = Blank
    /\ stage[s] \notin GivenUp =>
         \A l \in got[s] : \E i \in DOMAIN found[s] : found[s][i].key = Key(l)

SearchInv == \A s \in Searches : ReadInv(s) /\ FoundInv(s)

LEMMA SearchInit == Init => SearchInv
BY JobSearchAssumption DEF Init, SearchInv, ReadInv, FoundInv, Searching, Row

LEMMA NamelessListings ==
    ASSUME NEW l \in Listings
    PROVE  Nameless(Key(l)) <=> l.id = Blank /\ l.url = Blank
BY DEF Nameless, Key, JobIdentity, NoIdentity

(* One listing more. *)
LEMMA RegisterStep ==
    ASSUME TypeOK, SearchInv, NEW s \in Searches, Register(s)
    PROVE  FoundInv(s)'
<1> DEFINE l == Head(batch[s])
           key == Key(l)
           row == RowOf(s, key)
<1>1. /\ l \in Listings /\ stage' = stage /\ known' = known
      /\ found[s] \in Seq(Rows) /\ found \in [Searches -> Seq(Rows)] /\ got \in [Searches -> SUBSET Listings]
  BY DEF Register, TypeOK
<1>2. /\ got'[s] = got[s] \cup {l}
      /\ found'[s] = IF ~ Nameless(key) /\ Seen(s, key) THEN found[s] ELSE Append(found[s], row)
  BY <1>1 DEF Register, Nameless
<1>3. /\ row.key = key
      /\ row.by = s => Nameless(key) \/ \A r \in known[s] : r.key # key
  <2>1. key \in {Key(m) : m \in Listings} /\ known[s] \subseteq Rows
    BY <1>1 DEF TypeOK
  <2>2. \A r \in known[s] : r.by # s
    BY DEF SearchInv, ReadInv
  <2> HIDE DEF key
  <2> QED BY <2>1, <2>2, RowOfFacts DEF Nameless
<1>4. Nameless(key) <=> l.id = Blank /\ l.url = Blank
  BY <1>1, NamelessListings
<1>5. /\ FoundInv(s)
      /\ \A i, j \in DOMAIN found[s] :
           found[s][i].key = found[s][j].key => i = j \/ Nameless(found[s][i].key)
      /\ stage[s] \notin GivenUp =>
           \A m \in got[s] : \E i \in DOMAIN found[s] : found[s][i].key = Key(m)
  BY DEF SearchInv, FoundInv
<1> HIDE DEF key, row, l
<1>6. CASE ~ Nameless(key) /\ Seen(s, key)
  <2>1. found'[s] = found[s] /\ \E i \in DOMAIN found[s] : found[s][i].key = key
    BY <1>2, <1>6 DEF Seen
  <2> QED BY <1>1, <1>2, <1>5, <2>1 DEF FoundInv, key
<1>7. CASE Nameless(key) \/ ~ Seen(s, key)
  <2> DEFINE n == Len(found[s]) + 1
  <2>1. /\ DOMAIN found[s] = 1..(n - 1) /\ DOMAIN found'[s] = 1..n /\ n \in Nat \ {0}
        /\ \A i \in 1..(n - 1) : found'[s][i] = found[s][i]
        /\ found'[s][n] = row
    BY <1>1, <1>2, <1>7
  <2> HIDE DEF n
  <2>2. Nameless(key) \/ \A i \in 1..(n - 1) : found[s][i].key # key
    BY <1>7, <2>1 DEF Seen
  <2>3. \A i, j \in 1..n : found'[s][i].key = found'[s][j].key => i = j \/ Nameless(found'[s][i].key)
    <3> SUFFICES ASSUME NEW i \in 1..n, NEW j \in 1..n, found'[s][i].key = found'[s][j].key, i # j
                 PROVE  Nameless(found'[s][i].key)
      OBVIOUS
    <3>1. CASE i \in 1..(n - 1) /\ j \in 1..(n - 1)
      BY <1>5, <2>1, <3>1
    <3>2. CASE i = n \/ j = n
      BY <1>3, <2>1, <2>2, <3>2
    <3> QED BY <2>1, <3>1, <3>2
  <2>4. \A i \in 1..n :
          /\ found'[s][i].by = s => \/ Nameless(found'[s][i].key)
                                    \/ \A r \in known[s] : r.key # found'[s][i].key
          /\ Nameless(found'[s][i].key) => \E m \in got'[s] : m.id = Blank /\ m.url = Blank
    BY <1>2, <1>3, <1>4, <1>5, <2>1 DEF FoundInv
  <2>5. stage'[s] \notin GivenUp => \A m \in got'[s] : \E i \in 1..n : found'[s][i].key = Key(m)
    <3> SUFFICES ASSUME stage[s] \notin GivenUp, NEW m \in got'[s]
                 PROVE  \E i \in 1..n : found'[s][i].key = Key(m)
      BY <1>1
    <3>1. CASE m \in got[s]
      BY <1>5, <2>1, <3>1
    <3>2. CASE m = l
      BY <1>3, <2>1, <3>2 DEF key
    <3> QED BY <1>2, <3>1, <3>2
  <2> QED BY <1>1, <2>1, <2>3, <2>4, <2>5 DEF FoundInv
<1> QED BY <1>6, <1>7

LEMMA SearchStep == TypeOK /\ SearchInv /\ [Next]_vars => SearchInv'
<1> SUFFICES ASSUME TypeOK, SearchInv, [Next]_vars PROVE SearchInv'
  OBVIOUS
<1> USE DEF Searching, GivenUp
<1>0. \A n \in Nat : Onward(n) \in {"scrape", "exa", "commit"}
  BY DEF Onward
<1>1. ASSUME NEW s \in Searches, Begin(s) PROVE SearchInv'
  BY <1>1 DEF Begin, GoTo, TypeOK, SearchInv, ReadInv, FoundInv
<1>2. ASSUME NEW s \in Searches, SiteAnswers(s) \/ SiteFails(s) \/ AskExa(s) \/ LeaveSite(s)
      PROVE  SearchInv'
  <2>1. /\ stage[s] \in {"scrape", "exa", "register"} /\ stage'[s] \in {"register", "scrape", "exa", "commit"}
        /\ \A q \in Searches : q # s => stage'[q] = stage[q]
        /\ UNCHANGED <<rows, known, found, got>>
    BY <1>0, <1>2 DEF SiteAnswers, SiteFails, AskExa, LeaveSite, NextSite, GoTo, TypeOK
  <2> QED BY <2>1 DEF SearchInv, ReadInv, FoundInv
<1>3. ASSUME NEW s \in Searches, Register(s) PROVE SearchInv'
  <2>1. FoundInv(s)'
    BY <1>3, RegisterStep
  <2>2. /\ stage[s] = "register" /\ UNCHANGED <<rows, stage, known>>
        /\ \A q \in Searches : q # s => found'[q] = found[q] /\ got'[q] = got[q]
    BY <1>3 DEF Register, TypeOK
  <2> QED BY <2>1, <2>2 DEF SearchInv, ReadInv, FoundInv
<1>4. ASSUME NEW s \in Searches, Commit(s) PROVE SearchInv'
  <2>1. /\ stage[s] = "commit" /\ stage'[s] = "refresh"
        /\ \A q \in Searches : q # s => stage'[q] = stage[q]
        /\ UNCHANGED <<known, found, got>>
    BY <1>4 DEF Commit, GoTo, TypeOK
  <2>2. \A r \in rows' : r \in rows \/ r.by = s
    BY <1>4 DEF Commit, Fresh
  <2> QED BY <2>1, <2>2, JobSearchAssumption DEF SearchInv, ReadInv, FoundInv
<1>5. ASSUME NEW s \in Searches, CommitFails(s) \/ RefreshFails(s) PROVE SearchInv'
  <2>1. /\ stage'[s] \in GivenUp /\ stage[s] \in {"commit", "refresh"} /\ found'[s] = << >>
        /\ \A q \in Searches : q # s => stage'[q] = stage[q] /\ found'[q] = found[q]
        /\ UNCHANGED <<rows, known, got>>
    BY <1>5 DEF CommitFails, RefreshFails, GoTo, TypeOK
  <2> QED BY <2>1 DEF SearchInv, ReadInv, FoundInv
<1>6. ASSUME NEW s \in Searches, Refresh(s) PROVE SearchInv'
  BY <1>6 DEF Refresh, GoTo, TypeOK, SearchInv, ReadInv, FoundInv
<1>7. ASSUME NEW r \in rows, DeleteJob(r) PROVE SearchInv'
  BY <1>7 DEF DeleteJob, SearchInv, ReadInv, FoundInv
<1>8. CASE UNCHANGED vars
  BY <1>8 DEF vars, SearchInv, ReadInv, FoundInv
<1> QED BY <1>1, <1>2, <1>3, <1>4, <1>5, <1>6, <1>7, <1>8 DEF Next, Step

LEMMA SearchInvariant == Spec => [](TypeOK /\ SearchInv)
BY TypeInit, TypeStep, SearchInit, SearchStep, PTL DEF Spec

(* A search whose listings all have an id or a url loses its commit only to  *)
(* a row another search has stored since it read the user's jobs.            *)
THEOREM OnlyRacesConflict == Spec => []ConflictsAreRaces
<1>1. TypeOK /\ SearchInv => ConflictsAreRaces
  <2> SUFFICES ASSUME TypeOK, SearchInv, NEW s \in Searches, stage[s] = "commit",
                      \A l \in got[s] : l.id # Blank \/ l.url # Blank,
                      ~ Unique(s)
               PROVE  \E r \in rows \ known[s] : r.by \notin {s, First}
    BY DEF ConflictsAreRaces
  <2>1. \A i \in DOMAIN found[s] : ~ Nameless(found[s][i].key)
    BY DEF SearchInv, FoundInv
  <2>2. PICK i \in Fresh(s) : \/ \E j \in Fresh(s) : found[s][i].key = found[s][j].key /\ i # j
                              \/ \E r \in rows : r.key = found[s][i].key
    BY DEF Unique
  <2>3. PICK r \in rows : r.key = found[s][i].key
    BY <2>1, <2>2 DEF Fresh, SearchInv, FoundInv
  <2>4. r \notin known[s]
    BY <2>1, <2>3 DEF Fresh, SearchInv, FoundInv
  <2>5. r.by \notin {s, First}
    BY <2>3, <2>4 DEF SearchInv, ReadInv, Searching
  <2> QED BY <2>3, <2>4, <2>5
<1> QED BY <1>1, SearchInvariant, PTL

(* Listings with a name of their own have a key of their own.                *)
LEMMA KeysTellApart ==
    ASSUME NEW l \in Listings, NEW m \in Listings
    PROVE  Key(l) = Key(m) => Named(l) = Named(m)
BY DEF Key, JobIdentity, NoIdentity, Named, Listings

(* No listing that can be told apart by id or url is lost: a search has as   *)
(* many rows to show as it was given such listings.                          *)
THEOREM NoListingIsLost == Spec => []DistinctListingsKept
<1>1. TypeOK /\ SearchInv => DistinctListingsKept
  <2> SUFFICES ASSUME TypeOK, SearchInv, NEW s \in Searches, stage[s] \notin GivenUp
               PROVE  Cardinality({Named(l) : l \in got[s]}) <= Len(found[s])
    BY DEF DistinctListingsKept, GivenUp
  <2> DEFINE N == {Named(l) : l \in got[s]}
             n == Len(found[s])
             At(x, i) == \E l \in got[s] : Named(l) = x /\ found[s][i].key = Key(l)
             f == [x \in N |-> CHOOSE i \in 1..n : At(x, i)]
  <2>1. n \in Nat /\ DOMAIN found[s] = 1..n /\ got[s] \subseteq Listings
    BY DEF TypeOK
  <2>2. \A x \in N : \E i \in 1..n : At(x, i)
    BY <2>1 DEF SearchInv, FoundInv
  <2>3. \A x \in N : f[x] \in 1..n /\ At(x, f[x])
    BY <2>2
  <2>4. \A x, y \in N, i \in 1..n : At(x, i) /\ At(y, i) => x = y
    BY <2>1, KeysTellApart
  <2>5. f \in Injection(N, 1..n)
    <3> HIDE DEF At
    <3>1. f \in [N -> 1..n]
      BY <2>3
    <3>2. ASSUME NEW x \in N, NEW y \in N, f[x] = f[y] PROVE x = y
      <4>1. f[x] \in 1..n /\ At(x, f[x]) /\ At(y, f[x])
        BY <2>3, <3>2
      <4> QED BY <2>4, <4>1
    <3> QED BY <3>1, <3>2 DEF Injection, IsInjective
  <2>6. IsFiniteSet(1..n) /\ Cardinality(1..n) = n
    BY <2>1, FS_Interval
  <2> HIDE DEF N, n, f
  <2> QED BY <2>5, <2>6, FS_Injection DEF N, n
<1> QED BY <1>1, SearchInvariant, PTL
=============================================================================
