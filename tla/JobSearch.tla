------------------------------ MODULE JobSearch ------------------------------
(***************************************************************************)
(* Searches for jobs by one user: the known jobs are read, each site is    *)
(* scraped by a browser agent in turn, Exa is asked as well, new listings  *)
(* are told from known ones in memory, and all of them are committed at    *)
(* once at the end.  Searches take minutes and the user may run several,   *)
(* or delete jobs, meanwhile.  A job row is its unique key with the search *)
(* that inserted it; First stands for earlier ones.                        *)
(***************************************************************************)
EXTENDS Naturals, FiniteSets, Sequences

CONSTANTS Searches,  \* search requests of this user
          Sites,     \* request.platforms, in order
          Scraped,   \* what a browser agent may bring home: sequences of items
          Semantic,  \* what Exa may find: sequences of items
          Limit,     \* request.limit
          Known,     \* the user's jobs at first: keys
          Doomed,    \* bound: the keys of jobs the user may delete
          First, None

ASSUME JobSearchAssumption ==
    /\ Limit \in Nat /\ First \notin Searches /\ Sites \in Seq({Sites[i] : i \in DOMAIN Sites})
    /\ \A list \in Scraped \cup Semantic : list \in Seq({list[i] : i \in DOMAIN list})

(* An item: its id, a string, or None where the JSON says null, its url, and *)
(* whether JobListing accepts its fields.                                    *)
Item(id, url, valid) == [id |-> id, url |-> url, valid |-> valid]
Blank == ""

VARIABLES
    rows,    \* the jobs table
    stage,   \* how far each search has got
    next,    \* index of the site it asks next, Exa after the others
    known,   \* existing_by_key: the rows it read at the beginning
    batch,   \* listings a site has returned and that are not registered yet
    found,   \* all_jobs: the rows to be shown, new or known
    got,     \* listings it has registered: site, id and url
    answer   \* the items of the response

vars == <<rows, stage, next, known, batch, found, got, answer>>

Row(key, by) == [key |-> key, by |-> by]

(* _listing_to_job: the new row of a listing; salary and skills are data.    *)
NewJob(s, key) == Row(key, s)

Init == /\ rows = {Row(k, First) : k \in Known}
        /\ stage = [s \in Searches |-> "idle"]
        /\ next = [s \in Searches |-> 1]
        /\ known = [s \in Searches |-> {}]
        /\ batch = [s \in Searches |-> << >>]
        /\ found = [s \in Searches |-> << >>]
        /\ got = [s \in Searches |-> {}]
        /\ answer = [s \in Searches |-> << >>]

GoTo(s, x) == stage' = [stage EXCEPT ![s] = x]

-----------------------------------------------------------------------------
(* From what an agent or Exa returns to listings. *)

(* BrowserAgent.run, without output_model, returns the history of the agent. *)
(* Its final result may be an array, an object with an array in it, or text  *)
(* nothing can be made of.                                                   *)
Histories == [form : {"list", "array", "object", "text"}, items : Scraped]

CoerceAgentList(raw) == IF raw.form \in {"list", "array", "object"} THEN raw.items ELSE << >>

(* One item that JobListing does not accept fails the whole site.            *)
Parses(items) == \A i \in DOMAIN items : items[i].valid

(* JobPlatform.search is the same code for each site: an agent is sent to    *)
(* the results page, and what it returns is parsed; anything raised on the   *)
(* way is a SearchError (SiteFails).                                         *)
SiteResults == {items \in {CoerceAgentList(h) : h \in Histories} : Parses(items)}

(* str(item.get("id", "")): null becomes a word. *)
SiteId(item) == IF item.id = None THEN "None" ELSE item.id

(* ExaJobSearch.search_jobs: without a key or package, or when anything is   *)
(* raised, an empty list.                                                    *)
ExaResults == Semantic \cup {<< >>}

(* _parse_results: r.id or url.                                              *)
ExaId(item) == IF item.id \in {None, Blank} THEN item.url ELSE item.id

(* JobListing of each item. *)
SiteListings(site, items) == [i \in DOMAIN items |-> [site |-> site, id |-> SiteId(items[i]), url |-> items[i].url]]
ExaListings(items) == [i \in DOMAIN items |-> [site |-> "exa", id |-> ExaId(items[i]), url |-> items[i].url]]

NoIdentity == [of |-> "none", is |-> Blank]

(* Mutant: listings without an id share one. *)
IdOnly(id, url) == IF id # Blank THEN [of |-> "id", is |-> id] ELSE [of |-> "url", is |-> Blank]

(* _job_identity: the id, or a hash of the url, which looks like no id.      *)
JobIdentity(id, url) == IF id # Blank THEN [of |-> "id", is |-> id]
                        ELSE IF url # Blank THEN [of |-> "url", is |-> url] ELSE NoIdentity

Key(l) == <<l.site, JobIdentity(l.id, l.url)>>

-----------------------------------------------------------------------------
(* A search. *)

(* The sites in order, then Exa, then the commit. *)
Onward(n) == IF n <= Len(Sites) THEN "scrape" ELSE IF n = Len(Sites) + 1 THEN "exa" ELSE "commit"

NextSite(s) == next' = [next EXCEPT ![s] = @ + 1]

(* search_jobs reads the user's jobs, then goes to the sites one by one.     *)
Begin(s) == /\ stage[s] = "idle" /\ GoTo(s, IF Sites = << >> THEN "done" ELSE "scrape")
            /\ known' = [known EXCEPT ![s] = rows]
            /\ UNCHANGED <<rows, next, batch, found, got, answer>>

(* The agent comes back and what it brings can be parsed.                    *)
SiteAnswers(s) ==
    /\ stage[s] = "scrape" /\ GoTo(s, "register") /\ NextSite(s)
    /\ \E items \in SiteResults : batch' = [batch EXCEPT ![s] = SiteListings(Sites[next[s]], items)]
    /\ UNCHANGED <<rows, known, found, got, answer>>

(* The site is not registered, its agent fails, or the items do not parse:   *)
(* logged and skipped.                                                       *)
SiteFails(s) == /\ stage[s] = "scrape" /\ GoTo(s, Onward(next[s] + 1)) /\ NextSite(s)
                /\ UNCHANGED <<rows, known, batch, found, got, answer>>

(* Exa is asked for at most ten listings more.                               *)
AskExa(s) ==
    /\ stage[s] = "exa" /\ GoTo(s, "register") /\ NextSite(s)
    /\ \E items \in ExaResults : batch' = [batch EXCEPT ![s] = ExaListings(items)]
    /\ UNCHANGED <<rows, known, found, got, answer>>

(* Mutant: a listing met before in this search is added again. *)
NeverSeen(s, key) == FALSE

Seen(s, key) == \E i \in DOMAIN found[s] : found[s][i].key = key

(* The row of a listing: that of a known job, or a new one. *)
RowOf(s, key) == IF \E r \in known[s] : r.key = key /\ key[2] # NoIdentity
                 THEN CHOOSE r \in known[s] : r.key = key ELSE NewJob(s, key)

(* _register, for one listing after the other: one without identity is kept  *)
(* as it is; one seen in this search is dropped.                             *)
Register(s) ==
    /\ stage[s] = "register" /\ batch[s] # << >>
    /\ LET l == Head(batch[s])
       IN /\ got' = [got EXCEPT ![s] = @ \cup {l}]
          /\ found' = IF Key(l)[2] # NoIdentity /\ Seen(s, Key(l)) THEN found
                      ELSE [found EXCEPT ![s] = Append(@, RowOf(s, Key(l)))]
    /\ batch' = [batch EXCEPT ![s] = Tail(@)]
    /\ UNCHANGED <<rows, stage, next, known, answer>>

LeaveSite(s) == /\ stage[s] = "register" /\ batch[s] = << >> /\ GoTo(s, Onward(next[s]))
                /\ UNCHANGED <<rows, next, known, batch, found, got, answer>>

Limited(all) == SubSeq(all, 1, IF Len(all) > Limit THEN Limit ELSE Len(all))

Fresh(s) == {i \in DOMAIN found[s] : found[s][i].by = s}

(* uq_job_platform_id: no key twice, among the new rows or with a row there. *)
Unique(s) == \A i \in Fresh(s) : /\ \A j \in Fresh(s) : found[s][i].key = found[s][j].key => i = j
                                 /\ \A r \in rows : r.key # found[s][i].key

(* All new rows are committed ...                                            *)
Commit(s) == /\ stage[s] = "commit" /\ Unique(s)
             /\ rows' = rows \cup {found[s][i] : i \in Fresh(s)}
             /\ GoTo(s, "refresh")
             /\ UNCHANGED <<next, known, batch, found, got, answer>>

(* ... or none, and nothing is shown: found rows of all sites are given up.  *)
CommitFails(s) == /\ stage[s] = "commit" /\ found[s] # << >>
                  /\ GoTo(s, IF Unique(s) THEN "unlucky" ELSE "conflict")
                  /\ found' = [found EXCEPT ![s] = << >>]
                  /\ UNCHANGED <<rows, next, known, batch, got, answer>>

(* Every row is read again for the response ...                              *)
Refresh(s) == /\ stage[s] = "refresh" /\ \A i \in DOMAIN found[s] : found[s][i] \in rows
              /\ answer' = [answer EXCEPT ![s] = Limited(found[s])]
              /\ GoTo(s, "done")
              /\ UNCHANGED <<rows, next, known, batch, found, got>>

(* ... but one was deleted: nothing is shown, though all is committed.       *)
RefreshFails(s) == /\ stage[s] = "refresh" /\ \E i \in DOMAIN found[s] : found[s][i] \notin rows
                   /\ GoTo(s, "gone")
                   /\ found' = [found EXCEPT ![s] = << >>]
                   /\ UNCHANGED <<rows, next, known, batch, got, answer>>

(* delete_job, with the job's applications.                                  *)
DeleteJob(r) == /\ r \in rows /\ r.key \in Doomed /\ rows' = rows \ {r}
                /\ UNCHANGED <<stage, next, known, batch, found, got, answer>>

Step(s) == \/ Begin(s) \/ SiteAnswers(s) \/ SiteFails(s) \/ AskExa(s) \/ Register(s) \/ LeaveSite(s)
           \/ Commit(s) \/ CommitFails(s) \/ Refresh(s) \/ RefreshFails(s)

Next == \/ \E s \in Searches : Step(s)
        \/ \E r \in rows : DeleteJob(r)

Spec == Init /\ [][Next]_vars

-----------------------------------------------------------------------------
(* Listings told apart by id, or by url where they have no id, stay apart:   *)
(* however many a search was given, it has as many rows to show, whether     *)
(* they are new, known, or met twice, until the rows are committed and       *)
(* after (job_search.py:36-40, :78-80).                                      *)
Named(l) == IF l.id # Blank THEN [l EXCEPT !.url = Blank] ELSE l
DistinctListingsKept ==
    \A s \in Searches : stage[s] \in {"scrape", "register", "exa", "commit", "refresh", "done"} =>
        Cardinality({Named(l) : l \in got[s]}) <= Len(found[s])

(* The unique key is only met by accident: a search whose listings all have  *)
(* an id or a url loses its commit only to a row another search of the user  *)
(* stored since this one began; it never trips over its own listings or over *)
(* rows it has read.                                                         *)
ConflictsAreRaces ==
    \A s \in Searches : stage[s] = "commit" /\ (\A l \in got[s] : l.id # Blank \/ l.url # Blank)
        => Unique(s) \/ \E r \in rows \ known[s] : r.by \notin {s, First}
=============================================================================
