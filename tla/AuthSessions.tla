---------------------------- MODULE AuthSessions ----------------------------
(***************************************************************************)
(* The sessions of one account: login, refresh-token rotation with         *)
(* reuse-detection, logout, password reset and account deletion, as        *)
(* concurrent transactions of PostgreSQL at READ COMMITTED, the isolation  *)
(* the engine is created with.  An UPDATE sees the rows that were          *)
(* committed when the statement began, waits for the transactions that     *)
(* have updated one of them, and looks at its condition again.  Nothing    *)
(* can happen between a bulk UPDATE of refresh_tokens and the commit after *)
(* it but waiting, so they are one step.                                   *)
(* Clients present any token that was ever set as a cookie: a response may *)
(* be lost, and tabs share one cookie.  Access tokens (15 minutes), the    *)
(* expiry of rows, password checks that fail and rate limits are left out. *)
(***************************************************************************)
EXTENDS FiniteSets, Naturals

CONSTANTS Tokens,    \* rows refresh_tokens may come to hold
          Links,     \* rows password_reset_tokens may come to hold
          Requests,  \* HTTP requests that may be in flight together
          None       \* no token

ASSUME AuthAssumption == None \notin Tokens

VARIABLES
    family,   \* family_id of each committed row (the token it began with)
    used,     \* rows with used = true
    revoked,  \* rows with revoked = true
    deleted,  \* the account has a deleted_at
    issued,   \* committed reset tokens
    spent,    \* reset tokens with a used_at
    kind,     \* what each request is doing
    stage,    \* how far its handler and its transaction are
    arg,      \* the refresh token or reset token it presents
    found,    \* the refresh tokens its bulk UPDATE saw
    spend,    \* the reset tokens its bulk UPDATE saw
    from,     \* history: the token each row was exchanged for
    late      \* history: rows committed after the account was deleted

rows == <<family, used, revoked, from, late>>
account == <<deleted, issued, spent>>
vars == <<family, used, revoked, deleted, issued, spent, kind, stage, arg, found, spend,
          from, late>>

Init == /\ family = [t \in Tokens |-> None]
        /\ used = {} /\ revoked = {}
        /\ deleted = FALSE
        /\ issued = {} /\ spent = {}
        /\ kind = [r \in Requests |-> "none"]
        /\ stage = [r \in Requests |-> "idle"]
        /\ arg = [r \in Requests |-> None]
        /\ found = [r \in Requests |-> {}]
        /\ spend = [r \in Requests |-> {}]
        /\ from = [t \in Tokens |-> None]
        /\ late = {}

Minted == {t \in Tokens : family[t] # None}
FamilyOf(t) == {u \in Minted : family[u] = family[t]}

(* Rows locked by a transaction that has updated them. *)
HoldsToken(q, t) == stage[q] \in {"claimed", "checked"} /\ arg[q] = t
HoldsUser(q) == stage[q] \in {"user", "locked", "writing"} /\ kind[q] \in {"reset", "delete"}
HoldsLink(q, l) == /\ kind[q] = "reset" /\ stage[q] \in {"link", "user", "locked", "writing"}
                   /\ l \in spend[q] \cup {arg[q]}

(* The resets that wait for the user row of r while r waits for their link. *)
Deadlocked(r, q) == /\ kind[r] = "reset" /\ stage[r] = "user"
                    /\ kind[q] = "reset" /\ stage[q] = "link"
                    /\ \E l \in issued \ spent : q # r /\ HoldsLink(q, l)

-----------------------------------------------------------------------------
(* The beginning and the end of a request. *)

Begin(r, k, s, x) ==
    /\ stage[r] = "idle"
    /\ kind' = [kind EXCEPT ![r] = k]
    /\ stage' = [stage EXCEPT ![r] = s]
    /\ arg' = [arg EXCEPT ![r] = x]
    /\ UNCHANGED <<rows, account, found, spend>>

End(r) ==
    /\ kind' = [kind EXCEPT ![r] = "none"]
    /\ stage' = [stage EXCEPT ![r] = "idle"]
    /\ arg' = [arg EXCEPT ![r] = None]
    /\ found' = [found EXCEPT ![r] = {}]
    /\ spend' = [spend EXCEPT ![r] = {}]

GoTo(r, s) == /\ stage' = [stage EXCEPT ![r] = s]
              /\ UNCHANGED <<kind, arg>>

(* A token nobody has: which one makes no difference. *)
Fresh(S) == CHOOSE x \in S : TRUE
NewToken == Fresh(Tokens \ Minted)

(* _issue_session: a token is generated and its row committed with the rest  *)
(* of the transaction; a login begins a family.                              *)
Mint(f, x) ==
    /\ Tokens \ Minted # {}
    /\ family' = [family EXCEPT ![NewToken] = f]
    /\ from' = [from EXCEPT ![NewToken] = x]
    /\ late' = IF deleted THEN late \cup {NewToken} ELSE late

-----------------------------------------------------------------------------
(* The first statements of the handlers.  The bounds: there is a token for    *)
(* every request in flight that may commit one.                              *)

InFlight(k) == {r \in Requests : kind[r] \in k}
TokensLeft == Cardinality(InFlight({"login", "refresh"})) < Cardinality(Tokens \ Minted)
LinksLeft == Cardinality(InFlight({"forgot"})) < Cardinality(Links \ issued)

(* login: the user row is read and the password verified. *)
Login(r) == ~deleted /\ TokensLeft /\ Begin(r, "login", "read", None)

(* refresh: the presented row is read (it has not expired). *)
Refresh(r) == TokensLeft /\ \E t \in Minted : Begin(r, "refresh", "read", t)

(* logout: the presented row is read. *)
Logout(r) == \E t \in Minted : Begin(r, "logout", "revoke", t)

(* request_password_reset: the user row is read. *)
Forgot(r) == ~deleted /\ LinksLeft /\ Begin(r, "forgot", "read", None)

(* reset_password: the presented row and the user row are read. *)
Reset(r) == \E l \in issued \ spent : ~deleted /\ Begin(r, "reset", "read", l)

(* delete_account: get_current_user accepts the access token of some session. *)
Delete(r) == /\ ~deleted /\ Minted # {}
             /\ Begin(r, "delete", "read", None)

-----------------------------------------------------------------------------
(* Rotation. *)

LoginCommit(r) ==
    /\ kind[r] = "login" /\ stage[r] = "read"
    /\ Mint(NewToken, None)
    /\ End(r)
    /\ UNCHANGED <<used, revoked, account>>

(* Mutant: the state of the row is checked when it is read, not by the UPDATE. *)
ClaimWithoutCondition(r) ==
    /\ kind[r] = "refresh" /\ stage[r] = "read"
    /\ \A q \in Requests : ~HoldsToken(q, arg[r])
    /\ GoTo(r, "claimed")
    /\ UNCHANGED <<rows, account, found, spend>>

(* Mutant: the UPDATE has no condition on revoked. *)
ClaimIgnoresRevoked(r) ==
    /\ kind[r] = "refresh" /\ stage[r] = "read"
    /\ \A q \in Requests : ~HoldsToken(q, arg[r])
    /\ GoTo(r, IF arg[r] \in used THEN "revoke" ELSE "claimed")
    /\ UNCHANGED <<rows, account, found, spend>>

(* Mutant: a request that lost the race for the row tries again. *)
ClaimRetries(r) ==
    /\ kind[r] = "refresh" /\ stage[r] = "read"
    /\ \A q \in Requests : ~HoldsToken(q, arg[r])
    /\ GoTo(r, IF arg[r] \in used \cup revoked THEN "read" ELSE "claimed")
    /\ UNCHANGED <<rows, account, found, spend>>

(* The conditional UPDATE (used False -> True): it waits for another claim of *)
(* the row; no row found means reuse.                                         *)
Claim(r) ==
    /\ kind[r] = "refresh" /\ stage[r] = "read"
    /\ \A q \in Requests : ~HoldsToken(q, arg[r])
    /\ GoTo(r, IF arg[r] \in used \cup revoked THEN "revoke" ELSE "claimed")
    /\ UNCHANGED <<rows, account, found, spend>>

(* Mutant: the account is not looked at before the session is extended. *)
CheckNoUser(r) ==
    /\ stage[r] = "claimed"
    /\ GoTo(r, "checked") /\ UNCHANGED <<found, spend>>
    /\ UNCHANGED <<rows, account>>

(* The user row is read; the rollback of an AuthError undoes the claim. *)
CheckUser(r) ==
    /\ stage[r] = "claimed"
    /\ IF deleted THEN End(r) ELSE GoTo(r, "checked") /\ UNCHANGED <<found, spend>>
    /\ UNCHANGED <<rows, account>>

(* Mutant: the claim is rolled back before the new row is committed. *)
RefreshCommitUnclaimed(r) ==
    /\ stage[r] = "checked"
    /\ Mint(family[arg[r]], arg[r])
    /\ End(r)
    /\ UNCHANGED <<used, revoked, account>>

(* Mutant: the successor begins a family of its own. *)
RefreshCommitNewFamily(r) ==
    /\ stage[r] = "checked"
    /\ used' = used \cup {arg[r]}
    /\ Mint(NewToken, arg[r])
    /\ End(r)
    /\ UNCHANGED <<revoked, account>>

RefreshCommit(r) ==
    /\ stage[r] = "checked"
    /\ used' = used \cup {arg[r]}
    /\ Mint(family[arg[r]], arg[r])
    /\ End(r)
    /\ UNCHANGED <<revoked, account>>

-----------------------------------------------------------------------------
(* Password reset and deletion write the user row first. *)

ForgotCommit(r) ==
    /\ kind[r] = "forgot" /\ stage[r] = "read"
    /\ Links \ issued # {}
    /\ issued' = issued \cup {Fresh(Links \ issued)}
    /\ End(r)
    /\ UNCHANGED <<rows, deleted, spent>>

(* A flush writes the reset token before the user: the unit of work sorts by *)
(* class when no relationship orders them.                                   *)
WriteLink(r) ==
    /\ kind[r] = "reset" /\ stage[r] = "read"
    /\ \A q \in Requests : ~HoldsLink(q, arg[r])
    /\ GoTo(r, "link")
    /\ UNCHANGED <<rows, account, found, spend>>

WriteUser(r) ==
    /\ \/ kind[r] = "reset" /\ stage[r] = "link"
       \/ kind[r] = "delete" /\ stage[r] = "read"
    /\ \A q \in Requests : ~HoldsUser(q)
    /\ GoTo(r, IF kind[r] = "reset" THEN "user" ELSE "locked")
    /\ UNCHANGED <<rows, account, found, spend>>

(* The UPDATE of the other outstanding reset tokens has waited for theirs. *)
SpendLinks(r) ==
    /\ kind[r] = "reset" /\ stage[r] = "user"
    /\ \A q \in Requests \ {r} : \A l \in issued \ spent : ~HoldsLink(q, l)
    /\ GoTo(r, "locked")
    /\ spend' = [spend EXCEPT ![r] = issued \ spent]
    /\ UNCHANGED <<rows, account, found>>

(* PostgreSQL finds a cycle of waiting transactions and aborts one of them. *)
BreakDeadlock(r) ==
    /\ \E q \in Requests : Deadlocked(r, q) \/ Deadlocked(q, r)
    /\ End(r)
    /\ UNCHANGED <<rows, account>>

-----------------------------------------------------------------------------
(* Revocation: of a family on logout or reuse, of every row of the user on   *)
(* password reset and deletion.                                              *)

Revoking(r) == IF kind[r] \in {"reset", "delete"} THEN Minted ELSE FamilyOf(arg[r])

(* The bulk UPDATE begins. *)
RevokeStart(r) ==
    /\ stage[r] \in {"revoke", "locked"}
    /\ stage' = [stage EXCEPT ![r] = "writing"]
    /\ found' = [found EXCEPT ![r] = Revoking(r)]
    /\ UNCHANGED <<rows, account, kind, arg, spend>>

(* It has waited for the claims of the rows it saw, and commits. *)
RevokeCommit(r) ==
    /\ stage[r] = "writing"
    /\ \A q \in Requests : \A t \in found[r] : ~HoldsToken(q, t)
    /\ revoked' = revoked \cup found[r]
    /\ deleted' = (deleted \/ kind[r] = "delete")
    /\ spent' = IF kind[r] = "reset" THEN spent \cup spend[r] \cup {arg[r]} ELSE spent
    /\ End(r)
    /\ UNCHANGED <<family, used, from, late, issued>>

(* The request's process dies or its connection is lost: rolled back. *)
Abort(r) ==
    /\ stage[r] # "idle"
    /\ End(r)
    /\ UNCHANGED <<rows, account>>

-----------------------------------------------------------------------------
Serve(r) == \/ LoginCommit(r) \/ Claim(r) \/ CheckUser(r) \/ RefreshCommit(r)
            \/ ForgotCommit(r) \/ WriteLink(r) \/ WriteUser(r) \/ SpendLinks(r)
            \/ BreakDeadlock(r) \/ RevokeStart(r) \/ RevokeCommit(r)

Next == \E r \in Requests :
          \/ Login(r) \/ Refresh(r) \/ Logout(r) \/ Forgot(r) \/ Reset(r) \/ Delete(r)
          \/ Serve(r)
          \/ Abort(r)

Spec == Init /\ [][Next]_vars

(* The event loop runs every handler on, and PostgreSQL grants a row lock to *)
(* its waiters in their order of arrival, so a step that can be taken again  *)
(* and again is taken.                                                       *)
Fairness == \A r \in Requests : SF_vars(Serve(r))

FairSpec == Spec /\ Fairness

-----------------------------------------------------------------------------
(* Properties. *)

TypeOK ==
    /\ family \in [Tokens -> Tokens \cup {None}]
    /\ from \in [Tokens -> Tokens \cup {None}]
    /\ used \in SUBSET Tokens /\ revoked \in SUBSET Tokens
    /\ late \in SUBSET Tokens
    /\ deleted \in BOOLEAN
    /\ issued \in SUBSET Links /\ spent \in SUBSET Links
    /\ kind \in [Requests -> {"none", "login", "refresh", "logout", "forgot", "reset", "delete"}]
    /\ stage \in [Requests -> {"idle", "read", "claimed", "checked", "revoke", "link",
                               "user", "locked", "writing"}]
    /\ arg \in [Requests -> Tokens \cup Links \cup {None}]
    /\ found \in [Requests -> SUBSET Tokens]
    /\ spend \in [Requests -> SUBSET Links]
    /\ \A r \in Requests :
         /\ kind[r] \in {"refresh", "logout"} => arg[r] \in Minted
         /\ kind[r] = "reset" => arg[r] \in Links

Live(t) == t \in Minted /\ t \notin used \cup revoked

(* "Single-use": a refresh token is exchanged for at most one other, however *)
(* many requests present it together and whatever they race with.            *)
SingleExchange ==
    \A t, u \in Tokens : (from[t] # None /\ from[t] = from[u]) => t = u

(* Rotation replaces: a family never has two tokens that could be exchanged, *)
(* also while claims, revocations, resets and aborted requests overlap.      *)
OneLivePerFamily ==
    \A t, u \in Tokens : (Live(t) /\ Live(u) /\ family[t] = family[u]) => t = u

(* A deleted account gets no further than the requests that were in flight:  *)
(* what they may still mint after the deletion is never exchanged again.     *)
DeletedNeverExchanged == \A t \in Tokens : from[t] \notin late

(* Every request that has begun ends, whatever rows it waits for: two resets  *)
(* by different links do wait for each other, and one of them is aborted.    *)
RequestsEnd == \A r \in Requests : stage[r] # "idle" ~> stage[r] = "idle"

(* A claim holds a row that is live, is nobody else's, and if it is about to *)
(* be exchanged was not committed after the deletion.                        *)
ClaimsHold ==
    /\ \A r \in Requests :
         /\ stage[r] \in {"claimed", "checked"} => kind[r] = "refresh" /\ Live(arg[r])
         /\ stage[r] = "checked" => arg[r] \notin late
    /\ \A q, r \in Requests :
         q # r /\ stage[q] \in {"claimed", "checked"} => ~HoldsToken(r, arg[q])

(* What was exchanged is used; families are named after rows that exist.     *)
RowsAgree ==
    \A t \in Tokens :
         /\ family[t] # None => family[t] \in Minted
         /\ from[t] # None => from[t] \in used /\ t \in Minted
         /\ t \in used => t \in Minted
         /\ t \in late => deleted /\ t \in Minted

(* The inductive invariant. *)
AuthInv == TypeOK /\ OneLivePerFamily /\ ClaimsHold /\ RowsAgree

-----------------------------------------------------------------------------
(* What becomes of a token, as the one who holds it finds out. *)
Standing == [t \in Tokens |-> IF t \notin Minted THEN "unborn"
                              ELSE IF t \in late THEN "void"
                              ELSE IF t \in used THEN "exchanged"
                              ELSE IF t \in revoked THEN "revoked" ELSE "live"]

Contract == INSTANCE SessionContract WITH standing <- Standing

(* Whatever the transactions of the handlers do to each other, the sessions  *)
(* of an account are those of its contract (auth.py:163-217, 242-258).       *)
Implements == Contract!Spec

-----------------------------------------------------------------------------
(* What comments of the repository say and a run finds violated. *)

(* auth.py, refresh: "presenting an already-used or revoked token revokes    *)
(* the entire token family"; logout: "Revoke the current refresh-token       *)
(* family"; password_reset.py: a reset "invalidates all existing logins".    *)
(* No token of a family survives a revocation of it.                         *)
RevokedFamilyIsDead ==
    \A t, u \in Minted : (family[t] = family[u] /\ t \in revoked) => ~Live(u)
=============================================================================
