------------------------- MODULE AuthSessionsProofs -------------------------
(***************************************************************************)
(* Proofs about AuthSessions, for any number of tokens, reset links and    *)
(* concurrent requests, under every abort.                                 *)
(***************************************************************************)
EXTENDS AuthSessions, TLAPS

(* A generated token belongs to no row, and is not the absence of one. *)
LEMMA NewTokenIsNew ==
    Tokens \ Minted # {} => /\ NewToken \in Tokens
                            /\ NewToken \notin Minted
                            /\ family[NewToken] = None
                            /\ NewToken # None
BY AuthAssumption DEF NewToken, Fresh, Minted

-----------------------------------------------------------------------------
(* Steps that touch no row and take no claim: a handler begins, waits or     *)
(* ends.  Whatever request they belong to, no request gains a claim.         *)
Quiet ==
    /\ UNCHANGED rows
    /\ deleted' = deleted
    /\ \A q \in Requests :
         stage'[q] \in {"claimed", "checked"} =>
             stage'[q] = stage[q] /\ arg'[q] = arg[q] /\ kind'[q] = kind[q]

LEMMA QuietStep ==
    ASSUME AuthInv, TypeOK', Quiet
    PROVE  AuthInv'
<1>1. OneLivePerFamily'
  BY DEF AuthInv, OneLivePerFamily, Live, Minted, Quiet, rows
<1>2. ClaimsHold'
  <2>1. ASSUME NEW r \in Requests, stage'[r] \in {"claimed", "checked"}
        PROVE  /\ kind'[r] = "refresh" /\ Live(arg[r])' /\ arg'[r] = arg[r]
               /\ stage'[r] = stage[r]
               /\ stage'[r] = "checked" => arg'[r] \notin late'
    BY <2>1 DEF AuthInv, ClaimsHold, Live, Minted, Quiet, rows
  <2>2. ASSUME NEW q \in Requests, NEW r \in Requests, q # r,
               stage'[q] \in {"claimed", "checked"}
        PROVE  ~HoldsToken(r, arg[q])'
    <3>1. stage[q] \in {"claimed", "checked"} /\ arg'[q] = arg[q]
      BY <2>2, <2>1
    <3>2. ~HoldsToken(r, arg[q])
      BY <2>2, <3>1 DEF AuthInv, ClaimsHold
    <3> QED BY <3>1, <3>2, <2>1 DEF HoldsToken
  <2> QED BY <2>1, <2>2 DEF ClaimsHold
<1>3. RowsAgree'
  BY DEF AuthInv, RowsAgree, Minted, Quiet, rows
<1> QED BY <1>1, <1>2, <1>3 DEF AuthInv

(* A request that begins holds nothing yet. *)
LEMMA BeginQuiet ==
    ASSUME TypeOK, NEW r \in Requests, NEW k, NEW s, NEW x,
           Begin(r, k, s, x), s \notin {"claimed", "checked"}
    PROVE  Quiet
BY DEF Begin, Quiet, TypeOK, account

(* A request that ends lets go of what it held. *)
LEMMA EndQuiet ==
    ASSUME TypeOK, NEW r \in Requests, End(r), UNCHANGED <<rows, account>>
    PROVE  Quiet
BY DEF End, Quiet, TypeOK, account

(* A step to a stage without a claim. *)
LEMMA GoToQuiet ==
    ASSUME TypeOK, NEW r \in Requests, NEW s, GoTo(r, s),
           s \notin {"claimed", "checked"}, UNCHANGED <<rows, account>>
    PROVE  Quiet
BY DEF GoTo, Quiet, TypeOK, account

-----------------------------------------------------------------------------
(* The types are preserved: one step per shape of action. *)

LEMMA EndTypes ==
    ASSUME TypeOK, NEW r \in Requests, End(r),
           \A t \in Tokens : family[t] # None => family'[t] # None
    PROVE  /\ kind' \in [Requests -> {"none", "login", "refresh", "logout", "forgot", "reset",
                                      "delete"}]
           /\ stage' \in [Requests -> {"idle", "read", "claimed", "checked", "revoke", "link",
                                       "user", "locked", "writing"}]
           /\ arg' \in [Requests -> Tokens \cup Links \cup {None}]
           /\ found' \in [Requests -> SUBSET Tokens]
           /\ spend' \in [Requests -> SUBSET Links]
           /\ \A q \in Requests :
                /\ kind'[q] \in {"refresh", "logout"} => arg'[q] \in Minted'
                /\ kind'[q] = "reset" => arg'[q] \in Links
BY DEF TypeOK, End, Minted

LEMMA MintTypes ==
    ASSUME AuthInv, NEW f \in Tokens, NEW x \in Tokens \cup {None}, Mint(f, x)
    PROVE  /\ family' \in [Tokens -> Tokens \cup {None}]
           /\ from' \in [Tokens -> Tokens \cup {None}]
           /\ late' \in SUBSET Tokens
           /\ \A t \in Tokens : family[t] # None => family'[t] # None
BY NewTokenIsNew, AuthAssumption DEF AuthInv, TypeOK, Mint

LEMMA BeginTypes ==
    ASSUME TypeOK, NEW r \in Requests,
           NEW k \in {"login", "refresh", "logout", "forgot", "reset", "delete"},
           NEW s \in {"read", "revoke"}, NEW x \in Tokens \cup Links \cup {None},
           Begin(r, k, s, x),
           k \in {"refresh", "logout"} => x \in Minted,
           k = "reset" => x \in Links
    PROVE  TypeOK'
BY DEF TypeOK, Begin, rows, account, Minted

LEMMA GoToTypes ==
    ASSUME TypeOK, NEW r \in Requests,
           NEW s \in {"read", "claimed", "checked", "revoke", "link", "user", "locked", "writing"},
           GoTo(r, s), UNCHANGED <<rows, account>>,
           found' \in [Requests -> SUBSET Tokens], spend' \in [Requests -> SUBSET Links]
    PROVE  TypeOK'
BY DEF TypeOK, GoTo, rows, account, Minted

-----------------------------------------------------------------------------
(* The steps that begin a request, or only move it on. *)

LEMMA BeginStep ==
    ASSUME AuthInv, NEW r \in Requests,
           Login(r) \/ Refresh(r) \/ Logout(r) \/ Forgot(r) \/ Reset(r) \/ Delete(r)
    PROVE  AuthInv'
<1>0. TypeOK /\ Minted \subseteq Tokens /\ issued \subseteq Links
  BY DEF AuthInv, TypeOK, Minted
<1>1. CASE Login(r)
  BY <1>0, <1>1, BeginTypes, BeginQuiet, QuietStep DEF Login
<1>2. CASE Refresh(r)
  BY <1>0, <1>2, BeginTypes, BeginQuiet, QuietStep DEF Refresh
<1>3. CASE Logout(r)
  BY <1>0, <1>3, BeginTypes, BeginQuiet, QuietStep DEF Logout
<1>4. CASE Forgot(r)
  BY <1>0, <1>4, BeginTypes, BeginQuiet, QuietStep DEF Forgot
<1>5. CASE Reset(r)
  BY <1>0, <1>5, BeginTypes, BeginQuiet, QuietStep DEF Reset
<1>6. CASE Delete(r)
  BY <1>0, <1>6, BeginTypes, BeginQuiet, QuietStep DEF Delete
<1> QED BY <1>1, <1>2, <1>3, <1>4, <1>5, <1>6

LEMMA EndStep ==
    ASSUME AuthInv, NEW r \in Requests, End(r), UNCHANGED <<rows, account>>
    PROVE  AuthInv'
<1>1. TypeOK
  BY DEF AuthInv
<1>2. TypeOK'
  BY <1>1, EndTypes DEF TypeOK, rows, account
<1> QED BY <1>1, <1>2, EndQuiet, QuietStep

LEMMA WaitStep ==
    ASSUME AuthInv, NEW r \in Requests,
           WriteLink(r) \/ WriteUser(r) \/ SpendLinks(r) \/ RevokeStart(r)
    PROVE  AuthInv'
<1>0. TypeOK
  BY DEF AuthInv
<1>1. CASE WriteLink(r)
  BY <1>0, <1>1, GoToTypes, GoToQuiet, QuietStep DEF WriteLink, TypeOK
<1>2. CASE WriteUser(r)
  BY <1>0, <1>2, GoToTypes, GoToQuiet, QuietStep DEF WriteUser, TypeOK
<1>3. CASE SpendLinks(r)
  <2>1. spend' \in [Requests -> SUBSET Links] /\ found' = found
    BY <1>0, <1>3 DEF SpendLinks, TypeOK
  <2> QED BY <1>0, <1>3, <2>1, GoToTypes, GoToQuiet, QuietStep DEF SpendLinks, TypeOK
<1>4. CASE RevokeStart(r)
  <2>1. Revoking(r) \subseteq Tokens
    BY DEF Revoking, FamilyOf, Minted
  <2>2. GoTo(r, "writing") /\ UNCHANGED <<rows, account>>
    BY <1>4 DEF RevokeStart, GoTo
  <2>3. found' \in [Requests -> SUBSET Tokens] /\ spend' \in [Requests -> SUBSET Links]
    BY <1>0, <1>4, <2>1 DEF RevokeStart, TypeOK
  <2> QED BY <1>0, <2>2, <2>3, GoToTypes, GoToQuiet, QuietStep
<1> QED BY <1>1, <1>2, <1>3, <1>4

-----------------------------------------------------------------------------
(* The steps of a rotation. *)

(* The conditional UPDATE takes a live row that no other request has claimed. *)
LEMMA ClaimStep ==
    ASSUME AuthInv, NEW r \in Requests, Claim(r)
    PROVE  AuthInv'
<1>0. TypeOK /\ arg[r] \in Minted
  BY DEF AuthInv, TypeOK, Claim
<1>1. CASE arg[r] \in used \cup revoked
  <2>1. GoTo(r, "revoke") /\ UNCHANGED <<rows, account, found, spend>>
    BY <1>1 DEF Claim
  <2> QED BY <1>0, <2>1, GoToTypes, GoToQuiet, QuietStep DEF TypeOK
<1>2. CASE arg[r] \notin used \cup revoked
  <2>1. GoTo(r, "claimed") /\ UNCHANGED <<rows, account, found, spend>>
    BY <1>2 DEF Claim
  <2>2. TypeOK'
    BY <1>0, <2>1, GoToTypes DEF TypeOK
  <2>3. OneLivePerFamily' /\ RowsAgree'
    BY <2>1 DEF AuthInv, OneLivePerFamily, RowsAgree, Live, Minted, rows, account
  <2>4. /\ arg' = arg /\ kind' = kind
        /\ \A q \in Requests : stage'[q] = IF q = r THEN "claimed" ELSE stage[q]
    BY <1>0, <2>1 DEF GoTo, TypeOK
  <2>5. \A q \in Requests :
          /\ stage'[q] \in {"claimed", "checked"} => kind'[q] = "refresh" /\ Live(arg[q])'
          /\ stage'[q] = "checked" => arg'[q] \notin late'
    BY <1>0, <1>2, <2>1, <2>4 DEF AuthInv, ClaimsHold, Live, Minted, Claim, rows
  <2>6. ASSUME NEW p \in Requests, NEW q \in Requests, p # q,
               stage'[p] \in {"claimed", "checked"}
        PROVE  ~HoldsToken(q, arg[p])'
    <3>1. CASE p = r
      BY <2>4, <2>6, <3>1 DEF Claim, HoldsToken
    <3>2. CASE q = r
      <4>1. ~HoldsToken(p, arg[r])
        BY DEF Claim
      <4> QED BY <2>4, <2>6, <3>2, <4>1 DEF HoldsToken
    <3>3. CASE p # r /\ q # r
      BY <2>4, <2>6, <3>3 DEF AuthInv, ClaimsHold, HoldsToken
    <3> QED BY <3>1, <3>2, <3>3
  <2> QED BY <2>2, <2>3, <2>5, <2>6 DEF AuthInv, ClaimsHold
<1> QED BY <1>1, <1>2

(* A request goes on only if the account is there, so nothing is late yet. *)
LEMMA CheckStep ==
    ASSUME AuthInv, NEW r \in Requests, CheckUser(r)
    PROVE  AuthInv'
<1>0. TypeOK
  BY DEF AuthInv
<1>1. CASE deleted
  BY <1>1, EndStep DEF CheckUser
<1>2. CASE ~deleted
  <2>1. GoTo(r, "checked") /\ UNCHANGED <<rows, account, found, spend>> /\ stage[r] = "claimed"
    BY <1>2 DEF CheckUser
  <2>2. TypeOK'
    BY <1>0, <2>1, GoToTypes DEF TypeOK
  <2>3. OneLivePerFamily' /\ RowsAgree'
    BY <2>1 DEF AuthInv, OneLivePerFamily, RowsAgree, Live, Minted, rows, account
  <2>4. /\ arg' = arg /\ kind' = kind
        /\ \A q \in Requests : stage'[q] = IF q = r THEN "checked" ELSE stage[q]
    BY <1>0, <2>1 DEF GoTo, TypeOK
  <2>5. late = {}
    BY <1>0, <1>2 DEF AuthInv, RowsAgree, TypeOK
  <2>6. \A q \in Requests :
          /\ stage'[q] \in {"claimed", "checked"} => kind'[q] = "refresh" /\ Live(arg[q])'
          /\ stage'[q] = "checked" => arg'[q] \notin late'
    BY <2>1, <2>4, <2>5 DEF AuthInv, ClaimsHold, Live, Minted, rows
  <2>7. \A p, q \in Requests :
          p # q /\ stage'[p] \in {"claimed", "checked"} => ~HoldsToken(q, arg[p])'
    BY <2>1, <2>4 DEF AuthInv, ClaimsHold, HoldsToken
  <2> QED BY <2>2, <2>3, <2>6, <2>7 DEF AuthInv, ClaimsHold
<1> QED BY <1>1, <1>2

(* A request that ends leaves the claims of the others as they were. *)
LEMMA EndClaims ==
    ASSUME TypeOK, NEW r \in Requests, End(r), NEW q \in Requests,
           stage'[q] \in {"claimed", "checked"}
    PROVE  q # r /\ stage'[q] = stage[q] /\ arg'[q] = arg[q] /\ kind'[q] = kind[q]
BY DEF TypeOK, End

(* No two of the claims that are left are of one row. *)
LEMMA EndExclusive ==
    ASSUME AuthInv, NEW r \in Requests, End(r)
    PROVE  \A p, q \in Requests :
             p # q /\ stage'[p] \in {"claimed", "checked"} => ~HoldsToken(q, arg[p])'
<1>1. TypeOK
  BY DEF AuthInv
<1> QED BY <1>1, EndClaims DEF AuthInv, ClaimsHold, HoldsToken

(* A login commits the first token of a family of its own. *)
LEMMA LoginStep ==
    ASSUME AuthInv, NEW r \in Requests, LoginCommit(r)
    PROVE  AuthInv'
<1> DEFINE n == NewToken
<1>0. TypeOK
  BY DEF AuthInv
<1>1. /\ n \in Tokens /\ n \notin Minted /\ family[n] = None /\ n # None
      /\ Mint(n, None) /\ End(r) /\ UNCHANGED <<used, revoked, account>>
  BY NewTokenIsNew DEF LoginCommit, Mint
<1>2. /\ \A t \in Tokens : /\ family'[t] = IF t = n THEN n ELSE family[t]
                           /\ from'[t] = IF t = n THEN None ELSE from[t]
      /\ Minted' = Minted \cup {n}
      /\ late' \subseteq late \cup {n} /\ (late' # late => deleted)
  BY <1>0, <1>1 DEF Mint, TypeOK, Minted
<1>3. TypeOK'
  <2> HIDE DEF n
  <2>1. /\ family' \in [Tokens -> Tokens \cup {None}] /\ from' \in [Tokens -> Tokens \cup {None}]
        /\ late' \in SUBSET Tokens /\ \A t \in Tokens : family[t] # None => family'[t] # None
    BY <1>1, MintTypes
  <2> QED BY <1>0, <1>1, <2>1, EndTypes DEF TypeOK, account
<1> HIDE DEF n
<1>4. OneLivePerFamily'
  BY <1>1, <1>2 DEF AuthInv, OneLivePerFamily, Live, RowsAgree, Minted
<1>5. \A q \in Requests :
        /\ stage'[q] \in {"claimed", "checked"} => kind'[q] = "refresh" /\ Live(arg[q])'
        /\ stage'[q] = "checked" => arg'[q] \notin late'
  BY <1>0, <1>1, <1>2, EndClaims DEF AuthInv, ClaimsHold, Live
<1>6. RowsAgree'
  BY <1>1, <1>2 DEF AuthInv, RowsAgree, account
<1> QED BY <1>1, <1>3, <1>4, <1>5, <1>6, EndExclusive DEF AuthInv, ClaimsHold

(* A refresh commits the use of its token together with the successor. *)
LEMMA RefreshStep ==
    ASSUME AuthInv, NEW r \in Requests, RefreshCommit(r)
    PROVE  AuthInv'
<1> DEFINE n == NewToken
           a == arg[r]
<1>0. TypeOK
  BY DEF AuthInv
<1>1. /\ n \in Tokens /\ n \notin Minted /\ family[n] = None /\ n # None
      /\ Mint(family[a], a) /\ End(r) /\ UNCHANGED <<revoked, account>>
      /\ used' = used \cup {a}
  BY NewTokenIsNew DEF RefreshCommit, Mint
<1>2. Live(a) /\ a \in Minted /\ a \in Tokens /\ a \notin late /\ family[a] \in Minted
  BY DEF RefreshCommit, AuthInv, ClaimsHold, RowsAgree, Live, Minted
<1>3. /\ \A t \in Tokens : /\ family'[t] = IF t = n THEN family[a] ELSE family[t]
                           /\ from'[t] = IF t = n THEN a ELSE from[t]
      /\ Minted' = Minted \cup {n}
      /\ late' \subseteq late \cup {n} /\ (late' # late => deleted)
  BY <1>0, <1>1, <1>2 DEF Mint, TypeOK, Minted
<1>4. TypeOK'
  <2> HIDE DEF n, a
  <2>0. family[a] \in Tokens /\ a \in Tokens \cup {None}
    BY <1>2 DEF Minted
  <2>1. /\ family' \in [Tokens -> Tokens \cup {None}] /\ from' \in [Tokens -> Tokens \cup {None}]
        /\ late' \in SUBSET Tokens /\ \A t \in Tokens : family[t] # None => family'[t] # None
    BY <1>1, <2>0, MintTypes
  <2> QED BY <1>0, <1>1, <1>2, <2>1, EndTypes DEF TypeOK, account
<1>5. OneLivePerFamily'
  <2> HIDE DEF n, a
  <2>1. \A t \in Tokens : Live(t)' => t = n \/ (Live(t) /\ t # a)
    BY <1>1, <1>3 DEF Live
  <2>2. \A t \in Tokens : Live(t) /\ family[t] = family[a] => t = a
    BY <1>2 DEF AuthInv, OneLivePerFamily
  <2> QED BY <1>3, <2>1, <2>2 DEF AuthInv, OneLivePerFamily
<1>6. \A q \in Requests :
        /\ stage'[q] \in {"claimed", "checked"} => kind'[q] = "refresh" /\ Live(arg[q])'
        /\ stage'[q] = "checked" => arg'[q] \notin late'
  <2>1. ASSUME NEW q \in Requests, stage'[q] \in {"claimed", "checked"}
        PROVE  /\ q # r /\ stage'[q] = stage[q] /\ arg'[q] = arg[q] /\ kind'[q] = kind[q]
               /\ arg[q] # a
    <3>1. stage[r] \in {"claimed", "checked"}
      BY DEF RefreshCommit
    <3>2. q # r /\ stage'[q] = stage[q] /\ arg'[q] = arg[q] /\ kind'[q] = kind[q]
      BY <1>0, <1>1, <2>1, EndClaims
    <3> QED BY <2>1, <3>1, <3>2 DEF AuthInv, ClaimsHold, HoldsToken
  <2> HIDE DEF n, a
  <2> QED BY <1>1, <1>3, <2>1 DEF AuthInv, ClaimsHold, Live
<1>7. RowsAgree'
  <2> HIDE DEF n, a
  <2> QED BY <1>1, <1>2, <1>3 DEF AuthInv, RowsAgree, account
<1> QED BY <1>1, <1>4, <1>5, <1>6, <1>7, EndExclusive DEF AuthInv, ClaimsHold

-----------------------------------------------------------------------------
(* Reset links and revocation. *)

LEMMA ForgotStep ==
    ASSUME AuthInv, NEW r \in Requests, ForgotCommit(r)
    PROVE  AuthInv'
<1>0. TypeOK
  BY DEF AuthInv
<1>1. End(r) /\ UNCHANGED <<rows, deleted, spent>> /\ issued' \subseteq Links
  BY <1>0 DEF ForgotCommit, Fresh, TypeOK
<1>2. TypeOK'
  BY <1>0, <1>1, EndTypes DEF TypeOK, rows
<1>3. Quiet
  BY <1>0, <1>1 DEF End, Quiet, TypeOK
<1> QED BY <1>2, <1>3, QuietStep

(* A bulk UPDATE has waited for the claims of the rows it revokes, so every  *)
(* claim that is left still has a live row.                                  *)
LEMMA RevokeStep ==
    ASSUME AuthInv, NEW r \in Requests, RevokeCommit(r)
    PROVE  AuthInv'
<1>0. TypeOK
  BY DEF AuthInv
<1>1. /\ End(r) /\ revoked' = revoked \cup found[r] /\ found[r] \subseteq Tokens
      /\ UNCHANGED <<family, used, from, late, issued>>
      /\ \A q \in Requests : \A t \in found[r] : ~HoldsToken(q, t)
      /\ deleted' \in BOOLEAN /\ (deleted => deleted')
      /\ spent' \subseteq Links
  <2>1. kind[r] = "reset" => arg[r] \in Links
    BY <1>0 DEF TypeOK
  <2> QED BY <1>0, <2>1 DEF RevokeCommit, TypeOK
<1>2. TypeOK'
  BY <1>0, <1>1, EndTypes DEF TypeOK
<1>3. OneLivePerFamily'
  BY <1>1 DEF AuthInv, OneLivePerFamily, Live, Minted
<1>4. \A q \in Requests :
        /\ stage'[q] \in {"claimed", "checked"} => kind'[q] = "refresh" /\ Live(arg[q])'
        /\ stage'[q] = "checked" => arg'[q] \notin late'
  <2>1. ASSUME NEW q \in Requests, stage'[q] \in {"claimed", "checked"}
        PROVE  /\ stage'[q] = stage[q] /\ arg'[q] = arg[q] /\ kind'[q] = kind[q]
               /\ arg[q] \notin found[r]
    <3>1. stage'[q] = stage[q] /\ arg'[q] = arg[q] /\ kind'[q] = kind[q]
      BY <1>0, <1>1, <2>1, EndClaims
    <3> QED BY <1>1, <2>1, <3>1 DEF HoldsToken
  <2> QED BY <1>1, <2>1 DEF AuthInv, ClaimsHold, Live, Minted
<1>5. RowsAgree'
  BY <1>1 DEF AuthInv, RowsAgree, Minted
<1> QED BY <1>1, <1>2, <1>3, <1>4, <1>5, EndExclusive DEF AuthInv, ClaimsHold

-----------------------------------------------------------------------------
LEMMA AuthInvInit == Init => AuthInv
<1> SUFFICES ASSUME Init PROVE AuthInv
  OBVIOUS
<1>1. Minted = {}
  BY DEF Init, Minted
<1>2. TypeOK
  BY DEF Init, TypeOK
<1>3. OneLivePerFamily
  BY <1>1 DEF OneLivePerFamily, Live
<1>4. \A r \in Requests : stage[r] = "idle"
  BY DEF Init
<1>5. ClaimsHold
  BY <1>4 DEF ClaimsHold
<1>6. RowsAgree
  BY DEF Init, RowsAgree
<1> QED BY <1>2, <1>3, <1>5, <1>6 DEF AuthInv

LEMMA AuthInvNext == AuthInv /\ [Next]_vars => AuthInv'
<1> SUFFICES ASSUME AuthInv, [Next]_vars PROVE AuthInv'
  OBVIOUS
<1>1. ASSUME NEW r \in Requests,
             Login(r) \/ Refresh(r) \/ Logout(r) \/ Forgot(r) \/ Reset(r) \/ Delete(r)
      PROVE  AuthInv'
  BY <1>1, BeginStep
<1>2. ASSUME NEW r \in Requests, Serve(r) PROVE AuthInv'
  <2>1. CASE WriteLink(r) \/ WriteUser(r) \/ SpendLinks(r) \/ RevokeStart(r)
    BY <2>1, WaitStep
  <2>2. CASE BreakDeadlock(r)
    BY <2>2, EndStep DEF BreakDeadlock
  <2>3. CASE LoginCommit(r)
    BY <2>3, LoginStep
  <2>4. CASE Claim(r)
    BY <2>4, ClaimStep
  <2>5. CASE CheckUser(r)
    BY <2>5, CheckStep
  <2>6. CASE RefreshCommit(r)
    BY <2>6, RefreshStep
  <2>7. CASE ForgotCommit(r)
    BY <2>7, ForgotStep
  <2>8. CASE RevokeCommit(r)
    BY <2>8, RevokeStep
  <2> QED BY <1>2, <2>1, <2>2, <2>3, <2>4, <2>5, <2>6, <2>7, <2>8 DEF Serve
<1>3. ASSUME NEW r \in Requests, Abort(r) PROVE AuthInv'
  BY <1>3, EndStep DEF Abort
<1>4. CASE UNCHANGED vars
  BY <1>4 DEF vars, AuthInv, TypeOK, OneLivePerFamily, ClaimsHold, RowsAgree, Live, Minted,
              HoldsToken
<1> QED BY <1>1, <1>2, <1>3, <1>4 DEF Next

(* The invariant of the sessions: the claims of requests in flight, the rows *)
(* and their families agree after every interleaving of handlers.            *)
THEOREM AuthInvariant == Spec => []AuthInv
BY AuthInvInit, AuthInvNext, PTL DEF Spec

(* Rotation replaces: however refreshes, logouts, resets and deletions of an *)
(* account overlap, a family never has two tokens that could be exchanged.   *)
THEOREM RotationReplaces == Spec => []OneLivePerFamily
<1>1. AuthInv => OneLivePerFamily
  BY DEF AuthInv
<1> QED BY <1>1, AuthInvariant, PTL

-----------------------------------------------------------------------------
(* Two facts about what a step exchanges: only a refresh that commits        *)
(* exchanges a token, and it is a token that was live until then.            *)

LEMMA FromStep ==
    ASSUME AuthInv, [Next]_vars
    PROVE  \/ from' = from
           \/ \E a \in Minted : /\ a \notin used \cup late
                                /\ from' = [from EXCEPT ![NewToken] = a]
           \/ from' = [from EXCEPT ![NewToken] = None]
<1>1. CASE \E r \in Requests : RefreshCommit(r)
  <2>1. PICK r \in Requests : RefreshCommit(r)
    BY <1>1
  <2>2. arg[r] \in Minted /\ arg[r] \notin used \cup late
    BY <2>1 DEF RefreshCommit, AuthInv, ClaimsHold, Live, Minted
  <2> QED BY <2>1, <2>2 DEF RefreshCommit, Mint
<1>2. CASE \E r \in Requests : LoginCommit(r)
  BY <1>2 DEF LoginCommit, Mint
<1>3. CASE ~\E r \in Requests : RefreshCommit(r) \/ LoginCommit(r)
  BY <1>3 DEF Next, Serve, Login, Refresh, Logout, Forgot, Reset, Delete, Begin, Claim,
              CheckUser, ForgotCommit, WriteLink, WriteUser, SpendLinks, BreakDeadlock,
              RevokeStart, RevokeCommit, Abort, rows, vars
<1> QED BY <1>1, <1>2, <1>3

(* "Single-use": a refresh token is exchanged for at most one other, however *)
(* many requests present it together.                                        *)
THEOREM ExchangedOnce == Spec => []SingleExchange
<1>1. Init => SingleExchange
  BY DEF Init, SingleExchange
<1>2. AuthInv /\ SingleExchange /\ [Next]_vars => SingleExchange'
  <2> SUFFICES ASSUME AuthInv, SingleExchange, [Next]_vars PROVE SingleExchange'
    OBVIOUS
  <2>1. \A t \in Tokens : from[t] # None => from[t] \in used
    BY DEF AuthInv, RowsAgree
  <2>2. from \in [Tokens -> Tokens \cup {None}]
    BY DEF AuthInv, TypeOK
  <2>3. CASE from' = from
    BY <2>3 DEF SingleExchange
  <2>4. CASE \E a \in Minted : a \notin used \cup late /\ from' = [from EXCEPT ![NewToken] = a]
    BY <2>1, <2>2, <2>4 DEF SingleExchange, Minted
  <2>5. CASE from' = [from EXCEPT ![NewToken] = None]
    BY <2>2, <2>5 DEF SingleExchange
  <2> QED BY <2>3, <2>4, <2>5, FromStep
<1> QED BY <1>1, <1>2, AuthInvariant, PTL DEF Spec

(* A token that was committed after the account was deleted is never         *)
(* exchanged: the refreshes that were in flight are the last.                *)
THEOREM DeletionIsFinal == Spec => []DeletedNeverExchanged
<1>1. Init => DeletedNeverExchanged
  BY DEF Init, DeletedNeverExchanged
<1>2. AuthInv /\ AuthInv' /\ DeletedNeverExchanged /\ [Next]_vars => DeletedNeverExchanged'
  <2> SUFFICES ASSUME AuthInv, AuthInv', DeletedNeverExchanged, [Next]_vars
               PROVE  DeletedNeverExchanged'
    OBVIOUS
  <2>1. \A t \in Tokens : from[t] # None => from[t] \in Minted \ late
    BY DEF AuthInv, TypeOK, RowsAgree, DeletedNeverExchanged
  <2>2. late' \subseteq late \cup (Tokens \ Minted)
    <3>1. CASE \E r \in Requests : LoginCommit(r) \/ RefreshCommit(r)
      BY <3>1, NewTokenIsNew DEF LoginCommit, RefreshCommit, Mint
    <3>2. CASE ~\E r \in Requests : LoginCommit(r) \/ RefreshCommit(r)
      BY <3>2 DEF Next, Serve, Login, Refresh, Logout, Forgot, Reset, Delete, Begin, Claim,
                  CheckUser, ForgotCommit, WriteLink, WriteUser, SpendLinks, BreakDeadlock,
                  RevokeStart, RevokeCommit, Abort, rows, vars
    <3> QED BY <3>1, <3>2
  <2>3. \A t \in Tokens : from'[t] # None => from'[t] \in Minted \ late
    <3>1. from \in [Tokens -> Tokens \cup {None}]
      BY DEF AuthInv, TypeOK
    <3> QED BY <2>1, <3>1, FromStep
  <2>4. None \notin late'
    BY AuthAssumption DEF AuthInv, TypeOK
  <2> QED BY <2>2, <2>3, <2>4 DEF DeletedNeverExchanged
<1> QED BY <1>1, <1>2, AuthInvariant, PTL DEF Spec

-----------------------------------------------------------------------------
(* The sessions implement their contract.  Only rows are ever revoked, also  *)
(* by an UPDATE that is still waiting: a new token is not revoked unborn.    *)
RevokedInv == revoked \subseteq Minted /\ \A r \in Requests : found[r] \subseteq Minted

LEMMA RevokedAreRows == Spec => []RevokedInv
<1>1. Init => RevokedInv
  BY DEF Init, RevokedInv
<1>2. AuthInv /\ RevokedInv /\ [Next]_vars => RevokedInv'
  <2> SUFFICES ASSUME AuthInv, RevokedInv, [Next]_vars PROVE RevokedInv'
    OBVIOUS
  <2>0. TypeOK
    BY DEF AuthInv
  <2> USE DEF RevokedInv
  <2>1. ASSUME NEW r \in Requests, LoginCommit(r) \/ RefreshCommit(r) PROVE RevokedInv'
    <3>1. Minted \subseteq Minted'
      <4>1. PICK f, x : Mint(f, x)
        BY <2>1 DEF LoginCommit, RefreshCommit
      <4> QED BY <2>0, <4>1, NewTokenIsNew DEF Mint, TypeOK, Minted
    <3>2. revoked' = revoked /\ End(r)
      BY <2>1 DEF LoginCommit, RefreshCommit
    <3> QED BY <2>0, <3>1, <3>2 DEF End, TypeOK
  <2>2. ASSUME NEW r \in Requests, RevokeCommit(r) PROVE RevokedInv'
    BY <2>0, <2>2 DEF RevokeCommit, End, TypeOK, Minted
  <2>3. ASSUME NEW r \in Requests, RevokeStart(r) PROVE RevokedInv'
    BY <2>0, <2>3 DEF RevokeStart, Revoking, FamilyOf, TypeOK, Minted, rows
  <2>4. ASSUME ~ \E r \in Requests : \/ LoginCommit(r) \/ RefreshCommit(r)
                                     \/ RevokeCommit(r) \/ RevokeStart(r)
        PROVE  RevokedInv'
    <3>1. UNCHANGED rows
      BY <2>4 DEF Next, Serve, Login, Refresh, Logout, Forgot, Reset, Delete, Begin, Claim,
                  CheckUser, ForgotCommit, WriteLink, WriteUser, SpendLinks, BreakDeadlock,
                  Abort, rows, vars
    <3>2. \A r \in Requests : found'[r] = found[r] \/ found'[r] = {}
      BY <2>0, <2>4 DEF Next, Serve, Login, Refresh, Logout, Forgot, Reset, Delete, Begin, Claim,
                  CheckUser, ForgotCommit, WriteLink, WriteUser, SpendLinks, BreakDeadlock,
                  Abort, End, TypeOK, vars
    <3> QED BY <3>1, <3>2 DEF Minted, rows
  <2> QED BY <2>1, <2>2, <2>3, <2>4
<1> QED BY <1>1, <1>2, AuthInvariant, PTL DEF Spec

(* Each token has a standing, before and after a step. *)
LEMMA StandingIsFunction ==
    /\ Standing = [t \in Tokens |-> Standing[t]]
    /\ Standing' = [t \in Tokens |-> Standing'[t]]
<1>1. Standing = [t \in Tokens |-> Standing[t]]
  BY DEF Standing
<1>2. Standing' = [t \in Tokens |-> Standing'[t]]
  BY DEF Standing
<1> QED BY <1>1, <1>2

(* A login opens a session for a token nobody had. *)
LEMMA LoginOpens ==
    ASSUME AuthInv, RevokedInv, NEW r \in Requests, LoginCommit(r)
    PROVE  Contract!Open(NewToken)
<1> DEFINE n == NewToken
<1>1. /\ n \in Tokens /\ n \notin Minted /\ n # None
      /\ Mint(n, None) /\ UNCHANGED <<used, revoked, deleted>>
  BY NewTokenIsNew DEF LoginCommit, Mint, account
<1>2. /\ family' = [family EXCEPT ![n] = n] /\ from' = [from EXCEPT ![n] = None]
      /\ Minted' = Minted \cup {n}
      /\ late' = IF deleted THEN late \cup {n} ELSE late
  BY <1>1 DEF Mint, AuthInv, TypeOK, Minted
<1>3. n \notin used \cup revoked \cup late
  BY <1>1 DEF AuthInv, RowsAgree, RevokedInv
<1> HIDE DEF n
<1>4. Standing[n] = "unborn"
  BY <1>1 DEF Standing
<1>5. \A t \in Tokens : Standing'[t] = IF t = n THEN Contract!Worth ELSE Standing[t]
  BY <1>1, <1>2, <1>3 DEF Standing, Live, Contract!Worth
<1>6. Standing' = [Standing EXCEPT ![n] = Contract!Worth]
  BY <1>1, <1>5, StandingIsFunction
<1>7. Contract!Open(n)
  BY <1>1, <1>2, <1>4, <1>6 DEF Contract!Open
<1> QED BY <1>7 DEF n

(* A refresh exchanges a live token for one of its family. *)
LEMMA RefreshExchanges ==
    ASSUME AuthInv, RevokedInv, NEW r \in Requests, RefreshCommit(r)
    PROVE  arg[r] \in Tokens /\ Contract!Exchange(arg[r], NewToken)
<1> DEFINE n == NewToken
           a == arg[r]
<1>1. /\ n \in Tokens /\ n \notin Minted /\ family[n] = None /\ n # None
      /\ Mint(family[a], a) /\ UNCHANGED <<revoked, deleted>>
      /\ used' = used \cup {a}
  BY NewTokenIsNew DEF RefreshCommit, Mint, account
<1>2. a \in Minted /\ a \in Tokens /\ a \notin late \cup used \cup revoked /\ family[a] # None
  BY DEF RefreshCommit, AuthInv, ClaimsHold, Live, Minted
<1>3. /\ family' = [family EXCEPT ![n] = family[a]] /\ from' = [from EXCEPT ![n] = a]
      /\ Minted' = Minted \cup {n}
      /\ late' = IF deleted THEN late \cup {n} ELSE late
  BY <1>1, <1>2 DEF Mint, AuthInv, TypeOK, Minted
<1>4. n \notin used \cup revoked \cup late /\ n # a
  BY <1>1, <1>2 DEF AuthInv, RowsAgree, RevokedInv
<1> HIDE DEF n, a
<1>5. Standing[a] = "live" /\ Standing[n] = "unborn"
  BY <1>1, <1>2 DEF Standing, Live
<1>6. \A t \in Tokens : Standing'[t] = IF t = n THEN Contract!Worth
                                       ELSE IF t = a THEN "exchanged" ELSE Standing[t]
  BY <1>1, <1>2, <1>3, <1>4 DEF Standing, Live, Contract!Worth
<1>7. Standing' = [Standing EXCEPT ![a] = "exchanged", ![n] = Contract!Worth]
  BY <1>1, <1>2, <1>4, <1>6, StandingIsFunction
<1>8. a \in Tokens /\ Contract!Exchange(a, n)
  BY <1>1, <1>2, <1>3, <1>5, <1>7 DEF Contract!Exchange
<1> QED BY <1>8 DEF n, a

(* A revocation takes back what its UPDATE saw, and closes the account if it *)
(* is part of its deletion.                                                  *)
LEMMA RevokeTakesBack ==
    ASSUME AuthInv, RevokedInv, NEW r \in Requests, RevokeCommit(r)
    PROVE  found[r] \in SUBSET Tokens /\ (Contract!Revoke(found[r]) \/ Contract!Close(found[r]))
<1>1. /\ found[r] \in SUBSET Tokens /\ found[r] \subseteq Minted
      /\ revoked' = revoked \cup found[r] /\ UNCHANGED <<family, used, from, late>>
      /\ deleted' = (deleted \/ kind[r] = "delete")
  BY DEF RevokeCommit, AuthInv, TypeOK, RevokedInv
<1>2. \A t \in Tokens : Standing'[t] = IF t \in found[r] /\ Standing[t] = "live" THEN "revoked"
                                       ELSE Standing[t]
  BY <1>1 DEF Standing, Live, Minted
<1>3. Contract!TakenBack(found[r])
  BY <1>2, StandingIsFunction DEF Contract!TakenBack
<1>4. CASE kind[r] = "delete"
  BY <1>1, <1>3, <1>4 DEF Contract!Close
<1>5. CASE kind[r] # "delete"
  <2>1. deleted' = deleted
    BY <1>1, <1>5 DEF AuthInv, TypeOK
  <2> QED BY <1>1, <1>3, <2>1 DEF Contract!Revoke
<1> QED BY <1>1, <1>4, <1>5

LEMMA ContractStep ==
    AuthInv /\ RevokedInv /\ [Next]_vars => [Contract!Next]_(Contract!vars)
<1> SUFFICES ASSUME AuthInv, RevokedInv, [Next]_vars
             PROVE  Contract!Next \/ UNCHANGED Contract!vars
  OBVIOUS
<1>1. ASSUME NEW r \in Requests, LoginCommit(r) PROVE Contract!Next
  <2>1. NewToken \in Tokens /\ Contract!Open(NewToken)
    BY <1>1, LoginOpens, NewTokenIsNew DEF LoginCommit, Mint
  <2> QED BY <2>1 DEF Contract!Next
<1>2. ASSUME NEW r \in Requests, RefreshCommit(r) PROVE Contract!Next
  <2>1. NewToken \in Tokens /\ arg[r] \in Tokens /\ Contract!Exchange(arg[r], NewToken)
    BY <1>2, RefreshExchanges, NewTokenIsNew DEF RefreshCommit, Mint
  <2> QED BY <2>1 DEF Contract!Next
<1>3. ASSUME NEW r \in Requests, RevokeCommit(r) PROVE Contract!Next
  BY <1>3, RevokeTakesBack DEF Contract!Next
<1>4. ASSUME ~ \E r \in Requests : LoginCommit(r) \/ RefreshCommit(r) \/ RevokeCommit(r)
      PROVE  UNCHANGED Contract!vars
  <2>1. UNCHANGED <<rows, deleted>>
    BY <1>4 DEF Next, Serve, Login, Refresh, Logout, Forgot, Reset, Delete, Begin, Claim,
                CheckUser, ForgotCommit, WriteLink, WriteUser, SpendLinks, BreakDeadlock,
                RevokeStart, Abort, rows, account, vars
  <2> QED BY <2>1 DEF Contract!vars, Standing, Live, Minted, rows
<1> QED BY <1>1, <1>2, <1>3, <1>4

(* Implements: whatever requests race, wait for each other, abort or die,    *)
(* the holder of a token sees the contract: logins open families, a live     *)
(* token is exchanged for one of its family in a single step, what is taken  *)
(* back stays so, and a closed account commits nothing that can be used.     *)
THEOREM SessionsImplementContract == Spec => Implements
<1>1. Init => Contract!Init
  <2> SUFFICES ASSUME Init PROVE Contract!Init
    OBVIOUS
  <2>1. \A t \in Tokens : Standing[t] = "unborn"
    BY DEF Init, Standing, Minted
  <2>2. Standing = [t \in Tokens |-> "unborn"]
    BY <2>1, StandingIsFunction
  <2> QED BY <2>2 DEF Init, Contract!Init
<1> QED BY <1>1, ContractStep, AuthInvariant, RevokedAreRows, PTL DEF Spec, Implements, Contract!Spec

(* The tokens that were not committed after a deletion and are still live.   *)
Usable == {t \in Tokens : Live(t) /\ t \notin late}

(* Nobody gets in again after a deletion: from its commit on the tokens that *)
(* can still be exchanged, in a refresh that had looked at the account       *)
(* before, only become fewer (auth.py:213, 242-258).                         *)
THEOREM NobodyReturns == Spec => [][deleted => deleted' /\ Usable' \subseteq Usable]_vars
<1>1. AuthInv /\ RevokedInv /\ [Next]_vars => [deleted => deleted' /\ Usable' \subseteq Usable]_vars
  <2> SUFFICES ASSUME AuthInv, RevokedInv, [Next]_vars, deleted
               PROVE  deleted' /\ Usable' \subseteq Usable
    OBVIOUS
  <2>1. /\ Usable = {t \in Tokens : Standing[t] = "live"}
        /\ Usable' = {t \in Tokens : Standing'[t] = "live"}
    <3>1. Usable = {t \in Tokens : Standing[t] = "live"}
      BY DEF Usable, Standing, Live
    <3>2. Usable' = {t \in Tokens : Standing'[t] = "live"}
      BY DEF Usable, Standing, Live
    <3> QED BY <3>1, <3>2
  <2>2. \A t \in Tokens : Standing'[t] = "live" => Standing[t] = "live"
    <3>1. ASSUME NEW t \in Tokens, Contract!Open(t) PROVE \A u \in Tokens : Standing'[u] = "live" => Standing[u] = "live"
      BY <3>1, StandingIsFunction DEF Contract!Open, Contract!Worth
    <3>2. ASSUME NEW t \in Tokens, NEW x \in Tokens, Contract!Exchange(t, x)
          PROVE  \A u \in Tokens : Standing'[u] = "live" => Standing[u] = "live"
      BY <3>2, StandingIsFunction DEF Contract!Exchange, Contract!Worth
    <3>3. ASSUME NEW S, Contract!TakenBack(S) PROVE \A u \in Tokens : Standing'[u] = "live" => Standing[u] = "live"
      BY <3>3 DEF Contract!TakenBack
    <3>4. UNCHANGED Contract!vars => \A u \in Tokens : Standing'[u] = "live" => Standing[u] = "live"
      BY DEF Contract!vars
    <3> QED BY <3>1, <3>2, <3>3, <3>4, ContractStep DEF Contract!Next, Contract!Revoke, Contract!Close
  <2>3. deleted'
    BY ContractStep DEF Contract!Next, Contract!Open, Contract!Exchange, Contract!Revoke, Contract!Close, Contract!vars
  <2> QED BY <2>1, <2>2, <2>3
<1> QED BY <1>1, AuthInvariant, RevokedAreRows, PTL DEF Spec

=============================================================================
