--------------------------- MODULE SessionContract ---------------------------
(***************************************************************************)
(* What the sessions of one account promise to the holder of a refresh     *)
(* token, without the rows, locks and transactions that keep it: a login   *)
(* opens a family of tokens, a live token is exchanged for one other of    *)
(* its family, at any time tokens may be taken back for good, and once the *)
(* account is closed no token is committed that could ever be exchanged.   *)
(* AuthSessions implements this module (property Implements there).        *)
(***************************************************************************)
CONSTANTS Tokens, None

VARIABLES standing,  \* of each token: "unborn", "live", "void", "exchanged" or "revoked"
          family,    \* the token each token's family began with
          from,      \* the token each token was exchanged for
          deleted    \* the account is closed

vars == <<standing, family, from, deleted>>

Init == /\ standing = [t \in Tokens |-> "unborn"]
        /\ family = [t \in Tokens |-> None]
        /\ from = [t \in Tokens |-> None]
        /\ deleted = FALSE

(* A token committed for a closed account opens nothing. *)
Worth == IF deleted THEN "void" ELSE "live"

(* A login. *)
Open(t) == /\ standing[t] = "unborn"
           /\ standing' = [standing EXCEPT ![t] = Worth]
           /\ family' = [family EXCEPT ![t] = t]
           /\ from' = [from EXCEPT ![t] = None]
           /\ UNCHANGED deleted

(* A refresh: the old token dies in the step its successor is born. *)
Exchange(t, u) == /\ standing[t] = "live" /\ standing[u] = "unborn"
                  /\ standing' = [standing EXCEPT ![t] = "exchanged", ![u] = Worth]
                  /\ family' = [family EXCEPT ![u] = family[t]]
                  /\ from' = [from EXCEPT ![u] = t]
                  /\ UNCHANGED deleted

TakenBack(S) == standing' = [t \in Tokens |-> IF t \in S /\ standing[t] = "live" THEN "revoked"
                                              ELSE standing[t]]

(* Logout, reuse of a token, password reset. *)
Revoke(S) == TakenBack(S) /\ UNCHANGED <<family, from, deleted>>

(* The deletion of the account. *)
Close(S) == /\ TakenBack(S) /\ deleted' = TRUE
            /\ UNCHANGED <<family, from>>

Next == \/ \E t \in Tokens : Open(t)
        \/ \E t, u \in Tokens : Exchange(t, u)
        \/ \E S \in SUBSET Tokens : Revoke(S) \/ Close(S)

Spec == Init /\ [][Next]_vars

=============================================================================
