--------------------------- MODULE ApplyContract ---------------------------
(***************************************************************************)
(* What the apply pipeline promises for one application row, without the   *)
(* database, the HTTP handlers or the worker: a row is driven only with    *)
(* consent (the row is autonomous, or its owner approved it), at most one  *)
(* dispatch of a row is open at a time, and one open dispatch makes at     *)
(* most MaxTries attempts, each of which submits at most once.             *)
(* ApplyPipeline implements this module (property Implements there).       *)
(***************************************************************************)
EXTENDS Naturals

CONSTANTS Apps,        \* application rows
          Autonomous,  \* rows whose apply_mode is "autonomous"
          MaxTries     \* attempts per dispatch

VARIABLES consent,   \* rows the owner has approved
          open,      \* rows with an open dispatch
          attempts,  \* attempts made by the last dispatch of a row
          sends      \* submissions made by the last dispatch of a row

vars == <<consent, open, attempts, sends>>

Init == /\ consent = {}
        /\ open = {}
        /\ attempts = [a \in Apps |-> 0]
        /\ sends = [a \in Apps |-> 0]

(* The owner approves some rows together. *)
Consent(S) == /\ consent' = consent \cup S
              /\ UNCHANGED <<open, attempts, sends>>

(* A new dispatch needs consent, and the previous one closed. *)
Dispatch(a) == /\ a \notin open
               /\ a \in Autonomous \cup consent
               /\ open' = open \cup {a}
               /\ attempts' = [attempts EXCEPT ![a] = 0]
               /\ sends' = [sends EXCEPT ![a] = 0]
               /\ UNCHANGED consent

Attempt(a) == /\ a \in open
              /\ attempts[a] < MaxTries
              /\ attempts' = [attempts EXCEPT ![a] = @ + 1]
              /\ UNCHANGED <<consent, open, sends>>

(* An attempt submits at most once. *)
Send(a) == /\ a \in open
           /\ sends[a] < attempts[a]
           /\ sends' = [sends EXCEPT ![a] = @ + 1]
           /\ UNCHANGED <<consent, open, attempts>>

Close(a) == /\ a \in open
            /\ open' = open \ {a}
            /\ UNCHANGED <<consent, attempts, sends>>

Next == \/ \E S \in SUBSET Apps : Consent(S)
        \/ \E a \in Apps : Dispatch(a) \/ Attempt(a) \/ Send(a) \/ Close(a)

Spec == Init /\ [][Next]_vars

=============================================================================
