------------------------------ MODULE FlagStore ------------------------------
(***************************************************************************)
(* What the feature-flag service promises its callers, with no cache, no   *)
(* transaction and no step inside a call.  Per key the store offers a set  *)
(* of flags that only grows: a write may add flags to it at any moment     *)
(* between its call and long after its answer, a read may answer with any  *)
(* flag offered for its own key, a read may answer "not found" only if     *)
(* nothing was offered when it was called, and a write may answer "ok"     *)
(* only when its own flag is offered.  Any call may fail.                  *)
(*                                                                         *)
(* The set, rather than one current value, is the honest contract: the     *)
(* cache may answer with an older flag.                                    *)
(***************************************************************************)
CONSTANTS Keys, Gets, Sets, Flags, None

VARIABLES
  offered,   \* offered[k]: the flags a read of k may answer with
  phase,     \* phase[r]: "idle", "open" or "done"
  target,    \* target[r]: the key of call r, None before the call
  wanted,    \* wanted[r]: the flag a set was asked to store, None otherwise
  fresh,     \* fresh[r]: nothing was offered for the key when r was called
  answer     \* answer[r]: [status, flag]

vars == <<offered, phase, target, wanted, fresh, answer>>

Requests == Gets \cup Sets

Unanswered == [status |-> "none", flag |-> None]

\* Every column of a flag that appears for k was written for k by some set
\* that was called, or was already there: nothing comes out of thin air and
\* nothing leaks in from another key.
Sources(k) == offered[k] \cup {wanted[s] : s \in {q \in Sets : target[q] = k}}

Blends(k) ==
  {f \in Flags : \E a, b, c \in Sources(k) :
      /\ f.enabled = a.enabled
      /\ f.updated_at = b.updated_at
      /\ f.updated_by_user_id = c.updated_by_user_id}

Init ==
  /\ offered \in [Keys -> {{}} \cup {{f} : f \in Flags}]
  /\ phase = [r \in Requests |-> "idle"]
  /\ target = [r \in Requests |-> None]
  /\ wanted = [r \in Requests |-> None]
  /\ fresh = [r \in Requests |-> FALSE]
  /\ answer = [r \in Requests |-> Unanswered]

Call(r, k) ==
  /\ phase[r] = "idle"
  /\ phase' = [phase EXCEPT ![r] = "open"]
  /\ target' = [target EXCEPT ![r] = k]
  /\ fresh' = [fresh EXCEPT ![r] = (offered[k] = {})]
  /\ IF r \in Sets
       THEN \E f \in Flags : wanted' = [wanted EXCEPT ![r] = f]
       ELSE UNCHANGED wanted
  /\ UNCHANGED <<offered, answer>>

Offer(k) ==
  /\ offered[k] \subseteq offered'[k]
  /\ offered'[k] \subseteq offered[k] \cup Blends(k)
  /\ offered' = [offered EXCEPT ![k] = offered'[k]]
  /\ UNCHANGED <<phase, target, wanted, fresh, answer>>

Answers(r) ==
  (IF r \in Gets
     THEN {[status |-> "ok", flag |-> f] : f \in offered[target[r]]}
          \cup {a \in {[status |-> "not_found", flag |-> None]} : fresh[r]}
     ELSE {[status |-> "ok", flag |-> f] : f \in {wanted[r]} \cap offered[target[r]]})
  \cup {[status |-> s, flag |-> None] : s \in {"server_error", "lost"}}

\* One process going down takes all its open calls with it.
Answer(R) ==
  /\ \A r \in R : phase[r] = "open"
  /\ phase' = [r \in Requests |-> IF r \in R THEN "done" ELSE phase[r]]
  /\ \A r \in Requests :
       IF r \in R THEN answer'[r] \in Answers(r) ELSE answer'[r] = answer[r]
  /\ answer' = [r \in Requests |-> answer'[r]]
  /\ UNCHANGED <<offered, target, wanted, fresh>>

Next ==
  \/ \E r \in Requests, k \in Keys : Call(r, k)
  \/ \E k \in Keys : Offer(k)
  \/ \E R \in SUBSET Requests : Answer(R)

Spec == Init /\ [][Next]_vars
=============================================================================
