------------------------- MODULE AttemptSupervision -------------------------
(***************************************************************************)
(* What attempt scopes promise: structured supervision of child attempts.  *)
(* A scope closes only when every child it registered is settled, settling *)
(* is final, a workspace is merged at most once, and an evaluation that    *)
(* ends without a cleanup error leaves no registered child active.         *)
(*                                                                         *)
(* AttemptScope.tla, with its multi-call cleanup and its failing calls,    *)
(* implements this specification.                                          *)
(***************************************************************************)
CONSTANTS Attempt, Scope

VARIABLES
    life,      \* "unborn", "active", or how the attempt ended: "merged" or "dropped"
    status,    \* "unused", "open" or "closed", for each scope
    members,   \* the attempts each scope has registered
    verdict    \* "running", then "clean" or "incomplete" for ever

vars == <<life, status, members, verdict>>

Ended(a) == life[a] \in {"merged", "dropped"}

Init ==
    /\ life = [a \in Attempt |-> "unborn"]
    /\ status = [s \in Scope |-> "unused"]
    /\ members = [s \in Scope |-> {}]
    /\ verdict = "running"

Open(s) ==
    /\ verdict = "running" /\ status[s] = "unused"
    /\ status' = [status EXCEPT ![s] = "open"]
    /\ UNCHANGED <<life, members, verdict>>

Begin(a) ==
    /\ verdict = "running" /\ life[a] = "unborn"
    /\ life' = [life EXCEPT ![a] = "active"]
    /\ UNCHANGED <<status, members, verdict>>

\* An attempt joins an open scope, as it begins or later.
Adopt(s, a) ==
    /\ verdict = "running" /\ status[s] = "open"
    /\ \/ life[a] # "unborn" /\ UNCHANGED life
       \/ life[a] = "unborn" /\ life' = [life EXCEPT ![a] = "active"]
    /\ members' = [members EXCEPT ![s] = @ \cup {a}]
    /\ UNCHANGED <<status, verdict>>

\* By the program, by a cleanup, or by the child itself, at any time.
End(a) ==
    /\ life[a] = "active"
    /\ \E how \in {"merged", "dropped"} : life' = [life EXCEPT ![a] = how]
    /\ UNCHANGED <<status, members, verdict>>

Close(s) ==
    /\ verdict = "running" /\ status[s] = "open"
    /\ \A a \in members[s] : Ended(a)
    /\ status' = [status EXCEPT ![s] = "closed"]
    /\ UNCHANGED <<life, members, verdict>>

Conclude ==
    /\ verdict = "running"
    /\ \/ /\ \A s \in Scope : \A a \in members[s] : Ended(a)
          /\ verdict' = "clean"
       \/ verdict' = "incomplete"
    /\ UNCHANGED <<life, status, members>>

Next ==
    \/ \E s \in Scope : Open(s) \/ Close(s)
    \/ \E a \in Attempt : Begin(a) \/ End(a)
    \/ \E s \in Scope, a \in Attempt : Adopt(s, a)
    \/ Conclude

Spec == Init /\ [][Next]_vars

=============================================================================
