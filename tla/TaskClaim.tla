------------------------------ MODULE TaskClaim ------------------------------
(***************************************************************************)
(* What the task board promises to whoever hands out work: a task is held   *)
(* by at most one claim and a terminal carries at most one; a claim that is *)
(* over stays over; and a claim's outcome is recorded once, at a moment     *)
(* when no other claim holds the task.                                      *)
(***************************************************************************)
CONSTANTS Tasks, Terminals, Claims, NoTask, NoTerminal

VARIABLES
    life,       \* of a claim: unused, held, over
    owner,      \* the task claimed
    place,      \* the terminal of a held claim, if it has one yet
    result      \* the recorded outcome, if any

vars == <<life, owner, place, result>>

Init ==
    /\ life = [c \in Claims |-> "unused"]
    /\ owner = [c \in Claims |-> NoTask]
    /\ place = [c \in Claims |-> NoTerminal]
    /\ result = [c \in Claims |-> "none"]

Held(c) == life[c] = "held"
Sole(c, t) == \A e \in Claims : Held(e) /\ owner[e] = t => e = c
Free(term, c) == term = NoTerminal \/ \A e \in Claims : Held(e) /\ place[e] = term => e = c

Take(c, t, term) ==
    /\ life[c] = "unused"
    /\ Sole(c, t)
    /\ Free(term, c)
    /\ life' = [life EXCEPT ![c] = "held"]
    /\ owner' = [owner EXCEPT ![c] = t]
    /\ place' = [place EXCEPT ![c] = term]
    /\ UNCHANGED result

Attach(c, term) ==
    /\ Held(c)
    /\ Free(term, c)
    /\ place' = [place EXCEPT ![c] = term]
    /\ UNCHANGED <<life, owner, result>>

Release(c) ==
    /\ Held(c)
    /\ life' = [life EXCEPT ![c] = "over"]
    /\ place' = [place EXCEPT ![c] = NoTerminal]
    /\ UNCHANGED <<owner, result>>

\* A report settles the claim it is for; a claim that ended unheard may still report.
Report(c, outcome) ==
    /\ life[c] # "unused"
    /\ Sole(c, owner[c])
    /\ result[c] = "none"
    /\ life' = [life EXCEPT ![c] = "over"]
    /\ place' = [place EXCEPT ![c] = NoTerminal]
    /\ result' = [result EXCEPT ![c] = outcome]
    /\ UNCHANGED owner

Next ==
    \E c \in Claims :
        \/ \E t \in Tasks, term \in Terminals \cup {NoTerminal} : Take(c, t, term)
        \/ \E term \in Terminals : Attach(c, term)
        \/ Release(c)
        \/ \E outcome \in {"succeeded", "failed"} : Report(c, outcome)

Spec == Init /\ [][Next]_vars
=============================================================================
