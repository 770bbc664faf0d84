-------------------------- MODULE SessionContract --------------------------
(***************************************************************************)
(* What the session manager promises of a session, after the comment over  *)
(* ECSessionManager::ValidateSession: a session that was returned to a     *)
(* thread is not deleted by another one; once it is out of the session     *)
(* table nobody gets at it any more, and it is deleted when the threads    *)
(* that still hold it have let go.                                         *)
(***************************************************************************)
CONSTANTS Sids,   \* session ids
          Actors  \* the threads of the server

VARIABLES stage,  \* of each session: "absent", "open", "closed" or "gone"
          users   \* the threads that hold it

vars == <<stage, users>>

Init == /\ stage = [s \in Sids |-> "absent"]
        /\ users = [s \in Sids |-> {}]

\* A session enters the table, in the hands of the thread that made it.
Open(s, a) == /\ stage[s] = "absent"
              /\ stage' = [stage EXCEPT ![s] = "open"]
              /\ users' = [users EXCEPT ![s] = {a}]

\* A session is given up before it enters the table.
Discard(s) == /\ stage[s] = "absent"
              /\ stage' = [stage EXCEPT ![s] = "gone"]
              /\ UNCHANGED users

Join(s, a) == /\ stage[s] = "open"
              /\ users' = [users EXCEPT ![s] = @ \cup {a}]
              /\ UNCHANGED stage

Leave(s, a) == /\ a \in users[s]
               /\ users' = [users EXCEPT ![s] = @ \ {a}]
               /\ UNCHANGED stage

\* Some sessions leave the table.
Close(S) == /\ \A s \in S : stage[s] = "open"
            /\ stage' = [s \in Sids |-> IF s \in S THEN "closed" ELSE stage[s]]
            /\ UNCHANGED users

\* A session is deleted: never while a thread holds it.
Delete(s) == /\ stage[s] = "closed" /\ users[s] = {}
             /\ stage' = [stage EXCEPT ![s] = "gone"]
             /\ UNCHANGED users

Next == \/ \E s \in Sids, a \in Actors : Open(s, a) \/ Join(s, a) \/ Leave(s, a)
        \/ \E s \in Sids : Discard(s) \/ Delete(s)
        \/ \E S \in SUBSET Sids : Close(S)

Spec == Init /\ [][Next]_vars
=============================================================================
