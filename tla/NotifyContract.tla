--------------------------- MODULE NotifyContract ---------------------------
(***************************************************************************)
(* What notifications promise the clients of a session group, after        *)
(* ECNotificationManager and ns__notifyGetItems: a call of a client stays  *)
(* open until there is something to tell.  It is answered once, with the   *)
(* oldest notifications that nobody got yet; with nothing only when it has *)
(* waited for 60 seconds or its session is over; and with an error when    *)
(* another call takes its place.  Then the connection is free for the next *)
(* call, or closed when its client is gone or the server stops.            *)
(***************************************************************************)
EXTENDS Naturals, Sequences

CONSTANT Conns \* connections of clients

VARIABLES made,    \* the number of notifications so far; they are numbered
          queue,   \* those that no client was sent, oldest first
          got,     \* those that clients got, in the order of the answers
          missing, \* those that were sent to clients that were gone
          call,    \* of each connection: "home", "asked", "late" (asked, and may
                   \* be answered with nothing), "answered" or "closed"
          gone,    \* the connections whose client is gone
          over     \* the server stops

vars == <<made, queue, got, missing, call, gone, over>>

Init == /\ made = 0 /\ queue = <<>> /\ got = <<>> /\ missing = {}
        /\ call = [c \in Conns |-> "home"] /\ gone = {} /\ over = FALSE

Open(c) == call[c] \in {"asked", "late"}

Make == /\ ~over
        /\ made' = made + 1 /\ queue' = Append(queue, made + 1)
        /\ UNCHANGED <<got, missing, call, gone, over>>

Ask(c) == /\ ~over /\ call[c] = "home" /\ c \notin gone
          /\ call' = [call EXCEPT ![c] = "asked"]
          /\ UNCHANGED <<made, queue, got, missing, gone, over>>

\* 60 seconds are over, or sessions are.
Expire(S) == /\ \A c \in S : call[c] = "asked"
             /\ call' = [c \in Conns |-> IF c \in S THEN "late" ELSE call[c]]
             /\ UNCHANGED <<made, queue, got, missing, gone, over>>

Lose(c) == /\ Open(c)
           /\ gone' = gone \cup {c}
           /\ UNCHANGED <<made, queue, got, missing, call, over>>

\* The n oldest notifications go to c.
Answer(c) == /\ Open(c)
             /\ \E n \in 0 .. Len(queue) :
                   LET part == SubSeq(queue, 1, n) IN
                   /\ n = 0 => call[c] = "late"
                   /\ queue' = SubSeq(queue, n + 1, Len(queue))
                   /\ IF c \in gone
                      THEN /\ missing' = missing \cup {part[i] : i \in 1 .. n}
                           /\ UNCHANGED got
                      ELSE got' = got \o part /\ UNCHANGED missing
             /\ call' = [call EXCEPT ![c] = "answered"]
             /\ UNCHANGED <<made, gone, over>>

Return(c) == call' = [call EXCEPT ![c] = IF c \in gone \/ over THEN "closed" ELSE "home"]

\* Another call takes the place of c.
Replace(c) == /\ Open(c) /\ \E d \in Conns \ {c} : Open(d)
              /\ Return(c)
              /\ UNCHANGED <<made, queue, got, missing, gone, over>>

Free(c) == /\ call[c] = "answered"
           /\ Return(c)
           /\ UNCHANGED <<made, queue, got, missing, gone, over>>

\* The server stops: with it all sessions are over ...
Stop == /\ ~over /\ over' = TRUE
        /\ call' = [c \in Conns |-> IF Open(c) THEN "late" ELSE call[c]]
        /\ UNCHANGED <<made, queue, got, missing, gone>>

\* ... and the calls that are still open are closed together.
Finish == /\ over
          /\ call' = [c \in Conns |-> IF Open(c) THEN "closed" ELSE call[c]]
          /\ UNCHANGED <<made, queue, got, missing, gone, over>>

Next == \/ Make \/ Stop \/ Finish
        \/ \E c \in Conns : \/ Ask(c) \/ Lose(c) \/ Answer(c)
                            \/ Replace(c) \/ Free(c)
        \/ \E S \in SUBSET Conns : Expire(S)

Spec == Init /\ [][Next]_vars
=============================================================================
