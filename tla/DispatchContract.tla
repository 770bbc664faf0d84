-------------------------- MODULE DispatchContract --------------------------
(***************************************************************************)
(* What the dispatcher promises a connection, after ECDispatcher and       *)
(* ECWorkerThread: it is in one place at a time.  A request is read by one *)
(* worker, and only when there is one to read; it is answered once, by the *)
(* worker or later by the notification manager; and the next one is read   *)
(* after that.  A connection is closed when its client is gone, after an   *)
(* answer, or because the server stops.                                    *)
(***************************************************************************)
CONSTANT Conns

VARIABLES at,      \* of each connection: where it is
          waits,   \* what waits on its socket: "none", "data" or "hup"
          stopping \* the server stops

vars == <<at, waits, stopping>>

\* The places of a connection: "nowhere", "listening", "queued", "reading" (a
\* worker is about to read from it), "left" (to the notification manager),
\* "answered" and "closed".
Goes(c, q) == at' = [at EXCEPT ![c] = q]
Gets(c, v) == waits' = [waits EXCEPT ![c] = v]

Init == /\ at = [c \in Conns |-> "nowhere"]
        /\ waits = [c \in Conns |-> "none"]
        /\ stopping = FALSE

\* A client sends a request when the last one was answered ...
Ask(c) == /\ waits[c] = "none" /\ Gets(c, "data")
          /\ at[c] \in {"listening", "answered"}
          /\ UNCHANGED <<at, stopping>>

\* ... and may hang up at any moment.
HangUp(c) == /\ waits[c] # "hup" /\ Gets(c, "hup")
             /\ at[c] \notin {"nowhere", "closed"}
             /\ UNCHANGED <<at, stopping>>

\* The request is answered, or left for the notification manager to answer.
Serve(c) == /\ waits[c] = "data" /\ Gets(c, "none")
            /\ at[c] = "reading" /\ \E q \in {"answered", "left"} : Goes(c, q)
            /\ UNCHANGED stopping

\* How a connection moves from place p, while nothing happens on its socket.
Moves(c, p) ==
    /\ \/ p = "nowhere" /\ ~stopping /\ Goes(c, "listening")
       \/ p = "listening" /\ waits[c] # "none" /\ Goes(c, "queued")
       \/ p = "queued" /\ waits[c] # "none" /\ Goes(c, "reading")
       \/ p = "left" /\ Goes(c, "answered")
       \/ p = "answered" /\ \E q \in {"listening", "closed"} : Goes(c, q)
       \/ p \in {"listening", "reading"} /\ waits[c] = "hup" /\ Goes(c, "closed")
    /\ UNCHANGED <<waits, stopping>>

Stop == ~stopping /\ stopping' = TRUE /\ UNCHANGED <<at, waits>>

\* All that wait in one place are closed at the end.
CloseAll(p) == /\ stopping
               /\ at' = [c \in Conns |-> IF at[c] = p THEN "closed" ELSE at[c]]
               /\ UNCHANGED <<waits, stopping>>

Next == \/ Stop \/ \E p \in {"listening", "queued"} : CloseAll(p)
        \/ \E c \in Conns : Ask(c) \/ HangUp(c) \/ Serve(c) \/ Moves(c, at[c])

Spec == Init /\ [][Next]_vars
=============================================================================
