------------------------------- MODULE Outbox -------------------------------
(***************************************************************************)
(* What the notification service promises of each accepted notification,    *)
(* with no leases, versions, workers, clocks or recovery: it stays open     *)
(* until it is delivered or dead, at most one HTTP request for it is under  *)
(* way at a time, a delivery cycle posts it at most MaxAttempts times, it   *)
(* is delivered only after an acknowledgement, it is settled only while no  *)
(* request is under way, and only a replay of a dead one starts a new cycle.*)
(***************************************************************************)
EXTENDS Naturals

CONSTANTS Notifications, MaxAttempts

VARIABLES status, posting, posts, acked

outboxVars == <<status, posting, posts, acked>>

Init ==
    /\ status = [n \in Notifications |-> "absent"]
    /\ posting = {}
    /\ posts = [n \in Notifications |-> 0]
    /\ acked = {}

Accept(n) ==
    /\ status[n] = "absent"
    /\ status' = [status EXCEPT ![n] = "open"]
    /\ UNCHANGED <<posting, posts, acked>>

Post(n) ==
    /\ status[n] = "open"
    /\ n \notin posting
    /\ posts[n] < MaxAttempts
    /\ posting' = posting \cup {n}
    /\ posts' = [posts EXCEPT ![n] = @ + 1]
    /\ UNCHANGED <<status, acked>>

(* The exchange ends: with an acknowledgement, a failure or a crash. *)
Answer(n) ==
    /\ n \in posting
    /\ posting' = posting \ {n}
    /\ acked' \in {acked, acked \cup {n}}
    /\ UNCHANGED <<status, posts>>

Settle(n) ==
    /\ status[n] = "open"
    /\ n \notin posting
    /\ \/ n \in acked /\ status' = [status EXCEPT ![n] = "delivered"]
       \/ status' = [status EXCEPT ![n] = "dead"]
    /\ UNCHANGED <<posting, posts, acked>>

Reopen(n) ==
    /\ status[n] = "dead"
    /\ n \notin posting
    /\ status' = [status EXCEPT ![n] = "open"]
    /\ posts' = [posts EXCEPT ![n] = 0]
    /\ acked' = acked \ {n}
    /\ UNCHANGED posting

Next == \E n \in Notifications :
            Accept(n) \/ Post(n) \/ Answer(n) \/ Settle(n) \/ Reopen(n)

Spec == Init /\ [][Next]_outboxVars
=============================================================================
