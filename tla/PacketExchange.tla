--------------------------- MODULE PacketExchange ---------------------------
(***************************************************************************)
(* What qcpu_device_io.c promises to the code above it: a conversation of  *)
(* one request and one response in which a packet is handed over as a      *)
(* whole or not at all, and every call reports which of the two happened.  *)
(* The adapter and the daemon are modelled with exactly these steps.       *)
(***************************************************************************)
VARIABLES
    call,    \* the call each party is in, "done" once it has closed its end
    sent,    \* sent[p]: the whole packet of p has been handed to the socket
    result   \* what each call of each party returned

vars == <<call, sent, result>>

Party == {"client", "daemon"}
Calls == {"write", "read"}
Failures == {"ERROR", "TIMEOUT", "STOPPED"}

Peer(p) == IF p = "client" THEN "daemon" ELSE "client"
First(p) == IF p = "client" THEN "write" ELSE "read"
After(p, c) == IF c # First(p) THEN "done" ELSE IF c = "write" THEN "read" ELSE "write"

Init ==
    /\ call = [p \in Party |-> First(p)]
    /\ sent = [p \in Party |-> FALSE]
    /\ result = [p \in Party |-> [c \in Calls |-> "none"]]

\* The last byte of p's packet enters the socket; the call must now succeed.
Handover(p) ==
    /\ call[p] = "write" /\ ~sent[p]
    /\ sent' = [sent EXCEPT ![p] = TRUE]
    /\ UNCHANGED <<call, result>>

\* A call succeeds: a write whose packet is handed over, a read whose peer has
\* handed over its packet.
Succeed(p) ==
    /\ call[p] # "done"
    /\ sent[IF call[p] = "write" THEN p ELSE Peer(p)]
    /\ result' = [result EXCEPT ![p][call[p]] = "OK"]
    /\ call' = [call EXCEPT ![p] = After(p, @)]
    /\ UNCHANGED sent

\* A call fails and the party gives the conversation up.
Fail(p) ==
    /\ call[p] # "done"
    /\ call[p] = "write" => ~sent[p]
    /\ \E s \in Failures : result' = [result EXCEPT ![p][call[p]] = s]
    /\ call' = [call EXCEPT ![p] = "done"]
    /\ UNCHANGED sent

Next == \E p \in Party : Handover(p) \/ Succeed(p) \/ Fail(p)

Spec == Init /\ [][Next]_vars
=============================================================================
