---------------------------- MODULE LoginLimit ----------------------------
(***************************************************************************)
(* What the login route promises about repeated failures, stated with the  *)
(* complete record of them: every failed sign-in is remembered with its    *)
(* time, per address and per username, until that identity signs in.       *)
(* Nothing is pruned, swept or capped here.  LoginThrottle, which does all *)
(* three, is shown to give the same answers.                               *)
(***************************************************************************)
EXTENDS Naturals, Sequences, FiniteSets

CONSTANTS
    Ips,            \* client addresses the socket can report
    NoIp,           \* the address is unknown
    Users,          \* usernames as submitted, casefolded
    NoUser,         \* the username field was blank
    Window,         \* sliding window, in ticks
    HardMaxIp,      \* failures from one address that lock it
    TarpitFree,     \* failures of a username that cost no delay
    TarpitBase,     \* delay added per further failure
    TarpitCap,      \* largest delay
    MaxClock        \* bound: the clock stops there

VARIABLES
    now,            \* the monotonic clock
    ipLog,          \* ipLog[ip]: times of ip's failures since its last success
    userLog,        \* userLog[u]: the same for a username
    answer          \* the route's last reply

limitVars == <<now, ipLog, userLog, answer>>

\* The failures of a log that still count at time t.
InWindow(log, t) == {i \in DOMAIN log : log[i] + Window > t}

Refused(ip) == ip # NoIp /\ Cardinality(InWindow(ipLog[ip], now)) >= HardMaxIp

RampedDelay(n) ==
    IF n <= TarpitFree THEN 0
    ELSE IF TarpitBase * (n - TarpitFree) < TarpitCap
         THEN TarpitBase * (n - TarpitFree)
         ELSE TarpitCap

\* log with one more failure of key at time t; an unknown key is not logged.
Logged(log, key, t) ==
    [k \in DOMAIN log |-> IF k = key THEN Append(log[k], t) ELSE log[k]]

Forgotten(log, key) == [k \in DOMAIN log |-> IF k = key THEN <<>> ELSE log[k]]

Init ==
    /\ now = 0
    /\ ipLog = [ip \in Ips |-> <<>>]
    /\ userLog = [u \in Users |-> <<>>]
    /\ answer = [kind |-> "none", delay |-> 0]

Tick ==
    /\ now < MaxClock
    /\ now' = now + 1
    /\ UNCHANGED <<ipLog, userLog, answer>>

\* A locked address is turned away whatever it submits.
Refuse(ip) ==
    /\ Refused(ip)
    /\ answer' = [kind |-> "refused", delay |-> 0]
    /\ UNCHANGED <<now, ipLog, userLog>>

\* A wrong password is logged at t1 and answered after the delay due at t2.
Reject(u, ip, t1, t2) ==
    /\ ~Refused(ip)
    /\ now' = t2
    /\ ipLog' = Logged(ipLog, ip, t1)
    /\ userLog' = Logged(userLog, u, t1)
    /\ answer' = [kind |-> "wrong",
                  delay |-> IF u = NoUser THEN 0
                            ELSE RampedDelay(Cardinality(InWindow(userLog'[u], t2)))]

\* A password too long to be hashed is logged too, and answered at once.
RejectOverLong(u, ip, t1) ==
    /\ ~Refused(ip)
    /\ now' = t1
    /\ ipLog' = Logged(ipLog, ip, t1)
    /\ userLog' = Logged(userLog, u, t1)
    /\ answer' = [kind |-> "wrong", delay |-> 0]

\* A right password clears the record of the username and of the address.
Welcome(u, ip, t1) ==
    /\ ~Refused(ip)
    /\ now' = t1
    /\ ipLog' = Forgotten(ipLog, ip)
    /\ userLog' = Forgotten(userLog, u)
    /\ answer' = [kind |-> "welcome", delay |-> 0]

Next ==
    \/ Tick
    \/ \E ip \in Ips : Refuse(ip)
    \/ \E u \in Users \cup {NoUser}, ip \in Ips \cup {NoIp}, t1 \in now..MaxClock :
        \/ RejectOverLong(u, ip, t1)
        \/ Welcome(u, ip, t1)
        \/ \E t2 \in t1..MaxClock : Reject(u, ip, t1, t2)

Spec == Init /\ [][Next]_limitVars

=============================================================================
