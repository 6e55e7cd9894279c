------------------------ MODULE LoginThrottleHistory ------------------------
(***************************************************************************)
(* LoginThrottle with two history variables: the complete record of failed *)
(* sign-ins that the pruned, swept and capped tables stand for.  With them *)
(* the throttle is shown to implement LoginLimit.                          *)
(***************************************************************************)
EXTENDS LoginThrottle

CONSTANT MaxFailures    \* bound: failures recorded in a behaviour

VARIABLES
    ipLog,          \* every failure of an address since its last success
    userLog,        \* every failure of a username since its last success
    recorded        \* how many failures were recorded, for the bound

histVars == <<ipLog, userLog, recorded>>
vars == <<throttleVars, histVars>>

Limit == INSTANCE LoginLimit

HInit ==
    /\ Init
    /\ ipLog = [ip \in Ips |-> <<>>]
    /\ userLog = [u \in Users |-> <<>>]
    /\ recorded = 0

LogFailure(u, ip, t) ==
    /\ recorded < MaxFailures
    /\ recorded' = recorded + 1
    /\ ipLog' = Limit!Logged(ipLog, ip, t)
    /\ userLog' = Limit!Logged(userLog, u, t)

HTick == Tick /\ UNCHANGED histVars
HRefuse(ip) == Refuse(ip) /\ UNCHANGED histVars
HRejectOverLong(u, ip, t1) == RejectOverLong(u, ip, t1) /\ LogFailure(u, ip, t1)
HReject(u, ip, t1, t2) == Reject(u, ip, t1, t2) /\ LogFailure(u, ip, t1)
HWelcome(u, ip, t1) ==
    /\ Welcome(u, ip, t1)
    /\ ipLog' = Limit!Forgotten(ipLog, ip)
    /\ userLog' = Limit!Forgotten(userLog, u)
    /\ UNCHANGED recorded

HNext ==
    \/ HTick
    \/ \E ip \in Ips : HRefuse(ip)
    \/ \E u \in Users \cup {NoUser}, ip \in Ips \cup {NoIp}, t1 \in now..MaxClock :
        \/ HRejectOverLong(u, ip, t1)
        \/ HWelcome(u, ip, t1)
        \/ \E t2 \in t1..MaxClock : HReject(u, ip, t1, t2)

HSpec == HInit /\ [][HNext]_vars

----------------------------------------------------------------------------
\* The throttle gives exactly the answers (refusals, rejections and their delays,
\* successes) of a throttle that forgets nothing: pruning on lookup, sweeping an
\* oversized table and keeping only the newest _max_samples failures change no
\* decision (the claim of the comment in LoginThrottle.__init__).
AnswersAsUnbounded == Limit!Spec

\* What each table keeps of the complete record: its newest part, and what is missing
\* is either expired or older than a full set of samples.
Represents(s, log, t) ==
    \E d \in 0..Len(log) :
        /\ s = SubSeq(log, d + 1, Len(log))
        /\ d > 0 => log[d] + Window <= t \/ Len(s) >= MaxSamples

\* One list of a table beside the complete record it stands for, at time t.
Tracks(s, log, t) ==
    /\ Sample(s, t)
    /\ Sorted(log)
    /\ \A i \in 1..Len(log) : log[i] <= t
    /\ Represents(s, log, t)

TableTracks(table, log, keys, t) ==
    /\ table \in [keys -> Seq(Nat)]
    /\ log \in [keys -> Seq(Nat)]
    /\ \A k \in keys : Tracks(table[k], log[k], t)

\* The inductive invariant behind AnswersAsUnbounded: both tables stand for the
\* complete record, whatever lookups, sweeps and the sample cap have dropped.
HistoryInv ==
    /\ TypeOK
    /\ FailureBudget
    /\ TableTracks(byIp, ipLog, Ips, now)
    /\ TableTracks(byUser, userLog, Users, now)

=============================================================================
