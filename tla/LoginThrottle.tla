--------------------------- MODULE LoginThrottle ---------------------------
(***************************************************************************)
(* The brute-force throttle of POST /login (app/throttle.py) together with *)
(* the route that consults it (login_post in app/main.py).                 *)
(*                                                                         *)
(* Each table maps a key to the times of its recent failures, oldest       *)
(* first.  A key without an entry in the Python dict has the empty         *)
(* sequence here: the code never stores an empty list.                     *)
(*                                                                         *)
(* login_post reaches its first await after the form only once the failure *)
(* is recorded and the delay computed, so an attempt is one step of the    *)
(* single event loop.  Hashing the password takes time inside that step:   *)
(* the clock is read by locked(), again (t1) by record_failure() and again *)
(* (t2) by tarpit_delay().                                                 *)
(***************************************************************************)
EXTENDS Naturals, Sequences, FiniteSets

CONSTANTS
    Ips, NoIp, Users, NoUser,
    Window, HardMaxIp, TarpitFree, TarpitBase, TarpitCap,
    MaxKeys,        \* table size above which a lookup sweeps the whole table
    MaxClock        \* bound: the clock stops there

ASSUME KeysAssumption == NoIp \notin Ips /\ NoUser \notin Users
ASSUME LimitsAssumption ==
    /\ Window \in Nat \ {0}
    /\ HardMaxIp \in Nat \ {0}
    /\ TarpitFree \in Nat
    /\ TarpitBase \in Nat
    /\ TarpitCap \in Nat
    /\ MaxKeys \in Nat
    /\ MaxClock \in Nat

VARIABLES
    now,            \* time.monotonic(), in ticks
    byIp,           \* _by_ip
    byUser,         \* _by_user
    answer          \* the route's last reply: its kind and the delay before it

throttleVars == <<now, byIp, byUser, answer>>

----------------------------------------------------------------------------
\* math.ceil(tarpit_cap / tarpit_base), 0 when there is no ramp.
TarpitSpan ==
    IF TarpitBase = 0 THEN 0 ELSE (TarpitCap + TarpitBase - 1) \div TarpitBase

\* Mutant: the sample cap forgets that the tarpit ramp has to saturate.
MaxSamplesForLockOnly == HardMaxIp

\* _max_samples: enough newest failures to decide the lock and the full ramp.
MaxSamples ==
    (IF HardMaxIp > TarpitFree + TarpitSpan THEN HardMaxIp ELSE TarpitFree + TarpitSpan) + 1

\* How many times at the front of s are expired at time t: a time is live while it
\* is newer than t - Window.  The clock is monotonic, so s is sorted.
Expired(s, t) ==
    CHOOSE n \in 0..Len(s) : \A i \in 1..Len(s) : (s[i] + Window <= t) <=> (i <= n)

\* [x for x in table[k] if x > cutoff]
Live(s, t) == SubSeq(s, Expired(s, t) + 1, Len(s))

Tracked(table) == {k \in DOMAIN table : table[k] # <<>>}

\* The table after _recent(table, key, t - Window): key pruned, and every other key
\* too when the table is oversized.
Recent(table, key, t) ==
    [k \in DOMAIN table |->
        IF k = key \/ Cardinality(Tracked(table)) > MaxKeys
        THEN Live(table[k], t) ELSE table[k]]

\* Mutant: the newest samples are kept without a bound.
AllSamples(s) == s

\* Mutant: the cut drops the newest samples instead of the oldest.
OldestSamples(s) == IF Len(s) > MaxSamples THEN SubSeq(s, 1, MaxSamples) ELSE s

\* del live[:-_max_samples]
NewestSamples(s) ==
    IF Len(s) > MaxSamples THEN SubSeq(s, Len(s) - MaxSamples + 1, Len(s)) ELSE s

\* One table's half of record_failure: nothing for a blank username or address.
WithFailure(table, key, t) ==
    IF key \in DOMAIN table
    THEN [Recent(table, key, t) EXCEPT ![key] = NewestSamples(Append(@, t))]
    ELSE table

\* One table's half of record_success.
Cleared(table, key) == [k \in DOMAIN table |-> IF k = key THEN <<>> ELSE table[k]]

\* The verdict of locked(ip).
Locked(ip) == ip # NoIp /\ Len(Live(byIp[ip], now)) >= HardMaxIp

\* What locked(ip) leaves of the table: the lookup prunes.
AfterLocked(ip) == IF ip = NoIp THEN byIp ELSE Recent(byIp, ip, now)

\* The delay tarpit_delay() returns for n recent failures.
TarpitDelay(n) ==
    IF n <= TarpitFree THEN 0
    ELSE LET ramp == TarpitBase * (n - TarpitFree)
         IN  IF ramp < TarpitCap THEN ramp ELSE TarpitCap

----------------------------------------------------------------------------
Init ==
    /\ now = 0
    /\ byIp = [ip \in Ips |-> <<>>]
    /\ byUser = [u \in Users |-> <<>>]
    /\ answer = [kind |-> "none", delay |-> 0]

Tick ==
    /\ now < MaxClock
    /\ now' = now + 1
    /\ UNCHANGED <<byIp, byUser, answer>>

\* 429: the address is locked; nothing is hashed or recorded.
Refuse(ip) ==
    /\ Locked(ip)
    /\ byIp' = AfterLocked(ip)
    /\ answer' = [kind |-> "refused", delay |-> 0]
    /\ UNCHANGED <<now, byUser>>

\* Mutant: the over-long password is dealt with before the lock is consulted.
RejectOverLongUnchecked(u, ip, t1) ==
    /\ now' = t1
    /\ byIp' = WithFailure(AfterLocked(ip), ip, t1)
    /\ byUser' = WithFailure(byUser, u, t1)
    /\ answer' = [kind |-> "wrong", delay |-> 0]

\* An over-long password counts as a failure without reaching the KDF or the tarpit.
RejectOverLong(u, ip, t1) ==
    /\ ~Locked(ip)
    /\ now' = t1
    /\ byIp' = WithFailure(AfterLocked(ip), ip, t1)
    /\ byUser' = WithFailure(byUser, u, t1)
    /\ answer' = [kind |-> "wrong", delay |-> 0]

\* Unknown user or wrong password: recorded at t1, delayed by the tarpit at t2,
\* whose lookup prunes the username's table again.
Reject(u, ip, t1, t2) ==
    LET recorded == WithFailure(byUser, u, t1)
        looked   == Recent(recorded, u, t2)
    IN  /\ ~Locked(ip)
        /\ now' = t2
        /\ byIp' = WithFailure(AfterLocked(ip), ip, t1)
        /\ byUser' = IF u = NoUser THEN recorded ELSE looked
        /\ answer' = [kind |-> "wrong",
                      delay |-> IF u = NoUser THEN 0 ELSE TarpitDelay(Len(looked[u]))]

\* verify_login() succeeded, which a blank username never does.
Welcome(u, ip, t1) ==
    /\ ~Locked(ip)
    /\ u # NoUser
    /\ now' = t1
    /\ byIp' = Cleared(AfterLocked(ip), ip)
    /\ byUser' = Cleared(byUser, u)
    /\ answer' = [kind |-> "welcome", delay |-> 0]

Next ==
    \/ Tick
    \/ \E ip \in Ips : Refuse(ip)
    \/ \E u \in Users \cup {NoUser}, ip \in Ips \cup {NoIp}, t1 \in now..MaxClock :
        \/ RejectOverLong(u, ip, t1)
        \/ Welcome(u, ip, t1)
        \/ \E t2 \in t1..MaxClock : Reject(u, ip, t1, t2)

Spec == Init /\ [][Next]_throttleVars

----------------------------------------------------------------------------
Sorted(s) == \A i, j \in 1..Len(s) : i <= j => s[i] <= s[j]

\* A table entry as the code keeps it: failures of the past, oldest first, and no
\* more of them than _max_samples, however many were recorded (throttle.py, the cap
\* set up in __init__ against unbounded growth).
Sample(s, t) == Sorted(s) /\ Len(s) <= MaxSamples /\ \A i \in 1..Len(s) : s[i] <= t

\* Types, and the shape of every list the two tables hold.
TypeOK ==
    /\ now \in Nat
    /\ byIp \in [Ips -> Seq(Nat)]
    /\ byUser \in [Users -> Seq(Nat)]
    /\ \A ip \in Ips : Sample(byIp[ip], now)
    /\ \A u \in Users : Sample(byUser[u], now)
    /\ answer \in [kind : {"none", "refused", "wrong", "welcome"}, delay : 0..TarpitCap]

\* No address ever has more than HardMaxIp failures on record, because every path that
\* records one asks locked() first, in the same step (login_post): the lock stops
\* verification, it does not merely follow it.
FailureBudget == \A ip \in Ips : Len(byIp[ip]) <= HardMaxIp

=============================================================================
