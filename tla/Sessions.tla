------------------------------ MODULE Sessions ------------------------------
(***************************************************************************)
(* Accounts, profiles and session cookies: the account half of             *)
(* app/store.py and the routes of app/main.py that sign in, sign out,      *)
(* pick and manage profiles, revoke sessions and create accounts, beside   *)
(* the reading routes, which write one profile's reading state.            *)
(*                                                                         *)
(* One event loop serves every request, so a handler is atomic between two *)
(* awaits.  A POST route checks the session on entry, awaits the form, and *)
(* then acts on that first check.  A reading route passes the gate, awaits *)
(* the upstream fetch, and looks the session up again when it writes.  A   *)
(* request is in flight from its check to the step that ends its await.    *)
(*                                                                         *)
(* Passwords are abstract: whether a submitted password is right is a free *)
(* choice.  Account and profile ids are 64-bit random tokens, here fresh.  *)
(* The sets AccountIds and ProfileIds bound how many are ever issued.      *)
(***************************************************************************)
EXTENDS Naturals, FiniteSets

CONSTANTS
    Browsers,       \* cookie jars
    Requests,       \* slots for requests in flight
    Users,          \* usernames, casefolded
    AccountIds, ProfileIds,
    NoUser,         \* the username of an id not issued yet
    NoProfile,      \* "" in the cookie: signed in, no profile picked yet
    NoCookie,       \* no session cookie, or a cleared one
    Sentinel,       \* _SENTINEL_PROFILE: the state shared without accounts
    Before,         \* tags state written before accounts were enabled
    MaxProfiles,    \* _MAX_PROFILES
    SessionTtl,     \* _SESSION_TTL, in ticks
    MaxClock,       \* bound: the clock stops there
    MaxVersion      \* bound: revocations of one account

ASSUME IdsAssumption ==
    /\ NoUser \notin Users
    /\ NoProfile \notin ProfileIds
    /\ Sentinel \notin ProfileIds
    /\ Before \notin AccountIds
ASSUME BoundsAssumption ==
    /\ MaxProfiles \in Nat \ {0}
    /\ SessionTtl \in Nat \ {0}
    /\ MaxClock \in Nat
    /\ MaxVersion \in Nat \ {0}

VARIABLES
    clock,          \* time.time()
    accounts,       \* ids of the accounts that exist
    username, admin, version, profiles,     \* their records
    issued,         \* profile ids handed out so far, deleted ones included
    written,        \* written[p]: whose requests wrote p's reading state
    jar,            \* the session cookie each browser holds
    flight          \* the requests being served

storeVars == <<accounts, username, admin, version, profiles, issued, written>>
vars == <<clock, storeVars, jar, flight>>

Cookie == [account : AccountIds, profile : ProfileIds \cup {NoProfile},
           version : 1..MaxVersion, expiry : 0..(MaxClock + SessionTtl)]

\* The routes told apart: "read" stands for every route that writes reading state.
Kinds == {"read", "profiles", "account", "setup"}

Idle == [kind |-> "idle"]
Request(kind, browser, cookie) == [kind |-> kind, browser |-> browser, cookie |-> cookie]

Waiting(r, kinds) == flight[r].kind \in kinds
Caller(r) == flight[r].cookie
Done(r) == flight' = [flight EXCEPT ![r] = Idle]

----------------------------------------------------------------------------
\* decode_session() and the checks on the stored account: neither expired nor revoked.
Valid(c) ==
    /\ c # NoCookie
    /\ c.expiry > clock
    /\ c.account \in accounts
    /\ c.version = version[c.account]

SignedIn(b) == Valid(jar[b])

\* Mutant: any account's profile will do.
BelongsToAnyone(a, p) == \E b \in accounts : p \in profiles[b]

\* profile_belongs(): the cross-account isolation check.
Belongs(a, p) == a \in accounts /\ p \in profiles[a]

\* The profile whose state a reading route touches: current_profile_id().
CurrentProfile(c) ==
    IF Valid(c) /\ Belongs(c.account, c.profile) THEN c.profile ELSE Sentinel

Mint(a, p, v) ==
    [account |-> a, profile |-> p, version |-> v, expiry |-> clock + SessionTtl]

SetCookie(r, a, p, v) == jar' = [jar EXCEPT ![flight[r].browser] = Mint(a, p, v)]

\* Mutant: whether the account is the first one is not looked up under the lock.
AdminsUnchecked(a) == admin \cup {a}

\* is_admin of a new account: true for the first one only.
AdminsWith(a) == IF accounts = {} THEN admin \cup {a} ELSE admin

\* Mutant: token versions start from 0.
NewAccountVersionZero(a, u, p) ==
    /\ a \in AccountIds \ accounts
    /\ \A b \in accounts : username[b] # u
    /\ p \in ProfileIds \ issued
    /\ accounts' = accounts \cup {a}
    /\ username' = [username EXCEPT ![a] = u]
    /\ admin' = AdminsWith(a)
    /\ version' = [version EXCEPT ![a] = 0]
    /\ profiles' = [profiles EXCEPT ![a] = {p}]
    /\ issued' = issued \cup {p}

\* create_account() and the add_profile() that follows it in the same step.
NewAccount(a, u, p) ==
    /\ a \in AccountIds \ accounts
    /\ \A b \in accounts : username[b] # u
    /\ p \in ProfileIds \ issued
    /\ accounts' = accounts \cup {a}
    /\ username' = [username EXCEPT ![a] = u]
    /\ admin' = AdminsWith(a)
    /\ version' = [version EXCEPT ![a] = 1]
    /\ profiles' = [profiles EXCEPT ![a] = {p}]
    /\ issued' = issued \cup {p}

\* migrate_global_state_into(p).
AdoptGlobalState(p) ==
    written' = IF written[Sentinel] # {} /\ written[p] = {}
               THEN [written EXCEPT ![p] = written[Sentinel], ![Sentinel] = {}]
               ELSE written

----------------------------------------------------------------------------
\* The first start with accounts on: there may be state from before.
Fresh ==
    /\ accounts = {}
    /\ username = [a \in AccountIds |-> NoUser]
    /\ admin = {}
    /\ profiles = [a \in AccountIds |-> {}]
    /\ issued = {}
    /\ \E before \in SUBSET {Before} :
        written = [p \in ProfileIds \cup {Sentinel} |-> IF p = Sentinel THEN before ELSE {}]

\* A later start: setup is long done, nobody is signed in.
Settled ==
    \E a \in AccountIds, u \in Users, p \in ProfileIds :
        /\ accounts = {a}
        /\ username = [b \in AccountIds |-> IF b = a THEN u ELSE NoUser]
        /\ admin = {a}
        /\ profiles = [b \in AccountIds |-> IF b = a THEN {p} ELSE {}]
        /\ issued = {p}
        /\ written = [q \in ProfileIds \cup {Sentinel} |-> IF q = p THEN {Before} ELSE {}]

Quiet ==
    /\ clock = 0
    /\ version = [a \in AccountIds |-> 1]
    /\ jar = [b \in Browsers |-> NoCookie]
    /\ flight = [r \in Requests |-> Idle]

FreshInit == Fresh /\ Quiet
SettledInit == Settled /\ Quiet

Tick ==
    /\ clock < MaxClock
    /\ clock' = clock + 1
    /\ UNCHANGED <<storeVars, jar, flight>>

\* POST /login with the right password.  It awaits its form before it looks at any
\* account, and accounts are never deleted: one step.
Login(b, a) ==
    /\ a \in accounts
    /\ jar' = [jar EXCEPT ![b] = Mint(a, NoProfile, version[a])]
    /\ UNCHANGED <<clock, storeVars, flight>>

\* The gate lets a request of a signed-in browser through; all routes but the profile
\* picker need a profile of the account.  POST /profiles and POST /account check the
\* session again on entry, before the form; the cookie is what they keep of it, since
\* the other fields they go on to use (the id, the name, is_admin) never change.
Arrive(r, b, kind) ==
    /\ flight[r] = Idle
    /\ SignedIn(b)
    /\ kind = "profiles" \/ Belongs(jar[b].account, jar[b].profile)
    /\ flight' = [flight EXCEPT ![r] = Request(kind, b, jar[b])]
    /\ UNCHANGED <<clock, storeVars, jar>>

\* POST /setup: the gate is open and has_accounts() is false.
ArriveSetup(r, b) ==
    /\ flight[r] = Idle
    /\ accounts = {}
    /\ flight' = [flight EXCEPT ![r] = Request("setup", b, NoCookie)]
    /\ UNCHANGED <<clock, storeVars, jar>>

\* Redirected, refused (no CSRF token, not available, wrong password, bad name), a page
\* that only reads, or a client that went away.
TurnAway(r) ==
    /\ flight[r] # Idle
    /\ Done(r)
    /\ UNCHANGED <<clock, storeVars, jar>>

\* The rest of POST /setup, after the form.
Setup(r, a, u, p) ==
    /\ Waiting(r, {"setup"})
    /\ NewAccount(a, u, p)
    /\ AdoptGlobalState(p)
    /\ SetCookie(r, a, p, 1)
    /\ Done(r)
    /\ UNCHANGED clock

\* POST /account, action create_account: is_admin is the snapshot's.
CreateAccount(r, a, u, p) ==
    /\ Waiting(r, {"account"})
    /\ Caller(r).account \in admin
    /\ NewAccount(a, u, p)
    /\ Done(r)
    /\ UNCHANGED <<clock, written, jar>>

\* POST /profiles, action add, and POST /account, action add_profile.
AddProfile(r, p) ==
    LET a == Caller(r).account IN
    /\ Waiting(r, {"profiles", "account"})
    /\ Cardinality(profiles[a]) < MaxProfiles
    /\ p \in ProfileIds \ issued
    /\ profiles' = [profiles EXCEPT ![a] = @ \cup {p}]
    /\ issued' = issued \cup {p}
    /\ Done(r)
    /\ UNCHANGED <<clock, accounts, username, admin, version, written, jar>>

\* Mutant: the profile picked is not looked up in the account.
SelectAnyProfile(r, p) ==
    LET c == Caller(r) IN
    /\ Waiting(r, {"profiles"})
    /\ p \in issued
    /\ SetCookie(r, c.account, p, c.version)
    /\ Done(r)
    /\ UNCHANGED <<clock, storeVars>>

\* Mutant: the cookie is minted with the account's version of now.
SelectProfileFreshVersion(r, p) ==
    LET c == Caller(r) IN
    /\ Waiting(r, {"profiles"})
    /\ Belongs(c.account, p)
    /\ SetCookie(r, c.account, p, version[c.account])
    /\ Done(r)
    /\ UNCHANGED <<clock, storeVars>>

\* POST /profiles: pick a profile.  The new cookie has the snapshot's version.
SelectProfile(r, p) ==
    LET c == Caller(r) IN
    /\ Waiting(r, {"profiles"})
    /\ Belongs(c.account, p)
    /\ SetCookie(r, c.account, p, c.version)
    /\ Done(r)
    /\ UNCHANGED <<clock, storeVars>>

\* Mutant: the last profile may go.
DeleteProfileEvenLast(r, p) ==
    LET a == Caller(r).account IN
    /\ Waiting(r, {"account"})
    /\ Belongs(a, p)
    /\ profiles' = [profiles EXCEPT ![a] = @ \ {p}]
    /\ written' = [written EXCEPT ![p] = {}]
    /\ Done(r)
    /\ UNCHANGED <<clock, accounts, username, admin, version, issued, jar>>

\* Mutant: the profile's reading state stays behind.
DeleteProfileKeepState(r, p) ==
    LET a == Caller(r).account IN
    /\ Waiting(r, {"account"})
    /\ Belongs(a, p)
    /\ Cardinality(profiles[a]) > 1
    /\ profiles' = [profiles EXCEPT ![a] = @ \ {p}]
    /\ Done(r)
    /\ UNCHANGED <<clock, accounts, username, admin, version, issued, written, jar>>

\* POST /account, action delete_profile: never the last one; its state goes with it.
DeleteProfile(r, p) ==
    LET a == Caller(r).account IN
    /\ Waiting(r, {"account"})
    /\ Belongs(a, p)
    /\ Cardinality(profiles[a]) > 1
    /\ profiles' = [profiles EXCEPT ![a] = @ \ {p}]
    /\ written' = [written EXCEPT ![p] = {}]
    /\ Done(r)
    /\ UNCHANGED <<clock, accounts, username, admin, version, issued, jar>>

\* POST /account, actions password and signout_all: every cookie of the account is
\* revoked, and this browser gets a new one.
Revoke(r) ==
    LET c == Caller(r) IN
    /\ Waiting(r, {"account"})
    /\ version[c.account] < MaxVersion
    /\ version' = [version EXCEPT ![c.account] = @ + 1]
    /\ SetCookie(r, c.account, c.profile, version[c.account] + 1)
    /\ Done(r)
    /\ UNCHANGED <<clock, accounts, username, admin, profiles, issued, written>>

\* POST /logout clears this browser's cookie, whatever it has become since the gate let
\* the request through, and revokes nothing.
Logout(b) ==
    /\ jar[b] # NoCookie
    /\ jar' = [jar EXCEPT ![b] = NoCookie]
    /\ UNCHANGED <<clock, storeVars, flight>>

\* A reading route, its fetch done, writes a position, a bookmark, a favorite...
WriteState(r) ==
    /\ Waiting(r, {"read"})
    /\ written' = [written EXCEPT ![CurrentProfile(Caller(r))] = @ \cup {Caller(r).account}]
    /\ Done(r)
    /\ UNCHANGED <<clock, accounts, username, admin, version, profiles, issued, jar>>

Next ==
    \/ Tick
    \/ \E b \in Browsers : Logout(b) \/ \E a \in AccountIds : Login(b, a)
    \/ \E r \in Requests :
        \/ \E b \in Browsers : ArriveSetup(r, b)
        \/ \E b \in Browsers, kind \in Kinds \ {"setup"} : Arrive(r, b, kind)
        \/ TurnAway(r) \/ Revoke(r) \/ WriteState(r)
        \/ \E p \in ProfileIds : AddProfile(r, p) \/ SelectProfile(r, p) \/ DeleteProfile(r, p)
        \/ \E a \in AccountIds, u \in Users, p \in ProfileIds :
            Setup(r, a, u, p) \/ CreateAccount(r, a, u, p)

FreshSpec == FreshInit /\ [][Next]_vars
SettledSpec == SettledInit /\ [][Next]_vars

----------------------------------------------------------------------------
\* Every cookie the server has minted and somebody still holds.
Held == {jar[b] : b \in Browsers}
        \cup {Caller(r) : r \in {q \in Requests : flight[q] # Idle}}
Cookies == Held \ {NoCookie}

\* The types.
TypeOK ==
    /\ clock \in 0..MaxClock
    /\ accounts \subseteq AccountIds
    /\ username \in [AccountIds -> Users \cup {NoUser}]
    /\ admin \subseteq accounts
    /\ version \in [AccountIds -> 1..MaxVersion]
    /\ profiles \in [AccountIds -> SUBSET ProfileIds]
    /\ issued \subseteq ProfileIds
    /\ written \in [ProfileIds \cup {Sentinel} -> SUBSET (AccountIds \cup {Before})]
    /\ jar \in [Browsers -> Cookie \cup {NoCookie}]
    /\ flight \in [Requests ->
            {Idle} \cup [kind : Kinds, browser : Browsers, cookie : Cookie \cup {NoCookie}]]

\* However many POST /setup wait for their form at once, exactly one account is the
\* admin, and no two accounts answer to one username (create_account decides both under
\* the store's lock, long after the route's own has_accounts()).
OneAdmin ==
    /\ accounts # {} => \E a \in admin : admin = {a}
    /\ \A a, b \in accounts : username[a] = username[b] => a = b

\* An account keeps a profile to sign in to, and no more than _MAX_PROFILES, whatever
\* deletions and additions of its devices are in flight together.
ProfileCount == \A a \in accounts : Cardinality(profiles[a]) \in 1..MaxProfiles

\* No reading state without its profile: a write whose profile was deleted while the
\* request waited does not bring the profile's state back (_pstate would create it).
NoOrphanState ==
    \A p \in ProfileIds : written[p] # {} => \E a \in accounts : p \in profiles[a]

\* A cookie never names a profile of another account, nor a version its account has not
\* reached: a cookie minted from an old snapshot is as revoked as the snapshot.
CookiesAreOwn ==
    \A c \in Cookies :
        /\ c.account \in accounts
        /\ c.version <= version[c.account]
        /\ \A a \in accounts \ {c.account} : c.profile \notin profiles[a]

\* Once setup is done, what a profile's reading state holds was written by requests of
\* its own account, or before there were accounts.
ProfileIsolation ==
    \A a \in accounts : \A p \in profiles[a] : written[p] \subseteq {a, Before}

\* A step that gives browser b a live cookie for a session that is not new: nobody
\* signed in or set up an account.
Renews(b) ==
    /\ jar'[b] # jar[b]
    /\ SignedIn(b)'
    /\ jar'[b].profile # NoProfile
    /\ accounts' = accounts

\* Some request waiting for its form has a cookie of this account that is not revoked.
HasStanding(a) ==
    \E r \in Requests : /\ Waiting(r, {"profiles", "account"})
                        /\ Caller(r).account = a
                        /\ Caller(r).version = version[a]

\* Picking a profile renews no revoked session: a request that waited for its form while
\* its session was revoked mints a cookie that is revoked already.
PickingRevivesNothing ==
    [][\A b \in Browsers : Renews(b) /\ version' = version => HasStanding(jar'[b].account)]_vars

=============================================================================
