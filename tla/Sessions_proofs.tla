-------------------------- MODULE Sessions_proofs --------------------------
(***************************************************************************)
(* Proofs about Sessions, for every value of its constants.                *)
(*                                                                         *)
(* Inv, the inductive invariant, adds to the properties what they rest on: *)
(* profile ids are issued once, so accounts share none; ids not issued yet *)
(* own nothing; every cookie in a jar or in a request in flight is OfIts   *)
(* account.  It holds from either initial condition.  ProfileIsolation     *)
(* needs more: that no POST /setup is still waiting (SettledInv).          *)
(***************************************************************************)
EXTENDS Sessions, FiniteSetTheorems, TLAPS

\* A cookie as the server mints it, seen against the accounts A, their versions V and
\* profiles P and the profile ids issued I.
OfIts(c, A, V, P, I) ==
    /\ c \in Cookie
    /\ c.account \in A
    /\ c.version <= V[c.account]
    /\ c.profile \in I \cup {NoProfile}
    /\ \A a \in A \ {c.account} : c.profile \notin P[a]

\* Who owns which profile.
Ownership ==
    /\ \A a \in AccountIds : profiles[a] \subseteq issued /\ IsFiniteSet(profiles[a])
    /\ \A a \in AccountIds \ accounts : profiles[a] = {}
    /\ \A a, b \in AccountIds : a # b => profiles[a] \cap profiles[b] = {}

CookiesInv ==
    /\ \A b \in Browsers : jar[b] = NoCookie \/ OfIts(jar[b], accounts, version, profiles, issued)
    /\ \A r \in Requests :
        \/ flight[r] = Idle
        \/ flight[r].kind = "setup" /\ Caller(r) = NoCookie
        \/ flight[r].kind # "setup" /\ OfIts(Caller(r), accounts, version, profiles, issued)

Inv ==
    /\ TypeOK
    /\ OneAdmin
    /\ Ownership
    /\ ProfileCount
    /\ NoOrphanState
    /\ CookiesInv

SettledInv ==
    /\ accounts # {}
    /\ \A r \in Requests : flight[r].kind # "setup"
    /\ ProfileIsolation

----------------------------------------------------------------------------
\* What the actions of a waiting request can rely on.
LEMMA Waiter ==
    ASSUME TypeOK, CookiesInv, NEW r \in Requests, flight[r] # Idle
    PROVE  /\ flight[r].kind \in Kinds /\ flight[r].browser \in Browsers
           /\ Caller(r) \in Cookie \cup {NoCookie}
           /\ flight[r].kind # "setup" => /\ OfIts(Caller(r), accounts, version, profiles, issued)
                                          /\ Caller(r).account \in accounts
                                          /\ Caller(r).account \in AccountIds
                                          /\ Caller(r).profile \in ProfileIds \cup {NoProfile}
                                          /\ Caller(r).version \in 1..MaxVersion
<1>1. flight[r] \in [kind : Kinds, browser : Browsers, cookie : Cookie \cup {NoCookie}]
  BY DEF TypeOK
<1>2. flight[r].kind # "setup" => OfIts(Caller(r), accounts, version, profiles, issued)
  BY DEF CookiesInv
<1>. QED BY <1>1, <1>2 DEF Caller, OfIts, Cookie, TypeOK

LEMMA IdleKind == Idle.kind = "idle" /\ Idle.kind \notin Kinds
BY DEF Idle, Kinds

LEMMA WaitingIsBusy ==
    ASSUME NEW r \in Requests, NEW K, K \subseteq Kinds, Waiting(r, K)
    PROVE  flight[r] # Idle /\ flight[r].kind \in K
BY IdleKind DEF Waiting

\* A cookie minted now has the type of cookies.
LEMMA MintType ==
    ASSUME TypeOK, NEW a \in AccountIds, NEW p \in ProfileIds \cup {NoProfile},
           NEW v \in 1..MaxVersion
    PROVE  /\ Mint(a, p, v) \in Cookie
           /\ Mint(a, p, v).account = a
           /\ Mint(a, p, v).profile = p
           /\ Mint(a, p, v).version = v
<1>1. clock + SessionTtl \in 0..(MaxClock + SessionTtl)
  BY BoundsAssumption DEF TypeOK
<1>. QED BY <1>1 DEF Mint, Cookie

----------------------------------------------------------------------------
\* Either initial condition establishes the invariant.
LEMMA InitInv == FreshInit \/ SettledInit => Inv
<1>. SUFFICES ASSUME Fresh \/ Settled, Quiet PROVE Inv
  BY DEF FreshInit, SettledInit
<1>1. CookiesInv
  BY DEF Quiet, CookiesInv
<1>2. CASE Fresh
  <2>1. TypeOK
    BY <1>2, BoundsAssumption DEF Fresh, Quiet, TypeOK, Idle, Kinds
  <2>2. OneAdmin /\ ProfileCount /\ NoOrphanState
    BY <1>2, IdsAssumption DEF Fresh, OneAdmin, ProfileCount, NoOrphanState
  <2>3. Ownership
    BY <1>2, FS_EmptySet DEF Fresh, Ownership
  <2>. QED BY <1>1, <2>1, <2>2, <2>3 DEF Inv
<1>3. CASE Settled
  <2>1. PICK a \in AccountIds, u \in Users, p \in ProfileIds :
          /\ accounts = {a}
          /\ username = [b \in AccountIds |-> IF b = a THEN u ELSE NoUser]
          /\ admin = {a}
          /\ profiles = [b \in AccountIds |-> IF b = a THEN {p} ELSE {}]
          /\ issued = {p}
          /\ written = [q \in ProfileIds \cup {Sentinel} |-> IF q = p THEN {Before} ELSE {}]
    BY <1>3 DEF Settled
  <2>2. TypeOK
    BY <2>1, BoundsAssumption DEF Quiet, TypeOK, Idle, Kinds
  <2>3. IsFiniteSet({p}) /\ Cardinality({p}) = 1
    BY FS_Singleton
  <2>4. OneAdmin /\ NoOrphanState
    BY <2>1, IdsAssumption DEF OneAdmin, NoOrphanState
  <2>5. ProfileCount
    BY <2>1, <2>3, BoundsAssumption DEF ProfileCount
  <2>6. Ownership
    BY <2>1, <2>3, FS_EmptySet DEF Ownership
  <2>. QED BY <1>1, <2>2, <2>4, <2>5, <2>6 DEF Inv
<1>. QED BY <1>2, <1>3

----------------------------------------------------------------------------
\* The account NewAccount adds, beside the others.
LEMMA NewAccountKeeps ==
    ASSUME Inv, NEW a \in AccountIds, NEW u \in Users, NEW p \in ProfileIds,
           NewAccount(a, u, p)
    PROVE  /\ accounts' \subseteq AccountIds /\ admin' \subseteq accounts'
           /\ username' \in [AccountIds -> Users \cup {NoUser}]
           /\ version' \in [AccountIds -> 1..MaxVersion]
           /\ profiles' \in [AccountIds -> SUBSET ProfileIds]
           /\ issued' \subseteq ProfileIds
           /\ OneAdmin' /\ Ownership' /\ ProfileCount'
<1>. USE DEF NewAccount, Inv
<1>1. /\ accounts' \subseteq AccountIds /\ admin' \subseteq accounts'
      /\ username' \in [AccountIds -> Users \cup {NoUser}]
      /\ version' \in [AccountIds -> 1..MaxVersion]
      /\ profiles' \in [AccountIds -> SUBSET ProfileIds]
      /\ issued' \subseteq ProfileIds
  BY BoundsAssumption DEF TypeOK, AdminsWith
<1>2. OneAdmin'
  BY DEF OneAdmin, TypeOK, AdminsWith
<1>3. /\ profiles'[a] = {p} /\ IsFiniteSet({p}) /\ Cardinality({p}) = 1
      /\ \A b \in AccountIds \ {a} : profiles'[b] = profiles[b]
  BY FS_Singleton DEF TypeOK
<1>4. Ownership'
  <2>1. \A b \in AccountIds : profiles'[b] \subseteq issued' /\ IsFiniteSet(profiles'[b])
    BY <1>3 DEF Ownership
  <2>2. \A b \in AccountIds \ accounts' : profiles'[b] = {}
    BY <1>3 DEF Ownership
  <2>3. \A b, c \in AccountIds : b # c => profiles'[b] \cap profiles'[c] = {}
    BY <1>3 DEF Ownership
  <2>. QED BY <2>1, <2>2, <2>3 DEF Ownership
<1>5. ProfileCount'
  <2>1. ASSUME NEW b \in accounts' PROVE Cardinality(profiles'[b]) \in 1..MaxProfiles
    BY <1>3, BoundsAssumption DEF ProfileCount, TypeOK
  <2>. QED BY <2>1 DEF ProfileCount
<1>. QED BY <1>1, <1>2, <1>4, <1>5

\* The store's share of the invariant survives a step that does not touch the store.
LEMMA StoreStable ==
    ASSUME Inv, UNCHANGED storeVars
    PROVE  OneAdmin' /\ Ownership' /\ ProfileCount' /\ NoOrphanState'
BY DEF Inv, storeVars, OneAdmin, Ownership, ProfileCount, NoOrphanState

\* Nothing already minted becomes wrong: accounts, versions and issued ids only grow, and
\* an account gains no profile but a fresh one.
Grows ==
    /\ accounts \subseteq accounts' /\ accounts' \subseteq AccountIds
    /\ version \in [AccountIds -> 1..MaxVersion] /\ version' \in [AccountIds -> 1..MaxVersion]
    /\ \A a \in accounts : version[a] <= version'[a]
    /\ issued \subseteq issued'
    /\ \A a \in accounts' : \A q \in profiles'[a] :
        (a \in accounts /\ q \in profiles[a]) \/ q \in ProfileIds \ issued

LEMMA OfItsStable ==
    ASSUME Grows, NEW c, OfIts(c, accounts, version, profiles, issued)
    PROVE  OfIts(c, accounts', version', profiles', issued')
<1>1. /\ c \in Cookie /\ c.account \in accounts' /\ c.profile \in issued' \cup {NoProfile}
  BY DEF OfIts, Grows
<1>2. c.version <= version'[c.account]
  <2>1. /\ c.version \in 1..MaxVersion /\ version[c.account] \in 1..MaxVersion
        /\ version'[c.account] \in 1..MaxVersion
    BY <1>1 DEF OfIts, Grows, Cookie
  <2>. QED BY <2>1, BoundsAssumption DEF OfIts, Grows
<1>3. \A a \in accounts' \ {c.account} : c.profile \notin profiles'[a]
  BY IdsAssumption DEF OfIts, Grows
<1>. QED BY <1>1, <1>2, <1>3 DEF OfIts

LEMMA CookiesStep ==
    ASSUME CookiesInv, Grows,
           \A b \in Browsers :
             \/ jar'[b] \in {jar[b], NoCookie}
             \/ OfIts(jar'[b], accounts', version', profiles', issued'),
           \A r \in Requests :
             \/ flight'[r] \in {flight[r], Idle}
             \/ flight'[r].kind = "setup" /\ flight'[r].cookie = NoCookie
             \/ /\ flight'[r].kind # "setup"
                /\ OfIts(flight'[r].cookie, accounts', version', profiles', issued')
    PROVE  CookiesInv'
<1>1. ASSUME NEW b \in Browsers
      PROVE  jar'[b] = NoCookie \/ OfIts(jar'[b], accounts', version', profiles', issued')
  BY OfItsStable DEF CookiesInv
<1>2. ASSUME NEW r \in Requests
      PROVE  \/ flight'[r] = Idle
             \/ flight'[r].kind = "setup" /\ flight'[r].cookie = NoCookie
             \/ /\ flight'[r].kind # "setup"
                /\ OfIts(flight'[r].cookie, accounts', version', profiles', issued')
  BY OfItsStable DEF CookiesInv, Caller
<1>. QED BY <1>1, <1>2 DEF CookiesInv, Caller

\* A step that leaves the accounts alone is one that Grows.
LEMMA StoreGrows ==
    ASSUME Inv, UNCHANGED <<accounts, version, profiles, issued>>
    PROVE  Grows
BY BoundsAssumption DEF Inv, Grows, TypeOK

----------------------------------------------------------------------------
\* The actions that leave the store alone, then those that change it.
LEMMA TickKeeps == ASSUME Inv, Tick PROVE Inv'
<1>1. TypeOK'
  BY BoundsAssumption DEF Inv, TypeOK, Tick, storeVars
<1>2. CookiesInv'
  BY StoreGrows, CookiesStep DEF Inv, Tick, storeVars
<1>. QED BY <1>1, <1>2, StoreStable DEF Inv, Tick

LEMMA LoginKeeps ==
    ASSUME Inv, NEW b \in Browsers, NEW a \in AccountIds, Login(b, a)
    PROVE  Inv'
<1>. DEFINE c == Mint(a, NoProfile, version[a])
<1>0. a \in accounts /\ jar' = [jar EXCEPT ![b] = c] /\ UNCHANGED <<clock, storeVars, flight>>
  BY DEF Login
<1>2. version[a] \in 1..MaxVersion /\ NoProfile \in ProfileIds \cup {NoProfile}
  BY DEF Inv, TypeOK
<1>1. c \in Cookie /\ c.account = a /\ c.profile = NoProfile /\ c.version = version[a]
  BY <1>2, MintType DEF Inv
<1>. HIDE DEF c
<1>3. TypeOK'
  BY <1>0, <1>1 DEF Inv, TypeOK, storeVars
<1>4. OfIts(c, accounts', version', profiles', issued')
  <2>1. \A x \in AccountIds : NoProfile \notin profiles[x]
    BY IdsAssumption DEF Inv, TypeOK
  <2>. QED BY <1>0, <1>1, <1>2, <2>1, BoundsAssumption DEF OfIts, storeVars, Inv, TypeOK
<1>5. CookiesInv'
  <2>1. \A x \in Browsers : jar'[x] = jar[x] \/ jar'[x] = c
    BY <1>0 DEF Inv, TypeOK
  <2>. QED BY <1>0, <1>4, <2>1, StoreGrows, CookiesStep DEF Inv, storeVars
<1>. QED BY <1>0, <1>3, <1>5, StoreStable DEF Inv

LEMMA LogoutKeeps ==
    ASSUME Inv, NEW b \in Browsers, Logout(b)
    PROVE  Inv'
<1>0. jar' = [jar EXCEPT ![b] = NoCookie] /\ UNCHANGED <<clock, storeVars, flight>>
  BY DEF Logout
<1>1. TypeOK'
  BY <1>0 DEF Inv, TypeOK, storeVars
<1>2. CookiesInv'
  <2>1. \A x \in Browsers : jar'[x] = jar[x] \/ jar'[x] = NoCookie
    BY <1>0 DEF Inv, TypeOK
  <2>. QED BY <1>0, <2>1, StoreGrows, CookiesStep DEF Inv, storeVars
<1>. QED BY <1>0, <1>1, <1>2, StoreStable DEF Inv

\* A request admitted, of either kind, and a request that ends.
LEMMA FlightKeeps ==
    ASSUME Inv, NEW r \in Requests, NEW q, flight' = [flight EXCEPT ![r] = q],
           UNCHANGED <<clock, storeVars, jar>>,
           \/ q = Idle
           \/ /\ q \in [kind : Kinds, browser : Browsers, cookie : Cookie \cup {NoCookie}]
              /\ \/ q.kind = "setup" /\ q.cookie = NoCookie
                 \/ /\ q.kind # "setup"
                    /\ OfIts(q.cookie, accounts, version, profiles, issued)
    PROVE  Inv'
<1>1. TypeOK'
  BY DEF Inv, TypeOK, storeVars
<1>2. \A x \in Requests : flight'[x] = flight[x] \/ flight'[x] = q
  BY DEF Inv, TypeOK
<1>3. CookiesInv'
  BY <1>2, StoreGrows, CookiesStep DEF Inv, storeVars
<1>. QED BY <1>1, <1>3, StoreStable DEF Inv

LEMMA ArriveKeeps ==
    ASSUME Inv, NEW r \in Requests, NEW b \in Browsers, NEW kind \in Kinds \ {"setup"},
           Arrive(r, b, kind)
    PROVE  Inv'
<1>. DEFINE q == Request(kind, b, jar[b])
<1>1. /\ q \in [kind : Kinds, browser : Browsers, cookie : Cookie \cup {NoCookie}]
      /\ q.kind = kind /\ q.cookie = jar[b] /\ jar[b] # NoCookie
  BY DEF Inv, TypeOK, Request, Arrive, SignedIn, Valid
<1>2. OfIts(q.cookie, accounts, version, profiles, issued)
  BY <1>1 DEF Inv, CookiesInv
<1>3. flight' = [flight EXCEPT ![r] = q] /\ UNCHANGED <<clock, storeVars, jar>>
  BY DEF Arrive
<1>. HIDE DEF q
<1>. QED BY <1>1, <1>2, <1>3, FlightKeeps

LEMMA ArriveSetupKeeps ==
    ASSUME Inv, NEW r \in Requests, NEW b \in Browsers, ArriveSetup(r, b)
    PROVE  Inv'
<1>. DEFINE q == Request("setup", b, NoCookie)
<1>1. /\ q \in [kind : Kinds, browser : Browsers, cookie : Cookie \cup {NoCookie}]
      /\ q.kind = "setup" /\ q.cookie = NoCookie
  BY DEF Request, Kinds
<1>2. flight' = [flight EXCEPT ![r] = q] /\ UNCHANGED <<clock, storeVars, jar>>
  BY DEF ArriveSetup
<1>. HIDE DEF q
<1>. QED BY <1>1, <1>2, FlightKeeps

LEMMA TurnAwayKeeps ==
    ASSUME Inv, NEW r \in Requests, TurnAway(r)
    PROVE  Inv'
BY FlightKeeps DEF TurnAway, Done

\* A finished request leaves its slot idle, and a minted cookie goes to its browser.
LEMMA EndOfRequest ==
    ASSUME Inv, NEW r \in Requests, Done(r)
    PROVE  /\ flight' \in [Requests -> {Idle} \cup
                [kind : Kinds, browser : Browsers, cookie : Cookie \cup {NoCookie}]]
           /\ \A x \in Requests : flight'[x] \in {flight[x], Idle}
BY DEF Inv, TypeOK, Done

LEMMA CookieSet ==
    ASSUME Inv, NEW r \in Requests, flight[r] # Idle,
           NEW a \in AccountIds, NEW p \in ProfileIds \cup {NoProfile},
           NEW v \in 1..MaxVersion, SetCookie(r, a, p, v)
    PROVE  /\ jar' \in [Browsers -> Cookie \cup {NoCookie}]
           /\ \A x \in Browsers : jar'[x] \in {jar[x], Mint(a, p, v)}
<1>1. flight[r].browser \in Browsers
  BY Waiter DEF Inv
<1>2. Mint(a, p, v) \in Cookie
  BY MintType DEF Inv
<1>. QED BY <1>1, <1>2 DEF SetCookie, Inv, TypeOK

LEMMA NewAccountGrows ==
    ASSUME Inv, NEW a \in AccountIds, NEW u \in Users, NEW p \in ProfileIds,
           NewAccount(a, u, p)
    PROVE  Grows
<1>1. /\ accounts \subseteq accounts' /\ accounts' \subseteq AccountIds
      /\ version \in [AccountIds -> 1..MaxVersion] /\ version' \in [AccountIds -> 1..MaxVersion]
      /\ issued \subseteq issued'
  BY NewAccountKeeps DEF NewAccount, Inv, TypeOK
<1>2. \A x \in accounts : version[x] <= version'[x]
  BY <1>1, BoundsAssumption DEF NewAccount
<1>3. \A x \in accounts' : \A q \in profiles'[x] :
        (x \in accounts /\ q \in profiles[x]) \/ q \in ProfileIds \ issued
  BY DEF NewAccount, Inv, TypeOK
<1>. QED BY <1>1, <1>2, <1>3 DEF Grows

LEMMA SetupKeeps ==
    ASSUME Inv, NEW r \in Requests, NEW a \in AccountIds, NEW u \in Users,
           NEW p \in ProfileIds, Setup(r, a, u, p)
    PROVE  Inv'
<1>0. /\ NewAccount(a, u, p) /\ AdoptGlobalState(p) /\ SetCookie(r, a, p, 1) /\ Done(r)
      /\ UNCHANGED clock /\ flight[r] # Idle
  BY WaitingIsBusy DEF Setup, Kinds
<1>. DEFINE c == Mint(a, p, 1)
<1>1. /\ 1 \in 1..MaxVersion /\ c \in Cookie /\ c.account = a
      /\ c.profile = p /\ c.version = 1
  BY MintType, BoundsAssumption DEF Inv
<1>2. /\ jar' \in [Browsers -> Cookie \cup {NoCookie}]
      /\ \A x \in Browsers : jar'[x] \in {jar[x], c}
  BY <1>0, <1>1, CookieSet
<1>. HIDE DEF c
<1>3. /\ profiles'[a] = {p} /\ \A b \in accounts : b # a /\ profiles'[b] = profiles[b]
      /\ accounts' = accounts \cup {a} /\ issued' = issued \cup {p} /\ version'[a] = 1
  BY <1>0 DEF NewAccount, Inv, TypeOK
<1>4. OfIts(c, accounts', version', profiles', issued')
  <2>1. \A b \in accounts : p \notin profiles[b]
    BY <1>0 DEF NewAccount, Inv, Ownership, TypeOK
  <2>. QED BY <1>1, <1>3, <2>1 DEF OfIts
<1>5. CookiesInv'
  BY <1>0, <1>2, <1>4, NewAccountGrows, EndOfRequest, CookiesStep DEF Inv
<1>6. written' \in [ProfileIds \cup {Sentinel} -> SUBSET (AccountIds \cup {Before})]
  BY <1>0 DEF AdoptGlobalState, Inv, TypeOK
<1>7. TypeOK'
  BY <1>0, <1>2, <1>6, NewAccountKeeps, EndOfRequest DEF Inv, TypeOK
<1>8. NoOrphanState'
  <2>1. ASSUME NEW q \in ProfileIds, written'[q] # {}
        PROVE  \E b \in accounts' : q \in profiles'[b]
    <3>1. CASE q = p
      BY <1>3, <3>1
    <3>2. CASE q # p
      <4>1. written'[q] = written[q]
        BY <1>0, <3>2, IdsAssumption DEF AdoptGlobalState, Inv, TypeOK
      <4>. QED BY <1>3, <2>1, <4>1 DEF Inv, NoOrphanState
    <3>. QED BY <3>1, <3>2
  <2>. QED BY <2>1 DEF NoOrphanState
<1>. QED BY <1>0, <1>5, <1>7, <1>8, NewAccountKeeps DEF Inv

LEMMA CreateAccountKeeps ==
    ASSUME Inv, NEW r \in Requests, NEW a \in AccountIds, NEW u \in Users,
           NEW p \in ProfileIds, CreateAccount(r, a, u, p)
    PROVE  Inv'
<1>0. NewAccount(a, u, p) /\ Done(r) /\ UNCHANGED <<clock, written, jar>>
  BY DEF CreateAccount
<1>1. /\ \A b \in accounts : b # a /\ profiles'[b] = profiles[b]
      /\ accounts' = accounts \cup {a}
  BY <1>0 DEF NewAccount, Inv, TypeOK
<1>2. CookiesInv'
  BY <1>0, NewAccountGrows, EndOfRequest, CookiesStep DEF Inv
<1>3. TypeOK'
  BY <1>0, NewAccountKeeps, EndOfRequest DEF Inv, TypeOK
<1>4. NoOrphanState'
  BY <1>0, <1>1 DEF Inv, NoOrphanState
<1>. QED BY <1>0, <1>2, <1>3, <1>4, NewAccountKeeps DEF Inv

LEMMA AddProfileKeeps ==
    ASSUME Inv, NEW r \in Requests, NEW p \in ProfileIds, AddProfile(r, p)
    PROVE  Inv'
<1>. DEFINE a == Caller(r).account
<1>0. /\ flight[r] # Idle /\ flight[r].kind # "setup"
      /\ Cardinality(profiles[a]) < MaxProfiles /\ p \in ProfileIds \ issued
      /\ profiles' = [profiles EXCEPT ![a] = @ \cup {p}]
      /\ issued' = issued \cup {p} /\ Done(r)
      /\ UNCHANGED <<clock, accounts, username, admin, version, written, jar>>
  BY WaitingIsBusy DEF AddProfile, Kinds
<1>1. a \in accounts /\ a \in AccountIds
  BY <1>0, Waiter DEF Inv
<1>. HIDE DEF a
<1>2. /\ profiles'[a] = profiles[a] \cup {p} /\ p \notin profiles[a]
      /\ IsFiniteSet(profiles[a]) /\ Cardinality(profiles[a]) \in 1..MaxProfiles
      /\ \A b \in AccountIds \ {a} : profiles'[b] = profiles[b]
  BY <1>0, <1>1 DEF Inv, TypeOK, Ownership, ProfileCount
<1>3. IsFiniteSet(profiles'[a]) /\ Cardinality(profiles'[a]) = Cardinality(profiles[a]) + 1
  <2>. DEFINE S == profiles[a]
  <2>1. IsFiniteSet(S) /\ p \notin S
    BY <1>2
  <2>. HIDE DEF S
  <2>2. IsFiniteSet(S \cup {p}) /\ Cardinality(S \cup {p}) = Cardinality(S) + 1
    BY <2>1, FS_AddElement
  <2>. QED BY <1>2, <2>2 DEF S
<1>4. TypeOK'
  BY <1>0, <1>1, EndOfRequest DEF Inv, TypeOK
<1>5. Ownership'
  <2>1. \A b \in AccountIds : profiles'[b] \subseteq issued' /\ IsFiniteSet(profiles'[b])
    BY <1>0, <1>2, <1>3 DEF Inv, Ownership
  <2>2. \A b \in AccountIds \ accounts' : profiles'[b] = {}
    BY <1>0, <1>1, <1>2 DEF Inv, Ownership
  <2>3. \A b, c \in AccountIds : b # c => profiles'[b] \cap profiles'[c] = {}
    BY <1>0, <1>2 DEF Inv, Ownership
  <2>. QED BY <2>1, <2>2, <2>3 DEF Ownership
<1>6. ProfileCount'
  <2>1. ASSUME NEW b \in accounts' PROVE Cardinality(profiles'[b]) \in 1..MaxProfiles
    <3>1. CASE b = a
      BY <1>0, <1>2, <1>3, <3>1, BoundsAssumption
    <3>2. CASE b # a
      BY <1>0, <1>2, <2>1, <3>2 DEF Inv, TypeOK, ProfileCount
    <3>. QED BY <3>1, <3>2
  <2>. QED BY <2>1 DEF ProfileCount
<1>7. NoOrphanState' /\ OneAdmin'
  BY <1>0, <1>1, <1>2 DEF Inv, TypeOK, NoOrphanState, OneAdmin
<1>8. CookiesInv'
  <2>1. Grows
    BY <1>0, <1>1, <1>2, BoundsAssumption DEF Grows, Inv, TypeOK
  <2>. QED BY <1>0, <2>1, EndOfRequest, CookiesStep DEF Inv
<1>. QED BY <1>4, <1>5, <1>6, <1>7, <1>8 DEF Inv

LEMMA SelectProfileKeeps ==
    ASSUME Inv, NEW r \in Requests, NEW p \in ProfileIds, SelectProfile(r, p)
    PROVE  Inv'
<1>. DEFINE c == Caller(r)
            m == Mint(c.account, p, c.version)
<1>0. /\ flight[r] # Idle /\ flight[r].kind # "setup"
      /\ Belongs(c.account, p) /\ SetCookie(r, c.account, p, c.version) /\ Done(r)
      /\ UNCHANGED <<clock, storeVars>>
  BY WaitingIsBusy DEF SelectProfile, Kinds
<1>1. /\ OfIts(c, accounts, version, profiles, issued) /\ c.account \in accounts
      /\ c.account \in AccountIds /\ c.version \in 1..MaxVersion
  BY <1>0, Waiter DEF Inv
<1>2. m \in Cookie /\ m.account = c.account /\ m.profile = p /\ m.version = c.version
  BY <1>1, MintType DEF Inv
<1>3. /\ jar' \in [Browsers -> Cookie \cup {NoCookie}]
      /\ \A x \in Browsers : jar'[x] \in {jar[x], m}
  BY <1>0, <1>1, CookieSet
<1>. HIDE DEF m, c
<1>4. OfIts(m, accounts', version', profiles', issued')
  <2>1. p \in issued /\ \A a \in accounts \ {c.account} : p \notin profiles[a]
    BY <1>0, <1>1 DEF Inv, Ownership, Belongs, TypeOK
  <2>. QED BY <1>0, <1>1, <1>2, <2>1 DEF OfIts, storeVars
<1>5. TypeOK'
  BY <1>0, <1>3, EndOfRequest DEF Inv, TypeOK, storeVars
<1>6. CookiesInv'
  BY <1>0, <1>3, <1>4, StoreGrows, EndOfRequest, CookiesStep DEF Inv, storeVars
<1>. QED BY <1>0, <1>5, <1>6, StoreStable DEF Inv

LEMMA DeleteProfileKeeps ==
    ASSUME Inv, NEW r \in Requests, NEW p \in ProfileIds, DeleteProfile(r, p)
    PROVE  Inv'
<1>. DEFINE a == Caller(r).account
<1>0. /\ Belongs(a, p) /\ Cardinality(profiles[a]) > 1
      /\ profiles' = [profiles EXCEPT ![a] = @ \ {p}]
      /\ written' = [written EXCEPT ![p] = {}] /\ Done(r)
      /\ UNCHANGED <<clock, accounts, username, admin, version, issued, jar>>
  BY DEF DeleteProfile
<1>1. a \in accounts /\ a \in AccountIds /\ p \in profiles[a]
  BY <1>0 DEF Inv, TypeOK, Belongs
<1>. HIDE DEF a
<1>2. /\ profiles'[a] = profiles[a] \ {p}
      /\ IsFiniteSet(profiles[a]) /\ Cardinality(profiles[a]) \in 1..MaxProfiles
      /\ \A b \in AccountIds \ {a} : profiles'[b] = profiles[b]
  BY <1>0, <1>1 DEF Inv, TypeOK, Ownership, ProfileCount
<1>3. IsFiniteSet(profiles'[a]) /\ Cardinality(profiles'[a]) = Cardinality(profiles[a]) - 1
  BY <1>1, <1>2, FS_RemoveElement
<1>4. TypeOK'
  BY <1>0, <1>1, EndOfRequest DEF Inv, TypeOK
<1>5. Ownership'
  <2>1. \A b \in AccountIds : profiles'[b] \subseteq issued' /\ IsFiniteSet(profiles'[b])
    BY <1>0, <1>2, <1>3 DEF Inv, Ownership
  <2>2. \A b \in AccountIds \ accounts' : profiles'[b] = {}
    BY <1>0, <1>1, <1>2 DEF Inv, Ownership
  <2>3. \A b, c \in AccountIds : b # c => profiles'[b] \cap profiles'[c] = {}
    BY <1>0, <1>2 DEF Inv, Ownership
  <2>. QED BY <2>1, <2>2, <2>3 DEF Ownership
<1>6. ProfileCount'
  <2>1. ASSUME NEW b \in accounts' PROVE Cardinality(profiles'[b]) \in 1..MaxProfiles
    <3>1. CASE b = a
      BY <1>0, <1>2, <1>3, <3>1, BoundsAssumption
    <3>2. CASE b # a
      BY <1>0, <1>2, <2>1, <3>2 DEF Inv, TypeOK, ProfileCount
    <3>. QED BY <3>1, <3>2
  <2>. QED BY <2>1 DEF ProfileCount
<1>7. OneAdmin'
  BY <1>0 DEF Inv, OneAdmin
<1>8. NoOrphanState'
  <2>1. ASSUME NEW q \in ProfileIds, written'[q] # {}
        PROVE  \E b \in accounts' : q \in profiles'[b]
    <3>1. q # p /\ written[q] # {}
      BY <1>0, <2>1 DEF Inv, TypeOK
    <3>2. PICK b \in accounts : q \in profiles[b]
      BY <3>1 DEF Inv, NoOrphanState
    <3>. QED BY <1>0, <1>2, <3>1, <3>2 DEF Inv, TypeOK
  <2>. QED BY <2>1 DEF NoOrphanState
<1>9. CookiesInv'
  <2>1. Grows
    BY <1>0, <1>1, <1>2, BoundsAssumption DEF Grows, Inv, TypeOK
  <2>. QED BY <1>0, <2>1, EndOfRequest, CookiesStep DEF Inv
<1>. QED BY <1>4, <1>5, <1>6, <1>7, <1>8, <1>9 DEF Inv

LEMMA RevokeKeeps ==
    ASSUME Inv, NEW r \in Requests, Revoke(r)
    PROVE  Inv'
<1>. DEFINE c == Caller(r)
            v == version[c.account] + 1
            m == Mint(c.account, c.profile, v)
<1>0. /\ flight[r] # Idle /\ flight[r].kind # "setup"
      /\ version[c.account] < MaxVersion
      /\ version' = [version EXCEPT ![c.account] = @ + 1]
      /\ SetCookie(r, c.account, c.profile, v) /\ Done(r)
      /\ UNCHANGED <<clock, accounts, username, admin, profiles, issued, written>>
  BY WaitingIsBusy DEF Revoke, Kinds
<1>1. /\ OfIts(c, accounts, version, profiles, issued) /\ c.account \in accounts
      /\ c.account \in AccountIds /\ c.profile \in ProfileIds \cup {NoProfile}
      /\ version[c.account] \in 1..MaxVersion /\ v \in 1..MaxVersion
  BY <1>0, Waiter, BoundsAssumption DEF Inv, TypeOK
<1>2. m \in Cookie /\ m.account = c.account /\ m.profile = c.profile /\ m.version = v
  BY <1>1, MintType DEF Inv
<1>3. /\ jar' \in [Browsers -> Cookie \cup {NoCookie}]
      /\ \A x \in Browsers : jar'[x] \in {jar[x], m}
  BY <1>0, <1>1, CookieSet
<1>4. /\ version' \in [AccountIds -> 1..MaxVersion] /\ version'[c.account] = v
      /\ \A b \in accounts : version[b] <= version'[b]
  BY <1>0, <1>1, BoundsAssumption DEF Inv, TypeOK
<1>. HIDE DEF m, c, v
<1>5. OfIts(m, accounts', version', profiles', issued')
  <2>1. m.version <= version'[m.account]
    BY <1>1, <1>2, <1>4, BoundsAssumption
  <2>. QED BY <1>0, <1>1, <1>2, <2>1 DEF OfIts
<1>6. TypeOK'
  BY <1>0, <1>3, <1>4, EndOfRequest DEF Inv, TypeOK
<1>7. CookiesInv'
  <2>1. Grows
    BY <1>0, <1>4 DEF Grows, Inv, TypeOK
  <2>. QED BY <1>0, <1>3, <1>5, <2>1, EndOfRequest, CookiesStep DEF Inv
<1>8. OneAdmin' /\ Ownership' /\ ProfileCount' /\ NoOrphanState'
  BY <1>0 DEF Inv, OneAdmin, Ownership, ProfileCount, NoOrphanState
<1>. QED BY <1>6, <1>7, <1>8 DEF Inv

LEMMA WriteStateKeeps ==
    ASSUME Inv, NEW r \in Requests, WriteState(r)
    PROVE  Inv'
<1>. DEFINE c == Caller(r)
            p == CurrentProfile(c)
<1>0. /\ flight[r] # Idle /\ flight[r].kind # "setup"
      /\ written' = [written EXCEPT ![p] = @ \cup {c.account}] /\ Done(r)
      /\ UNCHANGED <<clock, accounts, username, admin, version, profiles, issued, jar>>
  BY WaitingIsBusy DEF WriteState, Kinds
<1>1. c.account \in accounts /\ c.account \in AccountIds
  BY <1>0, Waiter DEF Inv
<1>2. p = Sentinel \/ (p \in ProfileIds /\ p \in profiles[c.account])
  BY <1>1 DEF CurrentProfile, Belongs, Inv, TypeOK
<1>. HIDE DEF p, c
<1>3. TypeOK'
  BY <1>0, <1>1, <1>2, EndOfRequest DEF Inv, TypeOK
<1>4. NoOrphanState'
  BY <1>0, <1>1, <1>2, IdsAssumption DEF Inv, TypeOK, NoOrphanState
<1>5. OneAdmin' /\ Ownership' /\ ProfileCount'
  BY <1>0 DEF Inv, OneAdmin, Ownership, ProfileCount
<1>6. CookiesInv'
  BY <1>0, StoreGrows, EndOfRequest, CookiesStep DEF Inv
<1>. QED BY <1>3, <1>4, <1>5, <1>6 DEF Inv

----------------------------------------------------------------------------
LEMMA NextInv == Inv /\ [Next]_vars => Inv'
<1>. SUFFICES ASSUME Inv, [Next]_vars PROVE Inv'
  OBVIOUS
<1>1. CASE UNCHANGED vars
  <2>1. TypeOK' /\ CookiesInv'
    BY <1>1 DEF Inv, vars, storeVars, TypeOK, CookiesInv, OfIts, Caller
  <2>. QED BY <1>1, <2>1, StoreStable DEF Inv, vars
<1>2. CASE Next
  BY <1>2, TickKeeps, LoginKeeps, LogoutKeeps, ArriveKeeps, ArriveSetupKeeps, TurnAwayKeeps,
     SetupKeeps, CreateAccountKeeps, AddProfileKeeps, SelectProfileKeeps, DeleteProfileKeeps,
     RevokeKeeps, WriteStateKeeps
     DEF Next
<1>. QED BY <1>1, <1>2

THEOREM FreshInvariant == FreshSpec => []Inv
BY InitInv, NextInv, PTL DEF FreshSpec

THEOREM SettledInvariant == SettledSpec => []Inv
BY InitInv, NextInv, PTL DEF SettledSpec

\* Types, from a fresh install.
THEOREM SessionsTypeCorrect == FreshSpec => []TypeOK
<1>1. Inv => TypeOK
  BY DEF Inv
<1>. QED BY <1>1, FreshInvariant, PTL

\* However many setups race, there is one admin and no two accounts share a name.
THEOREM OneAdminAlways == FreshSpec => []OneAdmin
<1>1. Inv => OneAdmin
  BY DEF Inv
<1>. QED BY <1>1, FreshInvariant, PTL

\* Every cookie anybody holds names an account that exists, at a version the account has
\* reached, and no profile of another account.
THEOREM CookiesAreOwnAlways == FreshSpec => []CookiesAreOwn
<1>1. Inv => CookiesAreOwn
  <2>. SUFFICES ASSUME Inv, NEW c \in Cookies
                PROVE  OfIts(c, accounts, version, profiles, issued)
    BY DEF CookiesAreOwn, OfIts
  <2>1. c # NoCookie
    BY DEF Cookies
  <2>2. CASE \E b \in Browsers : c = jar[b]
    BY <2>1, <2>2 DEF Inv, CookiesInv
  <2>3. CASE \E r \in Requests : flight[r] # Idle /\ c = Caller(r)
    BY <2>1, <2>3 DEF Inv, CookiesInv
  <2>. QED BY <2>2, <2>3 DEF Cookies, Held
<1>. QED BY <1>1, FreshInvariant, PTL

\* Every account always has a profile to sign in to, and never too many.
THEOREM ProfileCountAlways == SettledSpec => []ProfileCount
<1>1. Inv => ProfileCount
  BY DEF Inv
<1>. QED BY <1>1, SettledInvariant, PTL

\* Reading state never outlives its profile.
THEOREM NoOrphanAlways == SettledSpec => []NoOrphanState
<1>1. Inv => NoOrphanState
  BY DEF Inv
<1>. QED BY <1>1, SettledInvariant, PTL

----------------------------------------------------------------------------
\* Once an account exists no setup begins, so none waits after a settled start.
LEMMA NoSetup ==
    ASSUME Inv, SettledInv, [Next]_vars
    PROVE  /\ accounts' # {}
           /\ \A r \in Requests : flight'[r].kind # "setup"
<1>1. accounts \subseteq accounts'
  BY DEF SettledInv, Next, vars, storeVars, Tick, Login, Logout, Arrive, ArriveSetup, TurnAway,
         Setup, CreateAccount, NewAccount, AddProfile, SelectProfile, DeleteProfile, Revoke,
         WriteState
<1>2. \A r \in Requests : flight'[r] \in {flight[r], Idle} \/ flight'[r].kind # "setup"
  <2>1. CASE \E r \in Requests, b \in Browsers, kind \in Kinds \ {"setup"} : Arrive(r, b, kind)
    BY <2>1 DEF Arrive, Request, Inv, TypeOK
  <2>2. CASE \E r \in Requests : Done(r)
    BY <2>2, EndOfRequest
  <2>3. CASE flight' = flight
    BY <2>3
  <2>4. ~ \E r \in Requests, b \in Browsers : ArriveSetup(r, b)
    BY DEF SettledInv, ArriveSetup
  <2>. QED
    BY <2>1, <2>2, <2>3, <2>4
       DEF Next, vars, Tick, Login, Logout, TurnAway, Setup, CreateAccount, AddProfile,
           SelectProfile, DeleteProfile, Revoke, WriteState
<1>. QED BY <1>1, <1>2 DEF SettledInv, Idle

\* A settled household stays isolated: by cases on the steps that touch profiles or state.
LEMMA IsolationStep ==
    ASSUME Inv, SettledInv, [Next]_vars
    PROVE  ProfileIsolation'
<1>. USE DEF SettledInv
<1>1. CASE UNCHANGED <<accounts, profiles, written>>
  BY <1>1 DEF ProfileIsolation
<1>2. ASSUME NEW r \in Requests, NEW a \in AccountIds, NEW u \in Users, NEW p \in ProfileIds,
             CreateAccount(r, a, u, p)
      PROVE  ProfileIsolation'
  <2>1. /\ accounts' = accounts \cup {a} /\ profiles' = [profiles EXCEPT ![a] = {p}]
        /\ written' = written /\ p \notin issued /\ a \notin accounts
    BY <1>2 DEF CreateAccount, NewAccount
  <2>2. written[p] = {}
    BY <2>1 DEF Inv, NoOrphanState, Ownership, TypeOK
  <2>. QED BY <2>1, <2>2 DEF ProfileIsolation, Inv, TypeOK
<1>3. ASSUME NEW r \in Requests, NEW p \in ProfileIds, AddProfile(r, p)
      PROVE  ProfileIsolation'
  <2>1. /\ accounts' = accounts /\ written' = written /\ p \notin issued
        /\ profiles' = [profiles EXCEPT ![Caller(r).account] = @ \cup {p}]
    BY <1>3 DEF AddProfile
  <2>2. written[p] = {}
    BY <2>1 DEF Inv, NoOrphanState, Ownership, TypeOK
  <2>. QED BY <2>1, <2>2 DEF ProfileIsolation, Inv, TypeOK
<1>4. ASSUME NEW r \in Requests, NEW p \in ProfileIds, DeleteProfile(r, p)
      PROVE  ProfileIsolation'
  <2>1. /\ accounts' = accounts /\ written' = [written EXCEPT ![p] = {}]
        /\ profiles' = [profiles EXCEPT ![Caller(r).account] = @ \ {p}]
    BY <1>4 DEF DeleteProfile
  <2>. QED BY <2>1 DEF ProfileIsolation, Inv, TypeOK
<1>5. ASSUME NEW r \in Requests, WriteState(r)
      PROVE  ProfileIsolation'
  <2>. DEFINE c == Caller(r)
              p == CurrentProfile(c)
  <2>1. /\ written' = [written EXCEPT ![p] = @ \cup {c.account}]
        /\ accounts' = accounts /\ profiles' = profiles
    BY <1>5 DEF WriteState
  <2>2. c.account \in accounts /\ c.account \in AccountIds
    BY <1>5, WaitingIsBusy, Waiter DEF WriteState, Kinds, Inv
  <2>3. p = Sentinel \/ (p \in ProfileIds /\ p \in profiles[c.account])
    BY <2>2 DEF CurrentProfile, Belongs, Inv, TypeOK
  <2>. HIDE DEF p, c
  <2>4. ASSUME NEW a \in accounts, NEW q \in profiles[a]
        PROVE  written'[q] \subseteq {a, Before}
    <3>1. a \in AccountIds /\ q \in ProfileIds /\ q # Sentinel
      BY IdsAssumption DEF Inv, TypeOK
    <3>2. q = p => a = c.account
      BY <2>2, <2>3, <3>1 DEF Inv, Ownership
    <3>. QED BY <2>1, <3>1, <3>2 DEF ProfileIsolation, Inv, TypeOK
  <2>. QED BY <2>1, <2>4 DEF ProfileIsolation
<1>6. ASSUME NEW r \in Requests, NEW a \in AccountIds, NEW u \in Users, NEW p \in ProfileIds,
             Setup(r, a, u, p)
      PROVE  FALSE
  BY <1>6 DEF Setup, Waiting
<1>. QED
  BY <1>1, <1>2, <1>3, <1>4, <1>5, <1>6
     DEF Next, vars, storeVars, Tick, Login, Logout, Arrive, ArriveSetup, TurnAway,
         SelectProfile, Revoke

\* Once setup is done, a profile's reading state was written by its own account, or
\* before there were accounts.
THEOREM IsolationAlways == SettledSpec => []ProfileIsolation
<1>1. SettledInit => SettledInv
  <2>. SUFFICES ASSUME Settled, Quiet PROVE SettledInv
    BY DEF SettledInit
  <2>1. PICK a \in AccountIds, p \in ProfileIds :
          /\ accounts = {a}
          /\ profiles = [b \in AccountIds |-> IF b = a THEN {p} ELSE {}]
          /\ written = [q \in ProfileIds \cup {Sentinel} |-> IF q = p THEN {Before} ELSE {}]
    BY DEF Settled
  <2>. QED BY <2>1 DEF SettledInv, Quiet, Idle, ProfileIsolation
<1>2. Inv /\ SettledInv /\ [Next]_vars => SettledInv'
  BY NoSetup, IsolationStep DEF SettledInv
<1>3. SettledInv => ProfileIsolation
  BY DEF SettledInv
<1>. QED BY <1>1, <1>2, <1>3, SettledInvariant, PTL DEF SettledSpec

\* A profile picked by a request whose session was revoked meanwhile signs nobody in.
THEOREM PickingRevivesNothingAlways == FreshSpec => PickingRevivesNothing
<1>. DEFINE P == \A b \in Browsers :
                   Renews(b) /\ version' = version => HasStanding(jar'[b].account)
<1>1. Inv /\ [Next]_vars => P
  <2>. SUFFICES ASSUME Inv, Next, NEW b \in Browsers, Renews(b), version' = version
                PROVE  HasStanding(jar'[b].account)
    BY DEF vars, Renews
  <2>1. jar'[b] # jar[b] /\ jar'[b].profile # NoProfile /\ accounts' = accounts
        /\ jar'[b] # NoCookie /\ jar'[b].version = version'[jar'[b].account]
    BY DEF Renews, SignedIn, Valid
  <2>2. ASSUME NEW r \in Requests, NEW p \in ProfileIds, SelectProfile(r, p)
        PROVE  HasStanding(jar'[b].account)
    <3>. DEFINE c == Caller(r)
                m == Mint(c.account, p, c.version)
    <3>1. /\ flight[r] # Idle /\ flight[r].kind = "profiles"
          /\ SetCookie(r, c.account, p, c.version)
      BY <2>2, WaitingIsBusy DEF SelectProfile, Kinds
    <3>2. c.account \in AccountIds /\ c.version \in 1..MaxVersion
      BY <3>1, Waiter DEF Inv
    <3>3. jar'[b] = m
      BY <2>1, <3>1, <3>2, CookieSet DEF Inv
    <3>4. m.account = c.account /\ m.version = c.version
      BY DEF Mint
    <3>5. c.version = version[c.account]
      BY <2>1, <3>3, <3>4
    <3>. QED BY <3>1, <3>3, <3>4, <3>5 DEF HasStanding, Waiting
  <2>3. ASSUME NEW r \in Requests, Revoke(r) PROVE FALSE
    <3>1. Caller(r).account \in AccountIds
      BY <2>3, WaitingIsBusy, Waiter DEF Revoke, Kinds, Inv
    <3>2. version[Caller(r).account] \in Nat
      BY <3>1, BoundsAssumption DEF Inv, TypeOK
    <3>. QED BY <2>3, <3>1, <3>2 DEF Revoke, Inv, TypeOK
  <2>4. ASSUME NEW x \in Browsers, NEW a \in AccountIds, Login(x, a) PROVE FALSE
    BY <2>1, <2>4 DEF Login, Mint, Inv, TypeOK
  <2>5. ASSUME NEW x \in Browsers, Logout(x) PROVE FALSE
    BY <2>1, <2>5 DEF Logout, Inv, TypeOK
  <2>6. ASSUME NEW r \in Requests, NEW a \in AccountIds, NEW u \in Users,
               NEW p \in ProfileIds, Setup(r, a, u, p)
        PROVE  FALSE
    BY <2>1, <2>6 DEF Setup, NewAccount
  <2>. QED
    BY <2>1, <2>2, <2>3, <2>4, <2>5, <2>6
       DEF Next, Tick, Arrive, ArriveSetup, TurnAway, CreateAccount, AddProfile,
           DeleteProfile, WriteState
<1>2. Inv /\ [Next]_vars => [P]_vars
  BY <1>1
<1>. HIDE DEF P
<1>3. FreshSpec => [][P]_vars
  BY <1>2, FreshInvariant, PTL DEF FreshSpec
<1>. QED BY <1>3 DEF PickingRevivesNothing, P

=============================================================================
