------------------------------ MODULE Upstream ------------------------------
(***************************************************************************)
(* The upstream client of app/kavita.py with its connection pool, and the  *)
(* three kinds of requests that use it: a feed is read into memory         *)
(* (fetch_feed), a download is handed on as it comes (open_stream and      *)
(* stream_download of app/download.py), and a cover is read into memory by *)
(* open_stream too (stream_cover; what is done with it is in Covers).      *)
(*                                                                         *)
(* A request awaits a connection of the pool, then the head of the answer, *)
(* then the body.  A redirect is followed by hand, so every hop passes     *)
(* resolve_url() again; its verdict is the set Allowed here.  Each process *)
(* has a pool of its own.  A feed has a timeout of FEED_READ_TIMEOUT on    *)
(* everything it awaits, the others on the pool and on connecting only:    *)
(* with read=None an upstream may keep them waiting for ever.              *)
(***************************************************************************)
EXTENDS Integers, FiniteSets, SequencesExt

CONSTANTS
    Requests,       \* slots for requests in progress
    Processes,      \* processes that serve them, one pool each
    ProcessOf,      \* the process of each slot
    Takes,          \* bound: the kinds of requests each slot takes
    Urls,           \* addresses
    Allowed,        \* those that resolve_url() lets pass
    MaxHops,        \* requests sent for one fetch: range(6)
    PoolSize,       \* max_connections
    MaxChunks       \* chunks that fit under MAX_FEED_BYTES or MAX_COVER_BYTES

ASSUME UpstreamAssumption ==
    /\ IsFiniteSet(Requests)
    /\ ProcessOf \in [Requests -> Processes]
    /\ Takes \in [Requests -> SUBSET {"feed", "download", "cover"}]
    /\ Allowed \subseteq Urls
    /\ MaxHops \in Nat \ {0} /\ PoolSize \in Nat \ {0} /\ MaxChunks \in Nat

VARIABLES
    task,           \* what each request is doing
    held            \* connections it has been given and has not closed

fetching == <<task, held>>

Idle == [op |-> "none"]
Ops == {"feed", "download", "cover"}

\* What a request awaits: the pool, the head, the body, or the reader of a download.
Awaits == {"pool", "head", "body", "reader"}

At(r, stage) == task[r] # Idle /\ task[r].stage = stage
Is(r, op) == task[r].op = op

InUse(p) == Cardinality({r \in Requests : ProcessOf[r] = p /\ held[r] > 0})

Close(r) == held' = [held EXCEPT ![r] = @ - 1]
Goto(r, stage) == task' = [task EXCEPT ![r].stage = stage]
End(r) == task' = [task EXCEPT ![r] = Idle]

----------------------------------------------------------------------------
FetchInit ==
    /\ task = [r \in Requests |-> Idle]
    /\ held = [r \in Requests |-> 0]

\* Where resolve_url() refuses the address nothing is fetched at all.
Begin(r, op, u) ==
    /\ task[r] = Idle
    /\ op \in Takes[r]
    /\ u \in Allowed
    /\ task' = [task EXCEPT ![r] =
            [op |-> op, asked |-> u, url |-> u, stage |-> "pool", sent |-> 0, chunks |-> 0]]
    /\ UNCHANGED held

Connect(r) ==
    /\ At(r, "pool")
    /\ InUse(ProcessOf[r]) < PoolSize
    /\ held' = [held EXCEPT ![r] = @ + 1]
    /\ task' = [task EXCEPT ![r].stage = "head", ![r].sent = @ + 1]

\* httpx.PoolTimeout: "Could not reach upstream".
PoolTimeout(r) ==
    /\ At(r, "pool")
    /\ InUse(ProcessOf[r]) >= PoolSize
    /\ End(r)
    /\ UNCHANGED held

\* The connection breaks, or what is awaited takes too long where there is a timeout; a
\* status of 400 or more; a redirect without a location, to an address that the guard
\* refuses, or after the last request; a body over its cap, declared or found to be.
FetchFails(r) ==
    /\ At(r, "head") \/ At(r, "body")
    /\ Close(r)
    /\ End(r)

\* Mutant: the response that redirects is left open.
FollowOpen(r, u) ==
    /\ At(r, "head")
    /\ task[r].sent < MaxHops
    /\ u \in Allowed
    /\ task' = [task EXCEPT ![r].stage = "pool", ![r].url = u]
    /\ UNCHANGED held

\* Mutant: redirects are followed as long as they come.
FollowForever(r, u) ==
    /\ At(r, "head")
    /\ u \in Allowed
    /\ task' = [task EXCEPT ![r].stage = "pool", ![r].url = u, ![r].sent = 0]
    /\ Close(r)

\* A redirect: the body is not read, the connection closed, the new address checked.
Follow(r, u) ==
    /\ At(r, "head")
    /\ task[r].sent < MaxHops
    /\ u \in Allowed
    /\ task' = [task EXCEPT ![r].stage = "pool", ![r].url = u]
    /\ Close(r)

Answered(r) ==
    /\ At(r, "head")
    /\ Goto(r, IF Is(r, "download") THEN "reader" ELSE "body")
    /\ UNCHANGED held

\* _read_capped(), which both modules have: one more chunk within the cap.
Chunk(r) ==
    /\ At(r, "body")
    /\ task[r].chunks < MaxChunks
    /\ task' = [task EXCEPT ![r].chunks = @ + 1]
    /\ UNCHANGED held

\* The feed is complete: closed in the finally, decoded, returned.
FeedRead(r) ==
    /\ At(r, "body") /\ Is(r, "feed")
    /\ Close(r)
    /\ End(r)

\* The body has been streamed to its end, or the reader went away: the BackgroundTask.
Streamed(r) ==
    /\ At(r, "reader")
    /\ Close(r)
    /\ End(r)

\* One step of a fetch.
Step(r) ==
    \/ Connect(r) \/ PoolTimeout(r) \/ FetchFails(r) \/ Answered(r) \/ Chunk(r)
    \/ FeedRead(r) \/ Streamed(r)
    \/ \E u \in Urls : Follow(r, u)

----------------------------------------------------------------------------
Fetching ==
    [op : Ops, asked : Allowed, url : Urls, stage : Awaits, sent : 0..MaxHops, chunks : 0..MaxChunks]

FetchTypeOK ==
    /\ \A r \in Requests : task[r] # Idle /\ task[r].stage \in Awaits => task[r] \in Fetching
    /\ held \in [Requests -> Nat]

\* Whatever redirects, errors and caps do, a request holds one connection while it awaits
\* an answer and none otherwise ("the upstream connection is closed before raising";
\* "the response object itself never leaks"), no process more than the pool has, and only
\* addresses that the guard has let pass are asked ("SSRF re-check each hop").
OneConnectionEach ==
    /\ \A r \in Requests :
        held[r] = IF At(r, "head") \/ At(r, "body") \/ At(r, "reader") THEN 1 ELSE 0
    /\ \A p \in Processes : InUse(p) <= PoolSize
    /\ \A r \in Requests : At(r, "head") => task[r].url \in Allowed

\* A feed page is answered, be it with an error, whatever the upstream does and although
\* covers and downloads that never end may hold the whole pool (FEED_READ_TIMEOUT, the
\* limit of six hops, MAX_FEED_BYTES).
FeedsEnd == \A r \in Requests : Is(r, "feed") ~> task[r] = Idle

=============================================================================
