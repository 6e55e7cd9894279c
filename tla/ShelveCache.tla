----------------------------- MODULE ShelveCache -----------------------------
(***************************************************************************)
(* The reader cache of app/reader.py: _shelve_record, which downloads a    *)
(* book on its first open, unpacks it into a build directory and publishes *)
(* it with a rename, and prune_reader_cache, which keeps the cache under   *)
(* its ceiling.                                                            *)
(*                                                                         *)
(* An open is a task of one process.  The process runs one event loop:     *)
(* what a task does between two awaits is not interleaved with the other   *)
(* tasks of its process.  It is still taken step by step here, because     *)
(* another process shares the cache directory, because the process may     *)
(* die at any step, and because a comic is unpacked by a worker thread.    *)
(* The formats differ in nothing else: an EPUB or a PDF is unpacked        *)
(* without an await, a web page awaits its images first.                   *)
(*                                                                         *)
(* A directory is what it holds: "pages" (chapters and images, all of      *)
(* them), the "manifest", or "stale" files of a build that died.  Sizes    *)
(* are counted in books.                                                   *)
(***************************************************************************)
EXTENDS Naturals, FiniteSets, SequencesExt

CONSTANTS
    Tasks,          \* slots for opens in progress
    Keys,           \* books
    WebPages,       \* those that are HTML: unpacking awaits their images
    Comics,         \* those that are CBZ: unpacked by a worker thread
    Pids,           \* server processes sharing the cache directory
    Public,         \* marks a published directory among the build directories
    NoTask,         \* the event loop is free
    Limit           \* MAX_READER_CACHE_BYTES, in books

ASSUME FormatsAssumption == WebPages \subseteq Keys /\ Comics \subseteq Keys \ WebPages
ASSUME NamesAssumption == Public \notin Pids /\ NoTask \notin Tasks
ASSUME LimitAssumption == Limit \in Nat

VARIABLES
    task,           \* what each task is at, for which book, in which process
    lock,           \* _SHELVE_LOCKS: the tasks at a lock, its holder first
    loop,           \* the task in the middle of a segment of its event loop
    spools,         \* the spool files on disk
    content,        \* what each directory holds
    listing,        \* the directories that exist, least recently modified first
    doomed,         \* directories the running prune has still to delete
    seen            \* what the deletion under way found in its directory

diskVars == <<spools, content, listing>>
pruneVars == <<doomed, seen>>
vars == <<task, lock, loop, diskVars, pruneVars>>

Dirs == Keys \X (Pids \cup {Public})
Parts == {"pages", "manifest", "stale"}

Idle == [at |-> "idle"]
Places == {"queued", "spooling", "fetching", "building", "written", "built",
           "contested", "condemned", "evicted", "landed", "pruning", "deleting"}

At(t, places) == task[t].at \in places
Book(t) == task[t].key
Pid(t) == task[t].pid
Build(t) == <<Book(t), Pid(t)>>         \* {key}.tmp-{pid}
Shelf(t) == <<Book(t), Public>>         \* {key}

Goto(t, place) == task' = [task EXCEPT ![t].at = place]

\* The event loop runs one segment at a time.
Turn(t) == loop[Pid(t)] \in {t, NoTask}
Hold(t) == loop' = [loop EXCEPT ![Pid(t)] = t]
Yield(t) == loop' = [loop EXCEPT ![Pid(t)] = NoTask]

Exists(d) == d \in ToSet(listing)

\* load_manifest() finds a manifest; it does not look at the chapters.
Shelved(k) == "manifest" \in content[<<k, Public>>]

\* Mutant: a directory made anew is listed a second time.
AppendedAgain(d) == Append(listing, d)

Without(s, d) ==
    IF d \in ToSet(s) THEN RemoveAt(s, CHOOSE i \in DOMAIN s : s[i] = d) ELSE s

\* The listing once d is the last modified.
Touched(d) == Append(Without(listing, d), d)

\* _rmtree_ignore(d) where no other request of the process can see it under way.
Delete(d) ==
    /\ content' = [content EXCEPT ![d] = {}]
    /\ listing' = Without(listing, d)

DropSpool(t) == spools' = spools \ {Build(t)}

\* Mutant: the lock stays taken.
LeaveLocked(t) ==
    /\ task' = [task EXCEPT ![t] = Idle]
    /\ Yield(t)
    /\ UNCHANGED lock

\* The open is over, with a manifest or an error; asyncio.Lock wakes the next in line.
Leave(t) ==
    /\ task' = [task EXCEPT ![t] = Idle]
    /\ lock' = [lock EXCEPT ![Build(t)] = Tail(@)]
    /\ Yield(t)

----------------------------------------------------------------------------
Init ==
    /\ task = [t \in Tasks |-> Idle]
    /\ lock = [l \in Keys \X Pids |-> <<>>]
    /\ loop = [p \in Pids |-> NoTask]
    /\ spools = {}
    /\ content = [d \in Dirs |-> {}]
    /\ listing = <<>>
    /\ doomed = [p \in Pids |-> <<>>]
    /\ seen = [p \in Pids |-> {}]

\* Mutant: opens take no turns.
OpenUnlocked(t, k, p) ==
    /\ task[t] = Idle
    /\ loop[p] = NoTask
    /\ ~Shelved(k)
    /\ lock' = [lock EXCEPT ![<<k, p>>] = Append(@, t)]
    /\ task' = [task EXCEPT ![t] = [at |-> "spooling", key |-> k, pid |-> p]]
    /\ spools' = spools \cup {<<k, p>>}
    /\ UNCHANGED <<loop, content, listing, pruneVars>>

\* A book without a manifest is opened: take its lock, or wait for it.
Open(t, k, p) ==
    /\ task[t] = Idle
    /\ loop[p] = NoTask
    /\ ~Shelved(k)
    /\ lock' = [lock EXCEPT ![<<k, p>>] = Append(@, t)]
    /\ task' = [task EXCEPT ![t] =
            [at |-> IF lock[<<k, p>>] = <<>> THEN "spooling" ELSE "queued", key |-> k, pid |-> p]]
    /\ spools' = IF lock[<<k, p>>] = <<>> THEN spools \cup {<<k, p>>} ELSE spools
    /\ UNCHANGED <<loop, content, listing, pruneVars>>

\* The lock is granted, and the book was shelved meanwhile.
FindShelved(t) ==
    /\ At(t, {"queued"}) /\ Turn(t)
    /\ Head(lock[Build(t)]) = t
    /\ Shelved(Book(t))
    /\ Leave(t)
    /\ UNCHANGED <<diskVars, pruneVars>>

\* The lock is granted, and the book is still to be shelved.
StartSpool(t) ==
    /\ At(t, {"queued"}) /\ Turn(t)
    /\ Head(lock[Build(t)]) = t
    /\ ~Shelved(Book(t))
    /\ Goto(t, "spooling")
    /\ spools' = spools \cup {Build(t)}
    /\ UNCHANGED <<lock, loop, content, listing, pruneVars>>

\* The download fails, is too large, or exceeds SHELVE_TIMEOUT.
SpoolFails(t) ==
    /\ At(t, {"spooling"}) /\ Turn(t)
    /\ DropSpool(t)
    /\ Leave(t)
    /\ UNCHANGED <<content, listing, pruneVars>>

\* Mutant: the build directory is not emptied first.
SpooledOverLeftovers(t) ==
    /\ At(t, {"spooling"}) /\ Turn(t)
    /\ listing' = Touched(Build(t))
    /\ Goto(t, IF Book(t) \in WebPages THEN "fetching" ELSE "building")
    /\ IF Book(t) \in WebPages \cup Comics THEN UNCHANGED loop ELSE Hold(t)
    /\ UNCHANGED <<lock, spools, content, pruneVars>>

\* The download is complete: a new, empty build directory.
Spooled(t) ==
    /\ At(t, {"spooling"}) /\ Turn(t)
    /\ content' = [content EXCEPT ![Build(t)] = {}]
    /\ listing' = Touched(Build(t))
    /\ Goto(t, IF Book(t) \in WebPages THEN "fetching" ELSE "building")
    /\ IF Book(t) \in WebPages \cup Comics THEN UNCHANGED loop ELSE Hold(t)
    /\ UNCHANGED <<lock, spools, pruneVars>>

\* The last image of a web page has been answered, if it ever is: no timeout bounds it.
ImagesFetched(t) ==
    /\ At(t, {"fetching"}) /\ Turn(t)
    /\ Goto(t, "building")
    /\ Hold(t)
    /\ UNCHANGED <<lock, diskVars, pruneVars>>

\* Whoever unpacks the book runs: its worker thread, or the event loop for it.
Unpacks(t) == Book(t) \in Comics \/ loop[Pid(t)] = t

\* The chapters are written, unless a prune has deleted the build directory.
WritePages(t) ==
    /\ At(t, {"building"}) /\ Unpacks(t)
    /\ Exists(Build(t))
    /\ content' = [content EXCEPT ![Build(t)] = @ \cup {"pages"}]
    /\ Goto(t, "written")
    /\ UNCHANGED <<lock, loop, spools, listing, pruneVars>>

WriteManifest(t) ==
    /\ At(t, {"written"}) /\ Unpacks(t)
    /\ Exists(Build(t))
    /\ content' = [content EXCEPT ![Build(t)] = @ \cup {"manifest"}]
    /\ listing' = Touched(Build(t))
    /\ Goto(t, "built")
    /\ UNCHANGED <<lock, loop, spools, pruneVars>>

\* Mutant: the build directory is left where it is.
ExtractFailsKeepBuild(t) ==
    /\ At(t, {"building", "written"}) /\ Turn(t)
    /\ DropSpool(t)
    /\ Leave(t)
    /\ UNCHANGED <<content, listing, pruneVars>>

\* A bad book, a full disk, or no build directory to write to.
ExtractFails(t) ==
    /\ At(t, {"building", "written"}) /\ Turn(t)
    /\ Delete(Build(t))
    /\ DropSpool(t)
    /\ Leave(t)
    /\ UNCHANGED pruneVars

\* os.rename(tmp_dir, final_dir): the target is missing or an empty directory.
CanRename(t) == Exists(Build(t)) /\ content[Shelf(t)] = {}

Publish(t) ==
    /\ content' = [content EXCEPT ![Shelf(t)] = content[Build(t)], ![Build(t)] = {}]
    /\ listing' = ReplaceAll(Without(listing, Shelf(t)), Build(t), Shelf(t))

Rename(t) ==
    /\ At(t, {"built"}) /\ Turn(t)
    /\ CanRename(t)
    /\ Publish(t)
    /\ Goto(t, "landed")
    /\ Hold(t)
    /\ UNCHANGED <<lock, spools, pruneVars>>

RenameFails(t) ==
    /\ At(t, {"built"}) /\ Turn(t)
    /\ ~Exists(Build(t)) \/ Exists(Shelf(t))
    /\ Goto(t, "contested")
    /\ Hold(t)
    /\ UNCHANGED <<lock, diskVars, pruneVars>>

\* Mutant: the copy that was there is discarded.
DeferDiscardsTheirs(t) ==
    /\ At(t, {"contested"})
    /\ Shelved(Book(t))
    /\ Delete(Shelf(t))
    /\ Goto(t, "landed")
    /\ UNCHANGED <<lock, loop, spools, pruneVars>>

\* Another process was first: its copy stays.
Defer(t) ==
    /\ At(t, {"contested"})
    /\ Shelved(Book(t))
    /\ Delete(Build(t))
    /\ Goto(t, "landed")
    /\ UNCHANGED <<lock, loop, spools, pruneVars>>

\* What is there has no manifest: a leftover to be replaced.
Condemn(t) ==
    /\ At(t, {"contested"})
    /\ ~Shelved(Book(t))
    /\ Goto(t, "condemned")
    /\ UNCHANGED <<lock, loop, diskVars, pruneVars>>

Evict(t) ==
    /\ At(t, {"condemned"})
    /\ Delete(Shelf(t))
    /\ Goto(t, "evicted")
    /\ UNCHANGED <<lock, loop, spools, pruneVars>>

Replace(t) ==
    /\ At(t, {"evicted"})
    /\ CanRename(t)
    /\ Publish(t)
    /\ Goto(t, "landed")
    /\ UNCHANGED <<lock, loop, spools, pruneVars>>

ReplaceFails(t) ==
    /\ At(t, {"evicted"})
    /\ ~Exists(Build(t)) \/ Exists(Shelf(t))
    /\ Delete(Build(t))
    /\ DropSpool(t)
    /\ Leave(t)
    /\ UNCHANGED pruneVars

----------------------------------------------------------------------------
\* The directories of s that count against the ceiling: a manifest alone weighs nothing.
Load(s) == Cardinality({d \in ToSet(s) : content[d] \ {"manifest"} # {}})

After(n) == SubSeq(listing, n + 1, Len(listing))

\* Mutant: the prune stops one directory early.
VictimsButOne ==
    LET n == CHOOSE n \in 0..Len(listing) :
                /\ Load(After(n)) <= Limit + 1
                /\ \A m \in 0..(n - 1) : Load(After(m)) > Limit + 1
    IN  SubSeq(listing, 1, n)

\* The directories prune_reader_cache() deletes: the oldest, until the rest fits.  Build
\* directories are directories too.
Victims ==
    LET n == CHOOSE n \in 0..Len(listing) :
                /\ Load(After(n)) <= Limit
                /\ \A m \in 0..(n - 1) : Load(After(m)) > Limit
    IN  SubSeq(listing, 1, n)

\* Mutant: the loop serves other requests between two deletions.
LandYielding(t) ==
    /\ At(t, {"landed"})
    /\ DropSpool(t)
    /\ IF Victims = <<>>
       THEN Leave(t) /\ UNCHANGED doomed
       ELSE /\ doomed' = [doomed EXCEPT ![Pid(t)] = Victims]
            /\ Goto(t, "pruning")
            /\ Yield(t)
            /\ UNCHANGED lock
    /\ UNCHANGED <<content, listing, seen>>

\* The book is in: remove the spool file and look what has to go.
Land(t) ==
    /\ At(t, {"landed"})
    /\ DropSpool(t)
    /\ IF Victims = <<>>
       THEN Leave(t) /\ UNCHANGED doomed
       ELSE /\ doomed' = [doomed EXCEPT ![Pid(t)] = Victims]
            /\ Goto(t, "pruning")
            /\ UNCHANGED <<lock, loop>>
    /\ UNCHANGED <<content, listing, seen>>

\* Half of the next victim is deleted, in the order its directory lists it: any.
DeleteSome(t) ==
    LET d == Head(doomed[Pid(t)]) IN
    /\ At(t, {"pruning"})
    /\ seen' = [seen EXCEPT ![Pid(t)] = content[d]]
    /\ \E kept \in SUBSET content[d] :
        /\ content' = [content EXCEPT ![d] = kept]
        /\ listing' = IF "manifest" \in content[d] \ kept THEN Touched(d) ELSE listing
    /\ Goto(t, "deleting")
    /\ UNCHANGED <<lock, loop, spools, doomed>>

\* The rest of what the deletion found goes, and the directory if nothing was added to it.
DeleteRest(t) ==
    LET p == Pid(t)
        d == Head(doomed[p])
    IN
    /\ At(t, {"deleting"})
    /\ content' = [content EXCEPT ![d] = @ \ seen[p]]
    /\ listing' = IF content[d] \subseteq seen[p] THEN Without(listing, d) ELSE listing
    /\ seen' = [seen EXCEPT ![p] = {}]
    /\ doomed' = [doomed EXCEPT ![p] = Tail(@)]
    /\ IF Len(doomed[p]) = 1 THEN Leave(t) ELSE Goto(t, "pruning") /\ UNCHANGED <<lock, loop>>
    /\ UNCHANGED spools

\* Process p dies and is started again with the same pid, as in its container.  What its
\* builds had written is stale.
Crash(p) ==
    /\ task' = [t \in Tasks |-> IF task[t] # Idle /\ Pid(t) = p THEN Idle ELSE task[t]]
    /\ lock' = [l \in DOMAIN lock |-> IF l[2] = p THEN <<>> ELSE lock[l]]
    /\ loop' = [loop EXCEPT ![p] = NoTask]
    /\ content' = [d \in Dirs |-> IF d[2] = p /\ content[d] # {} THEN {"stale"} ELSE content[d]]
    /\ doomed' = [doomed EXCEPT ![p] = <<>>]
    /\ seen' = [seen EXCEPT ![p] = {}]
    /\ UNCHANGED <<spools, listing>>

----------------------------------------------------------------------------
\* What the process itself brings to an end.
Proceed(t) ==
    \/ FindShelved(t) \/ StartSpool(t) \/ SpoolFails(t) \/ Spooled(t)
    \/ WritePages(t) \/ WriteManifest(t) \/ ExtractFails(t)
    \/ Rename(t) \/ RenameFails(t) \/ Defer(t) \/ Condemn(t) \/ Evict(t)
    \/ Replace(t) \/ ReplaceFails(t)
    \/ Land(t) \/ DeleteSome(t) \/ DeleteRest(t)

Step ==
    \E t \in Tasks :
        \/ \E k \in Keys, p \in Pids : Open(t, k, p)
        \/ ImagesFetched(t)
        \/ Proceed(t)

\* The event loop runs ready tasks first come first served, and SHELVE_TIMEOUT ends every
\* download, so a task that may go on again and again does.
Fairness == \A t \in Tasks : SF_vars(Proceed(t))

SteadySpec == Init /\ [][Step]_vars /\ Fairness
CrashSpec == Init /\ [][Step \/ \E p \in Pids : Crash(p)]_vars /\ Fairness

----------------------------------------------------------------------------
\* The types; the listing names each directory once, and every one that holds something.
TypeOK ==
    /\ task \in [Tasks -> {Idle} \cup [at : Places, key : Keys, pid : Pids]]
    /\ lock \in [Keys \X Pids -> Seq(Tasks)]
    /\ loop \in [Pids -> Tasks \cup {NoTask}]
    /\ spools \subseteq Keys \X Pids
    /\ content \in [Dirs -> SUBSET Parts]
    /\ listing \in Seq(Dirs)
    /\ IsInjective(listing)
    /\ \A d \in Dirs : content[d] # {} => Exists(d)
    /\ doomed \in [Pids -> Seq(Dirs)]
    /\ seen \in [Pids -> SUBSET Parts]

\* One build directory and one spool file have one writer: of the opens of a book in a
\* process, at most one is past the lock (the comment above _SHELVE_LOCKS: eviction "would
\* reopen the very duplicate-shelve race the lock exists to prevent").
OneBuilder ==
    \A t, u \in Tasks :
        task[t] # Idle /\ task[u] # Idle /\ Build(t) = Build(u)
            => t = u \/ At(t, {"queued"}) \/ At(u, {"queued"})

Quiescent == \A p \in Pids : loop[p] = NoTask

\* No reader ever sees a half-written book: whenever a request can run, a directory with a
\* manifest has its chapters (_shelve_record: "so a reader never sees a half-written book
\* and a crash leaves no visible partial state").
NoHalfBook ==
    Quiescent => \A k \in Keys : Shelved(k) => "pages" \in content[<<k, Public>>]

\* Whatever failed, was refused or was pruned on the way, once no open is in progress
\* neither a spool file nor a build directory is left.
NothingLeftBehind ==
    (\A t \in Tasks : task[t] = Idle)
        => spools = {} /\ \A d \in ToSet(listing) : d[2] = Public

\* The published books fit the ceiling whenever a request can run, although builds grow,
\* and count, while other books are published and pruned.
CacheFits ==
    Quiescent => Cardinality({k \in Keys : content[<<k, Public>>] # {}}) <= Limit

\* What a build that died left behind never ends up in a published book, although the
\* next build of the book uses a directory of the same name.
NoStalePages == \A k \in Keys : "stale" \notin content[<<k, Public>>]

\* When two processes shelve one book, the copy published first stays ("discard our copy
\* and defer to whichever finished first"): a whole book stays whole until the pruning
\* takes it, or an open that has found a leftover in its place, and not what came since.
Whole(k) == content[<<k, Public>>] = {"pages", "manifest"}
Pruned(k) == \E t \in Tasks :
    At(t, {"pruning", "deleting"}) /\ Head(doomed[Pid(t)]) = <<k, Public>>
Condemned(k) == \E t \in Tasks : At(t, {"condemned"}) /\ Book(t) = k
FirstWins == [][\A k \in Keys : Whole(k) => Whole(k)' \/ Pruned(k) \/ Condemned(k)]_vars

\* Every open ends, with the book or with an error ("a stalled upstream must not hang the
\* request forever"), however many others wait for the same book.
EveryOpenEnds == \A t \in Tasks : task[t] # Idle ~> task[t] = Idle

=============================================================================
