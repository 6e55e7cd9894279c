------------------------------- MODULE Covers -------------------------------
(***************************************************************************)
(* The cover cache of app/download.py on top of the upstream client: a     *)
(* cover that is not in the directory is fetched, made smaller and saved,  *)
(* with a file for its content type beside it, and the directory is pruned *)
(* to MAX_COVER_CACHE_BYTES.                                               *)
(*                                                                         *)
(* A process saves a cover without an await, so that its other requests    *)
(* stand still meanwhile; another process on the same volume does not, and *)
(* a process may be killed between any two steps, or one of them fail.     *)
(*                                                                         *)
(* The directory is the sequence of its files, oldest first as the pruning *)
(* sorts them.  A file is "payload", "type" or "tmp", of an address and    *)
(* for tmp of a process; it is whole, or empty because it was opened and   *)
(* not written yet, and counts in full either way.  Two files of one clock *)
(* tick are sorted by size, so a type file may come before its payload.    *)
(***************************************************************************)
EXTENDS Upstream

CONSTANTS
    CoverUrls,      \* addresses of covers
    CoverSize,      \* of a payload
    TypeSize,       \* of a type file
    Limit           \* MAX_COVER_CACHE_BYTES

ASSUME CoversAssumption ==
    /\ CoverUrls \subseteq Allowed
    /\ CoverSize \in Nat /\ TypeSize \in Nat /\ Limit \in Nat

VARIABLES
    covers,         \* the directory
    unpruned        \* a save was cut short since the directory was last scanned

vars == <<fetching, covers, unpruned>>

Payload(u) == <<"payload", u>>
Type(u) == <<"type", u>>
Tmp(u, p) == <<"tmp", u, p>>

Names(dir) == {dir[i].name : i \in DOMAIN dir}
Has(name) == name \in Names(covers)
Place(dir, name) == CHOOSE i \in DOMAIN dir : dir[i].name = name
Without(dir, name) == IF name \in Names(dir) THEN RemoveAt(dir, Place(dir, name)) ELSE dir
Fresh(name, whole) == Append(Without(covers, name), [name |-> name, whole |-> whole])

Size(name) == IF name[1] = "type" THEN TypeSize ELSE CoverSize
SizeOf(names) ==
    LET types == {n \in names : n[1] = "type"}
    IN  TypeSize * Cardinality(types) + CoverSize * Cardinality(names \ types)

\* What a request does between two awaits when it saves a cover.
Saving == {"open", "write", "rename", "type", "fill", "scan", "prune"}
Saves(r) == task[r] # Idle /\ task[r].stage \in Saving

\* No other request of the process is between two awaits.
Runs(r) == \A q \in Requests : ProcessOf[q] = ProcessOf[r] /\ Saves(q) => q = r

----------------------------------------------------------------------------
Init ==
    /\ FetchInit
    /\ covers = <<>>
    /\ unpruned = FALSE

\* A feed or a download is asked for (HEAD of a download fetches nothing).
Ask(r, u) ==
    /\ Runs(r)
    /\ Begin(r, "feed", u) \/ Begin(r, "download", u)
    /\ UNCHANGED <<covers, unpruned>>

\* A cover is asked for that the cache does not have, or has no longer when it is opened.
\* One that the cache has is served from there, and changes nothing.
AskCover(r, u) ==
    /\ Runs(r)
    /\ ~Has(Payload(u))
    /\ u \in CoverUrls
    /\ Begin(r, "cover", u)
    /\ UNCHANGED <<covers, unpruned>>

Fetch(r) == Runs(r) /\ Step(r) /\ UNCHANGED <<covers, unpruned>>

\* The cover is complete, the connection closed, and the picture transcoded, or taken as
\* it came where that fails.  It is saved under the address that was asked for.
CoverRead(r) ==
    /\ Runs(r)
    /\ At(r, "body") /\ Is(r, "cover")
    /\ Close(r)
    /\ task' = [task EXCEPT ![r] = [op |-> "cover", asked |-> task[r].asked, stage |-> "open"]]
    /\ UNCHANGED <<covers, unpruned>>

\* Mutant: the temporary name does not say which process writes it.
TmpOfShared(r) == Tmp(task[r].asked, "any")

TmpOf(r) == Tmp(task[r].asked, ProcessOf[r])

\* open(tmp, "wb") truncates what an earlier save has left.
OpenTmp(r) ==
    /\ At(r, "open")
    /\ covers' = Fresh(TmpOf(r), FALSE)
    /\ Goto(r, "write")
    /\ UNCHANGED <<held, unpruned>>

\* The file may be gone by now: another process has pruned it.
WriteTmp(r) ==
    /\ At(r, "write")
    /\ covers' = IF Has(TmpOf(r)) THEN Fresh(TmpOf(r), TRUE) ELSE covers
    /\ Goto(r, "rename")
    /\ UNCHANGED <<held, unpruned>>

Renamed(u, tmp) ==
    LET dir == Without(covers, Payload(u))
    IN  [i \in DOMAIN dir |-> IF dir[i].name = tmp THEN [dir[i] EXCEPT !.name = Payload(u)]
                              ELSE dir[i]]

\* os.replace() keeps the age of the file.
Rename(r) ==
    /\ At(r, "rename")
    /\ Has(TmpOf(r))
    /\ covers' = Renamed(task[r].asked, TmpOf(r))
    /\ Goto(r, "type")
    /\ UNCHANGED <<held, unpruned>>

\* The type file, which may be of the same clock tick as the payload before it.
Typing(u, whole) ==
    LET dir == Fresh(Type(u), whole)
        n == Len(dir)
    IN
    \/ covers' = dir
    \/ /\ n > 1 /\ dir[n - 1].name = Payload(u)
       /\ covers' = [dir EXCEPT ![n] = dir[n - 1], ![n - 1] = dir[n]]

\* It is written under its own name: open(cache_ct_path, "w") empties the one before.
OpenType(r) ==
    /\ At(r, "type")
    /\ Typing(task[r].asked, FALSE)
    /\ Goto(r, "fill")
    /\ UNCHANGED <<held, unpruned>>

\* The file that was opened may be gone by now, pruned by another process, and one that
\* saves the cover as well may have put another in its place.
WriteType(r) ==
    LET type == Type(task[r].asked) IN
    /\ At(r, "fill")
    /\ \/ Has(type) /\ Typing(task[r].asked, TRUE)
       \/ /\ Has(type) => \E q \in Requests \ {r} : Saves(q)
          /\ UNCHANGED covers
    /\ Goto(r, "scan")
    /\ UNCHANGED <<held, unpruned>>

\* Mutant: the type files are left out of the sum.
TotalOfPayloads == CoverSize * Cardinality({n \in Names(covers) : n[1] # "type"})

Total == SizeOf(Names(covers))

\* _prune_cover_cache(): what is in the directory now, and how much of it there is.
Scan(r) ==
    /\ At(r, "scan")
    /\ unpruned' = FALSE
    /\ IF Total <= Limit
       THEN End(r)
       ELSE task' = [task EXCEPT ![r] =
                [op |-> "cover", asked |-> task[r].asked, stage |-> "prune", total |-> Total,
                 files |-> [i \in DOMAIN covers |-> covers[i].name]]]
    /\ UNCHANGED <<held, covers>>

\* One file of the list, the type file with its payload.  The file may be gone by now.  A
\* removal may fail, of the payload or of its type file; its size is taken off all the same.
Prune(r) ==
    LET w == task[r]
        name == Head(w.files)
        rest == Without(covers, name)
        left == w.total - Size(name)
    IN
    /\ At(r, "prune")
    /\ \/ /\ covers' = IF name[1] = "payload" /\ Has(name) THEN Without(rest, Type(name[2]))
                       ELSE rest
          /\ UNCHANGED unpruned
       \/ covers' \in {covers, rest} /\ unpruned' = TRUE
    /\ IF left <= Limit \/ Tail(w.files) = <<>>
       THEN End(r)
       ELSE task' = [task EXCEPT ![r].total = left, ![r].files = Tail(@)]
    /\ UNCHANGED held

\* OSError: the cover is served all the same, and the rest of the save left out.
SaveFails(r) ==
    /\ Saves(r) /\ ~At(r, "prune")
    /\ End(r)
    /\ unpruned' = TRUE
    /\ UNCHANGED <<held, covers>>

Save(r) ==
    \/ OpenTmp(r) \/ WriteTmp(r) \/ Rename(r) \/ OpenType(r) \/ WriteType(r)
    \/ Scan(r) \/ Prune(r) \/ SaveFails(r)

\* A process is killed, and started again with the same number, as in a container.
Crash(p) ==
    LET mine == {r \in Requests : ProcessOf[r] = p} IN
    /\ \E r \in mine : task[r] # Idle
    /\ task' = [r \in Requests |-> IF r \in mine THEN Idle ELSE task[r]]
    /\ held' = [r \in Requests |-> IF r \in mine THEN 0 ELSE held[r]]
    /\ unpruned' = (unpruned \/ \E r \in mine : Saves(r))
    /\ UNCHANGED covers

Next ==
    \/ \E r \in Requests :
        \/ \E u \in Urls : Ask(r, u) \/ AskCover(r, u)
        \/ Fetch(r) \/ CoverRead(r) \/ Save(r)
    \/ \E p \in Processes : Crash(p)

\* A save comes to its end.  A feed is not kept waiting longer than its timeouts, and the
\* event loop runs what is ready in the order it became so: saves of other covers hold it
\* up time and again, but not for ever.  Other requests may wait for ever.
Fairness ==
    \A r \in Requests :
        /\ WF_vars(Save(r))
        /\ SF_vars(Is(r, "feed") /\ Fetch(r))

Spec == Init /\ [][Next]_vars /\ Fairness

----------------------------------------------------------------------------
TypeOK ==
    /\ FetchTypeOK
    /\ \A r \in Requests : Saves(r) => task[r].op = "cover" /\ task[r].asked \in CoverUrls
    /\ \A i, j \in DOMAIN covers : covers[i].name = covers[j].name => i = j

\* The types hold, and a cover under its own name is a whole one, although processes save it
\* at the same time, prune each other's files and are killed ("so a concurrent reader never
\* sees a half-written cover (and a crash mid-write leaves no corrupt entry)").
WholeCovers ==
    /\ TypeOK
    /\ \A i \in DOMAIN covers : covers[i].name[1] = "payload" => covers[i].whole

\* The directory fits under the limit whenever no cover is being saved, unless a save was
\* cut short since the last scan; files that a save has left behind count, and concurrent
\* prunings do not mislead each other ("until the directory fits under limit").
CoversFit == ~unpruned /\ (\A r \in Requests : ~Saves(r)) => SizeOf(Names(covers)) <= Limit

\* "a crash mid-write leaves no corrupt entry", payload or .ct sidecar: when no cover is being
\* saved, a type file beside its payload says what type that is.
TypesWhole ==
    (\A r \in Requests : ~Saves(r)) =>
        \A u \in CoverUrls :
            Has(Payload(u)) /\ Has(Type(u)) => covers[Place(covers, Type(u))].whole

=============================================================================
