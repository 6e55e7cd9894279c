# RetroShelf in TLA+

RetroShelf is a bridge that serves OPDS catalogues to very old browsers: one FastAPI
process with one event loop, a JSON state file, a directory of unpacked books and a
directory of covers. This directory holds TLA+ models of its stateful parts, the TLC
configurations that check them on small instances, and proofs, checked by TLAPS, that
carry the main results to every value of the constants.

## Execution model

`Dockerfile` starts one uvicorn process without workers. Every request handler is a
coroutine of its single event loop, so a handler is atomic between two `await`s and only
there. Three things break that atomicity, and the models are about them:

* the handler itself awaits: its form (`_form`), an upstream fetch, the tarpit's sleep, a
  per-book lock, a worker thread; what it read before may be stale afterwards;
* a comic is unpacked by a worker thread (`asyncio.to_thread`), beside the loop;
* the process may die anywhere, and the code also provides for a second process on the
  same cache directory.

## Inventory

| Part | State | Operations | Hard behaviours | What makes it correct |
| --- | --- | --- | --- | --- |
| Login throttle (`throttle.py`, `login_post`) | failure times per address and per username | `locked`, `tarpit_delay`, `record_failure`, `record_success` | pruning on lookup, sweep of an oversized table, cap on samples, a clock read three times around the password hash | the same answers as a throttle that forgets nothing |
| Accounts, profiles, sessions (`store.py`, `accounts.py`, account routes) | accounts, profiles, token versions, cookies in browsers, reading state per profile | setup, login, logout, pick/add/delete profile, change password, sign out everywhere, create account | a session checked before an await and used after it; deletion while a write is under way; two first set-ups | one admin; isolation between accounts; revoked means revoked; no orphaned state |
| Reader cache (`reader.py`) | published books, build directories, spool files, a lock per book | open (download, unpack, rename), prune | queues on a lock, failure at each stage, prunes that meet builds, threads, crashes, two processes | only whole books are published; nothing is left behind; every open ends |
| Reading state (`store.py`) | positions, bookmarks, shelves, favourites, history, the state file | writes with caps, `_save`, `_load` | caps when the clock steps back, swallowed save failures, crash and reload, quarantine | what was just written survives; a restart shows what was saved last |
| Pagination (`reader.py`, `read_part`) | none (a function of block lengths and split size) | `parts_for`, `part_containing`, `percent_of`, next and previous links | boundaries, empty chapters, a position saved under another split size | parts cover every block once; resume lands where reading stopped; turning pages visits everything |
| Feed pages, search, status, `/random` (`main.py`) | the feed cache, one search template per library | `get`, `put`, `_load_feed`, `_resolve_search_url`, `search`, `surprise_me` | fetches that overtake each other, capacity, a failure remembered for good, cycles | no copy shown long after it was replaced; bounded size; a walk misses no book |
| Entries and rows (`opds.py`, `main.py`) | none | `_parse_entry`, `_to_view_model`, `_sorted_page` | links in any order, refused links, formats nobody can open | a row opens what its entry offers |
| Upstream client (`kavita.py`) | the connection pool | `fetch_feed`, `open_stream` | redirects, errors and caps with a connection open; stalled readers | every connection is given back; feeds end |
| Cover cache (`download.py`) | two files for each cover | `stream_cover`, prune | another process writes and prunes the same names, failures and kills between the steps | only whole covers; a directory that fits |
| HTML chapters (`reader.py`) | the normaliser's stack | `_XHTMLNormalizer`, `_split_html_chapters`, `sanitize_chapter` | optional and misnested tags, caps, wrappers in wrappers | no text lost or shown twice; anchors hit |
| Contents and PDF chapters (`reader.py`) | none | `_flatten_pdf_outline`, `_pdf_chapter_ranges`, `_build_toc` | broken, deep, unordered outlines; the limit of pages | each page in one chapter; entries lead where they say |
| Archives, ids, cryptography, configuration, logging, templates | none, or constant after start-up | pure functions | - | outside these models |

Interactions: the gate (`_account_gate`) runs before every route and reads the accounts
and the cookie; reading routes open a book through the reader cache, paginate a chapter,
and write the position into the reading state of the profile that the cookie selects at
that moment; `login_post` consults the throttle before and after it consults the store.

`PROJECT.json` lists the hazards with their lines, and which property catches each.

## Modules

| Module | What it is |
| --- | --- |
| `LoginLimit` | abstract: the answers of a login route that remembers every failure |
| `LoginThrottle` | `app/throttle.py` and the branches of `login_post` that call it |
| `LoginThrottleHistory` | `LoginThrottle` with the complete record as history variables; `Limit == INSTANCE LoginLimit` |
| `LoginThrottle_proofs` | its theorems |
| `Sessions` | the account half of the store and the account routes, with requests in flight |
| `Sessions_proofs` | its theorems |
| `ShelveCache` | `_shelve_record`, its lock, build directory and rename, `prune_reader_cache`, crashes |
| `ShelveCache_proofs` | its theorems |
| `ReadingState` | one profile's reading state in `store.py`, its caps, its file, saves and restarts |
| `ReadingState_proofs` | its theorems |
| `Paging` | parts, resume, page turns and progress in `reader.py` and the reader routes |
| `Paging_proofs` | its theorems |
| `Opds` | an entry, its row and the order of rows, as operators |
| `Mirror` | abstract: a reader is shown editions that were current not long ago |
| `Catalogue` | feed pages with the cache, search, status page, `/random`; `Kept == INSTANCE Mirror` |
| `Catalogue_proofs` | theorems about it, `Mirror` and `Opds` |
| `Upstream` | the upstream client and its connection pool |
| `Covers` | the cover cache, on top of `Upstream` |
| `Covers_proofs` | theorems about both |
| `Chapter` | an HTML document becomes the blocks and anchors of chapters |
| `Contents` | the chapters of a PDF and the tables of contents, as operators |
| `Chapter_proofs` | theorems about both |
| `MCLoginThrottle`, `MCSessions`, `MCShelveCache`, `MCReadingState`, `MCPaging`, `MCCatalogue`, `MCCovers`, `MCChapter` | the instances TLC checks: symmetry, books, libraries, and the short inputs of `Opds` and `Contents` |

### Login throttle

`byIp` and `byUser` are the two dictionaries; a key without an entry is the empty sequence,
which is faithful because `_recent` pops empty lists. One attempt is one step: `login_post`
consults the lock, hashes, records and computes the delay before its next await. Time passes
inside that step (the hash), so the times `t1` of the record and `t2` of the delay are free
choices not before `now`. `locked()` prunes (`AfterLocked`), `tarpit_delay()` prunes again,
and an oversized table is swept whole in either. `answer` is what the client can observe: the
kind of reply and the delay before it.

### Sessions

`flight` holds the requests that are waiting: a POST from its session check to the arrival of
its form, a reading request from the gate to its write after the upstream fetch. A POST keeps
the cookie it was checked with (the snapshot `sess`); `WriteState` looks the session up again,
as `current_profile_id` does. `written[p]` records whose requests wrote the reading state of
`p`, with `Before` for state from before accounts, so mixing two accounts becomes visible.
`NewAccount` is `create_account` with the `add_profile` that follows it in the same step.
A wrong password, a bad name or a missing CSRF token is `TurnAway`: nothing changes.
`FreshSpec` starts with no accounts; `SettledSpec` with an admin and one profile.

Abstracted: ids are fresh (64 random bits), usernames are already casefolded, the response
that sets a cookie reaches the browser in the step that mints it, the limit of 200 accounts
is the size of `AccountIds`. Display names and `rename_profile` change nothing modelled.

### Reader cache

A directory is a set of parts: `pages` (all chapters and images), `manifest`, and `stale` for
files of a build that died. `listing` orders the existing directories by the time
`prune_reader_cache` sorts by. `loop[p]` is the task that is in the middle of a segment of
the event loop of `p`: other tasks of that process wait, but a crash, another process and a
comic's thread do not, and that is why a segment is cut into steps. A lock is the queue of
its tasks, the holder first; asyncio grants it in this order.

| Action | Code |
| --- | --- |
| `Open`, `FindShelved`, `StartSpool` | fast path, lock, second check, download |
| `SpoolFails`, `Spooled` | error or `SHELVE_TIMEOUT`; else a new build directory |
| `ImagesFetched` | a web page's images, awaited one by one |
| `WritePages`, `WriteManifest`, `ExtractFails` | the extractors |
| `Rename`, `RenameFails`, `Defer`, `Condemn`, `Evict`, `Replace`, `ReplaceFails` | the rename and what follows when the target exists |
| `Land`, `DeleteSome`, `DeleteRest` | the spool file goes, the prune scans and deletes |
| `Crash` | the process dies and restarts with the same pid |

`DeleteSome` and `DeleteRest` are the two halves of `shutil.rmtree(ignore_errors=True)`: it
deletes what it listed, in the order the directory lists it (any), and keeps a directory that
received something meanwhile. Sizes count books, and a lone manifest counts nothing.

Not modelled: a disk that fills up between the two `makedirs` of a build (it would leave the
build directory to the next prune), cancellation of a request, and the steps of a process that
removes a directory of its own outside the prune (one step here, even where a second process
could look at it half-way).

### Reading state

`mem` is what `_pstate` returns for one profile and `file` what the state file holds for it.
Each method of the store is one action: it holds the lock throughout and awaits nothing. A
mapping from books to records is a function from books to the time of the record (`added` or
`when`), 0 for none: the caps go by that time and nothing else. `Put` is the assignment and the
`_trim_mapping` that follows it; `AddBookmark` applies the cap of the book and then, as
`Evicted`, that of the books with bookmarks. `Save` is `_save`: the file becomes the new state
or, as every failure is only logged, stays what it was. `Restart` is `_load` with the caps of
`_clean_state`, which keep the first entries in the order of the file; that order is not
modelled, so `Loads` leaves open which ones. `RestartEmpty` is a file that is damaged (moved
aside, or not) or cannot be read. A crash inside a save is a failed save and a restart, because
the file is replaced by a rename. `asked` is what the last request wanted kept.

`SteadySpec` has a wall clock that moves forward. Two records
never carry the same time: a save syncs the file and takes longer than the clock's grain.

Abstracted: the contents of records (the sanitisers drop malformed ones, none of which the
program writes), labels and names (so `RenameShelf` only saves), other profiles, and the
backup that a damaged file becomes.

### Paging

A chapter is the sequence of its blocks' lengths. `PartsFor` is the greedy loop of `parts_for`
(`Grouped` is its state after each block) and `PartContaining` the search of `part_containing`.
`PercentOf` computes with exact fractions; the code's floats may come out one lower, but they
are monotonic as well. `View` is `read_part`: the page, or a 404, and the position it stores.
Each link of a page or of a list is an action: `Turn` and `TurnBack` for Next and Prev, `Jump`
for search hits, bookmarks and footnotes (all go to the part that holds a block), `OpenChapter`
for the table of contents and links between chapters, `Reload` for what redirects back to the
page. `Open` and `Follow` are `/read/{bid}` and the redirect it answers with; another device may
move the shared position in between. `told` is a history variable: how much of the book, from
its beginning, was on some page or was jumped over on purpose.

`SteadySpec` has the part size switched between two visits to the book only (`SwitchElsewhere`).

Not modelled: the links below a page that switch its part size (see *Findings*), a chapter whose cache file is damaged (its links fall back to part 1), and a book
that is shelved anew with other chapters while a position is stored. Then `part_containing`
takes the nearest part, but a chapter that lost all its blocks has none, and opening the book
leads to a 404 until a chapter is picked from the table of contents.

### Browsing: `Opds`, `Catalogue`, `Mirror`

`request[r]` is what the request in slot `r` awaits. A feed page is `Hit`, or `Miss` with its
fetch: `Sent` is the moment the library reads the edition it has, `Received` the moment the
document is parsed, stored and shown, and other fetches of the same page may begin and end in
between. Every page that is rendered mints new bridge ids, so several links lead to one page and
each has its own entry in the cache. A link to the next or previous page that the guard refuses
is found only after `put`, so `Received` may show an error and store the feed all the same.

| Action | Code |
| --- | --- |
| `Hit`, `Miss`, `Sent`, `Received`, `FeedFails` | `GET /feed/{fid}`, `_load_feed`, `FeedCache` |
| `StartSearch`, `Learn`, `GiveUp`, `Answer`, `Garbled`, `Gathered` | `search`, `_search_one`, `_resolve_search_url` |
| `StartStatus` | `status_page`, whose checks end as `Answer` does |
| `StartWalk`, `Turn`, `Look`, `DeadEnd`, `WalkRaises`, `NextLibrary`, `NoLuck` | `surprise_me` |

`Mirror` knows no cache: a page is shown in an edition that was the library's own at most
`Horizon` ago. `Catalogue` implements it with `Horizon` one lifetime plus the longest fetch, and
not with less, because a fetch that was sent early is stored late with a full lifetime.

`Opds` describes a link by what the branches of the program distinguish (its role, its format,
whether it has an address and whether the guard lets it pass) and compares `ParseEntry`, `Row`
and `SortedPage` with descriptions of what they promise. `Ranked` is `sorted()`: a member is preceded
by those that a strict order puts before it, and `StableOrder` is such an order because rows with equal
keys keep their places. The links of entries and the rows of pages that occur are constants
(`LinkLists`, `RowLists`); `PageShows` is a matter of no state and is evaluated in the first one, and so
is `ContentsLead`.

### Upstream and covers

A request awaits a connection of its process's pool, the head of the answer, then the body; a
download then waits for its reader. `Follow` closes the connection and asks again, up to
`MaxHops` times; the verdict of `resolve_url` is the set `Allowed`. `FetchFails` stands for every
other end: transport errors, timeouts, error statuses, refused or missing locations, bodies over
the cap.

`Covers` continues where a cover has been read. `covers` is the directory, oldest file first.
One process saves without an await (`Runs`), so its other requests wait; a second process and a
kill do not, and that is why a save is cut into `OpenTmp`, `WriteTmp`, `Rename`, `OpenType`,
`WriteType`, `Scan` and one `Prune` for each file. A file that was opened and not yet written is
not `whole`, but counts in full: what fits in the model fits in the directory. `unpruned` is a history variable: a save ended early since
the last scan. A cover that is served from the directory changes nothing and is left out.

### Chapters and contents

The actions of `Chapter` are the handlers of `_XHTMLNormalizer`, one for each token; a document
is the sequence of tokens they read, and `out` the body they build. `Document` closes what is
open, as `result()` does; from there on everything is an operator: `Surface` is
`_top_level_block_elements`, `Chapters` is `_split_html_chapters`, `Blocks`, `Shown` and `Anchors`
are `sanitize_chapter` of one chapter. A chapter is the set of its top-level blocks, known by their
positions in the document, and so are the blocks of a chapter; `InOrder` numbers them. Tag names are those of one representative for each set in
the code. Of attributes there is only whether `_emit_attrs` writes one twice into a start tag
(`Repeats`): `repeated` says that it has, and such a body is refused with the whole book, so
that `TextKept` and `AnchorsHit` are about the others. The values of attributes, images and blank
text are left out; ids are distinct.

`Contents` represents an outline by its items in reading order with their depths. In a nav, an
item without a link of its own takes the first link below it (`Linked`). `Sorted` is `sorted()` of
a set of numbers, and `Picked` a list comprehension with a condition. The outlines, navs and files
that occur are constants (`PdfOutlines`, `Navs`, `ChapterOf`): TLC has all the short ones, the
proofs have any.

## Runs

| Run | Specification | Instance | Shows |
| --- | --- | --- | --- |
| `login` | `HSpec` | 2 addresses, 2 usernames, window 2, lock at 2, ramp of 2, sweep above 1 key, clock to 2, 5 failures | `TypeOK`, `FailureBudget`, `HistoryInv`, and the refinement `AnswersAsUnbounded` |
| `sessions_setup` | `FreshSpec` | 2 browsers, 2 requests, 2 usernames, 2 accounts, 2 profiles, 2 versions | `TypeOK`, `OneAdmin`, `CookiesAreOwn`, `PickingRevivesNothing` |
| `sessions_settled` | `SettledSpec` | 1 browser (two sessions in turn), 2 requests, 2 accounts, 3 profiles, expiry within the clock | `ProfileCount`, `NoOrphanState`, `ProfileIsolation` |
| `shelve_prune` | `SteadySpec` | 3 opens, 1 EPUB, 2 web pages, 1 process, ceiling 1 | `TypeOK`, `OneBuilder`, `NoHalfBook`, `NothingLeftBehind`, `CacheFits` |
| `shelve_restart` | `CrashSpec` | 3 opens, 1 comic, 2 processes, ceiling 1 | `NoStalePages`, `FirstWins`, `EveryOpenEnds` |
| `shelve_thread` | `SteadySpec` | 2 opens, 1 EPUB, 1 comic | finding: `NoHalfBook` fails without a crash |
| `reading_steady` | `SteadySpec` | 2 books, 3 spots, 2 shelves, every cap 1 except 2 bookmarks per book, 3 timed records | `TypeOK`, `LoadIsLossless`, `ReadYourWrites`, `OldestFirst` |
| `paging` | `SteadySpec` | 2 devices, 5 books of up to 5 chapters and 6 blocks, part sizes 2, 4 and whole | `TypeOK`, `EveryBlockHasItsPage`, `LinksMeet`, `NothingSkipped`, `ProgressOnward` |
| `catalogue` | `Spec` | 2 requests, 2 libraries, 4 pages with a cycle, 3 links of which 2 lead to one page, cache of 2, lifetime 1, fetches of up to 1, budget 4; entries of up to 4 links, pages of up to 3 rows | `TypeOK`, `NoBookMissed`, `PageShows`, and the refinement `MirrorsLibraries` |
| `covers` | `Spec` | 2 processes, 3 requests, pool of 1, 2 hops, 1 chunk, 1 cover, a directory that holds it but no second copy | `OneConnectionEach`, `WholeCovers`, `CoversFit`, `FeedsEnd` |
| `chapter` | `Spec` | 5 tags, no attributes or an id twice, up to 6 events, depth 2, 4 elements, wrappers flattened once; outlines of up to 3 items over PDFs of up to 4 pages, 2 to a run, 2 chapters, 2 entries; navs and NCXs of up to 2 items | `WellNested`, `TextKept`, `AnchorsHit`, `ContentsLead` |
| `chapter_whole` | `Spec` | as `chapter` | finding: `ContentKept` fails |

Why the bounds suffice. The throttle's limits are the smallest at which lock, ramp, saturation,
sample cap (4, reached with 5 failures) and sweep all happen, with failures that expire within
the clock. In `Sessions` every hazard is a race of two requests, so two slots are needed and a
third repeats the same races with more interleavings; `MaxProfiles` is 2 so that both ends of
`1.._MAX_PROFILES` are met; three profile ids let a deleted one be followed by another. In
`ShelveCache` the ceiling of one book makes every second publication prune, three opens form a
queue behind a holder, and two suffice for a build that meets a prune. In `ReadingState` a cap
of one makes every second record an eviction; two bookmarks per book and three spots let a book
be full without being the one to go, and three moments let an old record, a refreshed one and a
new one meet. Records that need no time (history, shelves, removals) and restarts are unbounded.
The books of `Paging` have empty chapters first, last, in the middle and twice in a row, blocks
longer than a part, parts with a rest, and parts that end with their chapter. The clocks, the
number of failures and the versions are bounds of the models only: a behaviour stops there, so
`CHECK_DEADLOCK FALSE` is set in those runs. Deadlock is checked in `shelve_prune`,
`shelve_restart`, `reading_steady` and `paging`.

In `Catalogue` two requests overlap in one page and race for a cache of two entries; feed pages,
searches and walks share no state, so the constraint `Separately` explores each kind alone (and
walks one at a time: they share nothing at all). The first library is a cycle
without books, which a budget of four walks to its end; the second one leads into the same cycle, and
in its second row to the only book, so that its walk meets pages already visited by the first one and
must still go on to the book, or runs out of budget in the cycle. A clock up to
three lets an entry outlive its lifetime with a fetch under way. In `Covers` a pool of one
connection is the pool at its limit; the third request is the second process. In `Chapter` six
events hold a wrapper with two blocks, or an unclosed block with another inside; depth and
element caps are small enough to be met within them. `Contents` meets every cap of its constants,
the limit of pages included, because `MaxPages` is `RunLength * MaxChapters`, as in the source.

### Fairness

`LoginThrottle`, `Sessions`, `ReadingState`, `Paging`, `Catalogue` and `Chapter` have safety properties only. `ShelveCache` assumes strong
fairness of `Proceed(t)` for each open: asyncio runs ready callbacks in order, so a task that
is ready again and again between the segments of others gets its turn; locks are granted first
come first served; and `asyncio.wait_for(..., SHELVE_TIMEOUT)` ends every download. Nothing of
the kind bounds the images of a web page, so `ImagesFetched` has no fairness; `shelve_restart`
has no web pages, and there every open ends. Crashes have no fairness, and the liveness property
holds under any number of them.

`Covers` assumes weak fairness of a save, which awaits nothing, and strong fairness of the fetch
of a feed: each of its waits ends within `FEED_READ_TIMEOUT`, and the event loop comes back to it
between the saves of other covers. Covers and downloads have no read timeout and no fairness.

## Findings

1. `shelve_thread`: the prune deletes build directories too. A web page's open then fails; a
   comic's thread may write its manifest into what is being deleted and publish it without
   pages.
2. `chapter_whole`: text that follows an element inside a wrapper without text of its own, as in
   `<div><p>one</p>two</div>`, is shown nowhere, although `_top_level_block_elements` promises that
   content is never dropped. `TextKept` shows that no other text of a body that can be parsed is lost, but for dropped elements.

Two more have a configuration, with which TLC finds a counterexample, but no run in `PROJECT.json`:

* `tlc -config MCChapterRefused.cfg MCChapter` (`WellFormed`): `_emit_attrs` (`reader.py:1597`)
  writes an attribute as often as the start tag has it. One `<p id=a id=b>`, or an old-style anchor
  with two names, which both become ids, makes the body unparseable, and `fromstring` refuses the
  whole book (`reader.py:1902`), although `_XHTMLNormalizer` promises "one well-formed XHTML
  `<body>` string" of any tag soup (`reader.py:1515`). `WellNested` shows that the nesting, at
  least, always is; `TextKept`, `AnchorsHit` and `ContentKept` are about bodies that can be parsed.
* `tlc -config MCCoversType.cfg MCCovers` (`TypesWhole`): the type file of a cover is not renamed
  into place but opened, which empties it, and then written (`download.py:445`). If the process dies
  or the write fails in between, the cover stays with an empty type file and is served as
  `application/octet-stream` until it is pruned, although `stream_cover` says that "a crash mid-write
  leaves no corrupt entry" (`download.py:440`). Another process may serve it so meanwhile.

Met while modelling, without a run of their own:

* A crash while the prune deletes a published book may leave its manifest without its chapters,
  and every later open is served that manifest (`NoHalfBook` fails under `CrashSpec`).
* With two processes, one that found a leftover without a manifest may remove the whole copy that
  the other published between its look and its removal (`Condemn`, `Evict`); `FirstWins` excepts
  this case.
* The image fetches of a web page have no timeout (`reader.py:1765`) and hold the book's lock: one
  image that stalls keeps every open of that page waiting.
* After the wall clock was set back, the book marked last is the oldest, and the eviction of
  `add_bookmark` (`store.py:895`), which spares that book, drops none instead of the next one. The
  table of bookmarks outgrows its cap, and a restart cuts what is over at the end of the file.
* The part-size links of a page (`main.py:2218`) return to the same part number. Under the new size
  that is other text, whose beginning becomes the stored position, or a 404. Switching in another
  book and coming back finds the spot (`NothingSkipped`).
* `OpdsParseError` (`opds.py:56`) is no `RetroShelfError`. A library that answers a search with
  something else than a feed therefore fails the whole search (`Garbled`), although `_search_one`
  says "never raises", ends `/random` (`WalkRaises`), and turns a feed page into a 500; the row
  for it in `_ERROR_TABLE` is out of reach.
* A search template that could not be fetched is remembered as absent (`GiveUp`), even over one
  that another request has learnt meanwhile. Templates are kept per origin, so two libraries on one
  host share theirs.
* The set of pages `/random` has visited is shared by its two libraries; `NoBookMissed` shows that
  this loses no book as long as no branch fails.
* A book whose preferred acquisition the guard refuses is left out, whatever else it offers.
* The type file of a cover may be pruned before its payload when both are of one clock tick, or
  never be written: the cover is then served as `image/jpeg`. A save that fails skips the pruning.
  An error of the transport in the middle of a cover is a 500, although `main.py:2372` announces an
  empty picture on any retrieval error.
* `_XML_BAD_CHARS` keeps U+FFFE and U+FFFF, which XML forbids as well: a web page with one of
  them is refused like one with a repeated attribute, although the comment there
  (`reader.py:1500`) says that the document always parses.
* A document that leaves out `</head>` loses all its text; a script beyond the cap on elements or
  depth becomes text; at the cap on depth the end tag of an element that was left out closes
  another of the same name. Ids on wrappers that are descended into, and on blocks that come out
  empty, are not recorded.
* In a nav, a heading without a link appears under the name and with the target of its first
  chapter, which is then listed twice (`Linked`).
* Two overlapping `POST /setup` both see no account and both create one; the second is no admin
  (`OneAdmin`), but no admin asked for it either.
* A reading route whose profile vanished during its fetch writes to the sentinel state, which
  all accounts share (`WriteState`); the docstring of `current_profile_id` rules that out.
* A request whose session is revoked while its form is awaited still acts on it; with *password*
  or *sign out everywhere* it receives a fresh cookie. Picking a profile does not
  (`PickingRevivesNothing`), because it mints the snapshot's version.
* `read_part` stores the progress of the first block of the page. The last page of a book
  records 100% only if it is a single block and no chapter without blocks follows, while
  `docs/specs/2026-08-23-epub-reader.md` lets the last part of the last chapter be "finished".
* `parts_for` gives a block longer than the target a part of its own only if it is the first
  block of its part: shorter blocks before it share the part.

## Proofs

The modules `*_proofs` hold for every set of addresses, users, browsers, requests, accounts,
profiles, books, shelves, links, pages, libraries, covers and processes and every limit that the
`ASSUME`s of the modules allow; a theorem with a further assumption says so. Each inductive
invariant was checked by TLC on the instance of the run before it was proved.

**Login throttle** (`LoginThrottle_proofs`)

* `HistoryInvariant`: `HistoryInv` is inductive for `HSpec`. `TypeOK` and `FailureBudget` alone
  do not relate the tables to the record; the invariant adds `Tracks`: each list is a suffix of
  the complete record, and what is missing before it is expired or older than `MaxSamples` newer
  failures. The proof rests on lemmas about suffixes of sorted sequences (pruning a suffix,
  appending to it, keeping its newest samples), and on the arithmetic fact that `MaxSamples`
  failures saturate both the lock and the ramp.
* `ThrottleImplementsLimit`: with that invariant every step of the throttle is the step of the
  same name of `LoginLimit`: counting the live samples decides `Refused` and `RampedDelay` as
  counting the complete record does. `TypeCorrect` and `BudgetKept` are corollaries.

**Accounts and sessions** (`Sessions_proofs`)

* `FreshInvariant` and `SettledInvariant`: the inductive invariant of `Sessions` adds to the
  checked properties that profile sets of different accounts are disjoint, that every profile
  was issued, and that each cookie, in a jar or in flight, names an account that exists, a
  version it has reached, and a profile that is its own, was never issued to another, or is
  gone. `SettledInvariant` adds who wrote what; it needs `accounts # {}`, because setup moves
  the shared state into the admin's profile.
* `PickingRevivesNothingAlways` is the action property, from the same invariant and the action
  that mints the cookie.

**Reading state** (`ReadingState_proofs`)

* `ReadingTypeCorrect`, `LoadIsLosslessAlways`, `ReadYourWritesAlways`: the inductive invariant
  of `ReadingState` adds to the types and caps that no record, in memory or in the file, is from
  the future (`Past`). That makes a new record the newest of its section (`PutKeepsNew`) and the
  book just marked not the oldest, so that the eviction removes another one and restores the cap
  (`EvictsAnother`); a state within its caps is loaded as it is (`WithinCapsLossless`). It is
  exactly what a clock set back destroys. The proofs are about `SteadySpec`.
* `OldestDroppedFirst`: the action property needs that no two records of a section carry the same
  time (`TimesUnique`, in memory and in the file, because a restart brings the file back). Only
  then is what a cap keeps strictly newer than what it drops. `PutDropsOldest` shows it for one
  capped section; a bookmark meets two caps in one step, and there the newest bookmark of each
  book (`LatestMark`, by well-founded induction on its time) orders the books (`EvictsOne`).

**Reader cache** (`ShelveCache_proofs`)

* `Typed`, `OneWriterEach`: `Base` is inductive for every format, any number of processes, and
  crashes. A task is in the queue of its lock until it is done, and at its head once it is past
  the lock (`Locked`); a task in the middle of a segment holds the loop of its process
  (`Segments`); a task that prunes has something left to prune (`Prunes`). `OneBuilder` follows
  because a queue has one head.
* `NothingStalePublished`: a task that has a build directory has emptied it of what a dead build
  left there (`Clean`), and from then on nobody adds `stale` to it.
* `LeavesNothing`: each spool file and each build directory has its task (`Owned`). It is about
  `SteadySpec`, because a crash leaves both behind by design.
* `FirstCopyStays`: no action but `Evict` and the two halves of a deletion takes anything from a
  published directory that is whole; a rename succeeds into an absent or empty one only.
* `ReadersSeeWholeBooks`, `CacheStaysUnderCeiling`: these two assume `SoloAssumption`, one process
  and no comics, as in `shelve_prune`. Only then is the loop held from the first page written to
  the last directory pruned, so that no open can run while a directory is half-deleted. `Solo`
  says what each stage has written (`Progress`), that a published directory is empty or whole
  unless it is being deleted (`Published`, `Deletions`), and that the books which are not yet
  doomed fit the ceiling as soon as the prune has looked (`Fits`). The assumption is no
  convenience: with a comic's worker thread `NoHalfBook` fails (run `shelve_thread`), and a second
  process that prunes a build directory under a writer has the same effect.

**Paging** (`Paging_proofs`), for any books, part sizes and number of devices

* `BlocksHavePages`: the parts of the greedy loop are a `Chain` (each begins where the one before
  ends, the first at block 0, the last at the end of the chapter, none is empty), and every block
  is in one link of a chain. The guards of `PartsFor` exclude each other, which the proof needs
  and the order of the tests in `parts_for` says.
* `Invariance`: `Inv` adds to the checked properties how much of the book the history must know.
  All up to the end of a page that is shown is told, whichever way it was reached (`ShownTold`);
  all before the page a redirect leads to is told, wherever the position has moved since
  (`SentTold`); and all before the stored block, whose percentage is stored with it (`Stored`).
* `ReadingSkipsNothing` and `PageTurnsMeet` follow. Chapters without blocks count nothing
  (`EmptyCountNothing`), so the end of one chapter and the beginning of the next that has text are
  the same place, and `Following` and `Preceding` of the two meet (`NextLeads`, `PrevLeads`).
* `ProgressMovesOn`: the percentage within a chapter lies between those of its two ends, whatever
  its number of blocks (`FractionBounds`, from two lemmas about quotients), and the ends are in
  order (`CharsBeforeGrows`). The percentage at any block of the last chapter but its last is at
  most 100, so the jump to 100 at the end goes up as well.

Recursive functions (`Grouped`, `SumTo`) are unfolded by hand: the function with the recursive
equation exists, because a first index without one would have a predecessor with one
(`Smallest`, `SumsExist`, `GroupsExist`).

**Browsing** (`Catalogue_proofs`)

* `FeedsMirrorLibraries`: `Catalogue` implements `Mirror`, step by step. `Had(p, e, t)` says that
  the library still had edition `e` of page `p` at `t` or later. A fetch under way has an edition
  that was there when it began, a copy in the cache one that was there `LongestFetch` before it
  was stored, and neither is lost as time passes and editions appear. A page that is shown is
  then an edition that was current at most one lifetime and one fetch ago, however fetches
  overlap and however many links lead to a page.
* `CacheStaysBounded`: `put` drops the oldest entry at capacity before it knows whether its own
  key is in the cache; the lemma about `Put` bounds the cardinality in either case.
* `WalksMissNoBook`: what a walk has behind it has no book and leads only to pages visited or on
  the frontier (`LeftNone`), the second library's walk included, which inherits the first one's
  visited pages. Once the frontier is empty the visited pages are closed under the navigation
  rows and contain the roots, hence everything in reach; `Reach` is defined as the smallest such
  set. The frontier is a bag, because a page can be on it several times.

* `PagesShowWhatIsOffered`, for any links, rows and limit of links: `EntriesReadAsAdvertised`,
  `RowsOpenWhatTheyOffer` and `SortingKeepsRows` together.
  * The loop over the links keeps `ReadEntry`, what an entry must be after the links so far
    (`ReadOneMore`); that the recursive function exists is shown as in `Paging_proofs` (`ReadsExist`).
  * A book is opened with the first acquisition of the first format it is offered in
    (`FirstFound`, `SupportedFormat`), and its downloads include that one.
  * Pairs of numbers are ordered lexicographically (`BeforeOrders`), so `StableOrder` is strict and
    total (`RowsOrdered`), and such an order enumerates a finite set (`RankedLists`): the rows of
    the page come from distinct places of the feed, all of them (`SortedPlaces`).

**Upstream and covers** (`Covers_proofs`)

* `ConnectionsHold`: a task is known by its shape (`Tasks`), and the shape decides how many
  connections it has; `Connect` takes one only below `PoolSize`.
* `CoversAreWhole`: a temporary file is named after its process, so only the task that saves can
  have written it, and there is one such task in each process (`Alone`); what it renames is
  whole, unless another process has pruned it, and then nothing is renamed.
* `CoversStayWithinLimit`: as long as nobody adds files, the directory fits or somebody is pruning
  a list that has every file of it (`Fits`, `Covered`), namely the last one to have scanned it. Its
  total is that of its list (`Listed`), so it does not stop before the directory fits; files on
  the list that another process has removed meanwhile only make it stop later.

**HTML chapters** (`Chapter_proofs`), for any tags, caps and documents

* `Invariance`: `Inv` says that what has been emitted is a well-nested beginning and leaves open
  exactly what stands on the stack (`Tree`), which `WellNested` alone, about the finished document,
  does not. An event appended to the body leaves the paths of the events before it as they are
  (`AppendPaths`); opening, closing and anything else then each keep `Tree`, and the end tags of
  several elements, implied or misnested, are appended one by one (`TreeClosesSeveral`).
* `BodiesAreWellNested`: the end tags of `result()` close what is left (`DocumentTree`).
* `LinksFindTheirText`: an element inside a block has all its texts in that block, because the
  ancestors of an ancestor are the beginning of the path (`Ancestry`, by the first event at which
  they would not be).
* `TextsShownOnce`: the blocks that contain a text stand on the line of its ancestors. From each of
  them a descent of `_top_level_block_elements` goes down the line and ends at most once
  (`SurfaceOnLine`, `EndsOnce`). The first descent, from the outermost ancestor, finds the top-level
  block, which is in one chapter (`OneChapter`, because the chapters are cut at the largest start not
  after a block); the second, in the body of that chapter, finds the block shown (`LandsOnce`).
  Both end somewhere unless every ancestor is a wrapper and they are fewer than twice
  `_MAX_FLATTEN_DEPTH` (`LandsSomewhere`, `BetweenNowhere`), which is the exception the property
  makes, and the finding of `chapter_whole`. No descent goes through a dropped element
  (`HiddenNowhere`).

**Contents** (`Chapter_proofs`), for any outlines, navs, number of pages and limits, so long as
`MAX_PDF_CHAPTERS` runs hold `MAX_PDF_PAGES`

* A member of a finite set has as many members below it as its position in `Sorted` (`SortedLists`,
  because these numbers grow with the member, `RankGrows`, and are therefore all of them);
  `PickedItems` says the same of a filtered list.
* `PagesAreInOneChapter`: chapters begin at 0 and at distinct, growing pages of the document
  (`StartsInOrder`), cut off at the limit, and the last one goes to the end whatever was cut off; in
  runs, the last one ends where the document does, because the runs at the limit hold all of it
  (`RunsOfPages`).
* `EntriesOpenTheirChapters`, `NavLeadsToItsChapters`: a link that leads to a chapter is not lost in
  `Flattened` or `Toc` (`FlattenedEntries`, `TocEntries`), and the entry has the chapter of its own link.
* `ContentsStartAtTheMargin`, `PdfContentsStartAtTheMargin`: the least depth is that of some entry.
* `ContentsLeadWhereTheySay` is all of these, for the outlines and navs that occur.

**Lemmas** about operators that several proofs use are stated once for each module: removal from
a sequence without repetitions (`RemoveAtProperties`), the names, places and sizes of the files
of a directory, the sets of records that `Put` can keep. The operators of `Covers` and `ShelveCache`
that work on a directory (`Names`, `Has`, `Place`, `Without`, `Total`) are written for these lemmas,
with cardinalities and `RemoveAt` in place of recursion.

Model-checked only: liveness (`EveryOpenEnds`, `FeedsEnd`), which is out of the prover's reach.

## Not modelled

The XML and the texts of feeds, the catalogue `publish.py` writes, the package of an EPUB and the
archive of a CBZ as such, the URL arithmetic of the guard, bridge ids, cookies and password
hashes, the access key and address filter, configuration, logging, and templates: these are
functions of strings and bytes whose difficulty is in the characters, which a model would have to
spell out, or constants after start-up. What other parts need of them is a set or a nondeterministic
choice: `Allowed`, the verdict of a password, the success of an extraction. The clock, the wall
clock, the event loop, the libraries and the death of a process are marked external.

## Plan

1. *Done*: models of the login throttle, accounts and sessions, the reader cache, reading state,
   paging, browsing, the upstream client and covers, HTML chapters and contents; proofs of
   every safety property that the runs check.
2. Still to do: the hazards that no property covers, listed in `PROJECT.json` with the reason.

## How to check

    tlc -config MCLoginThrottle.cfg MCLoginThrottle
    tlc -config MCSessionsFresh.cfg MCSessions
    tlc -config MCShelvePrune.cfg MCShelveCache
    tlc -config MCReadingSteady.cfg MCReadingState
    tlc -config MCPagingSteady.cfg MCPaging
    tlc -config MCCatalogue.cfg MCCatalogue
    tlc -config MCCovers.cfg MCCovers
    tlc -config MCChapter.cfg MCChapter
    tlapm LoginThrottle_proofs.tla
    tlapm Sessions_proofs.tla
    tlapm ReadingState_proofs.tla
    tlapm ShelveCache_proofs.tla
    tlapm Paging_proofs.tla
    tlapm Catalogue_proofs.tla
    tlapm Covers_proofs.tla
    tlapm Chapter_proofs.tla

`PROJECT.json` names every run with its configuration, the properties it checks, for each
property a mutated definition that breaks it, and the source lines each definition models.
