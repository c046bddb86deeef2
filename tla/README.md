# libtorrent-webui in TLA+

libtorrent-webui puts a web interface on a libtorrent session: an HTTP and
websocket server, a binary protocol by which pages keep copies of the session's
state, downloads over HTTP, and a few services that keep the session on disk.
This directory holds TLA+ modules of the parts that have to agree with each
other across threads, polls and restarts, TLC configurations that check them,
and proofs for the TLA+ proof system. PROJECT.json lists every module, run,
theorem, mutant and mapped definition.

## 1. The system

| Part | State | Operations | Talks to |
| --- | --- | --- | --- |
| `torrent_history` | the torrents, the frame each field last changed in, tags, tombstones of removed torrents, a horizon | libtorrent's alerts, `set_tag`, `query`, `query_filtered` | `get-torrent-updates`, `save_resume`, the uTorrent interface |
| `libtorrent_webui` | per-torrent histories (pieces, piece states, files, peers) in caches of ten | the calls of the websocket protocol | all of the session, `torrent_history` |
| `bt/libtorrent-webui.js` and the pages | `_frame`, `_filter`, the page's copy of the list | requests, the handlers of responses | the server, over one websocket |
| `save_resume` | known torrents, a cursor, tags read and not yet applied, saves outstanding, a database | alerts, `tick`, `save_all`, `load` | the session, `torrent_history` (tags), the main loop |
| the loop in `test.cpp` | `quit`, `force_quit` | signals, alert dispatch, tick, shutdown | the observers of `alert_handler` |
| `file_downloader` | a map of requests; per request the next piece, early pieces, the write under way | HTTP requests, read alerts, write completions, shutdown | the session, the connections |
| `webui`, `websocket_conn` | the listener, a chain of requests per connection; a send queue and whether it is closing per websocket | accept, requests, upgrade, packets, close, shutdown | every handler |
| `login`, `login_throttler`, `session_authenticator` | failures and blocks per network in two bounded tables, sessions with an expiry | login, logout, lookup of a cookie | accounts, connections |
| `auto_load` | a directory, an interval, names already loaded, adds not yet confirmed, a timer and a thread | scans, alerts, setters, destructor | the session, the disk, `save_settings` |
| `save_settings` | settings of the session and of the programs, a file and its backup | set by name, save, load | the session, the disk |
| `file_requests` | requests ordered by piece, a cursor, the pieces that are there | `read_piece`, alerts, ticks | libtorrent (a plugin) |
| `utorrent_webui` | none of its own | actions on torrents, settings | `torrent_history`, `save_settings`, `auto_load` |
| `stats_logging`, `error_logger` | log files | alerts | the disk |

Three kinds of threads run: the main thread (alerts, ticks), the threads of the
`io_context` (HTTP and websocket handlers) and libtorrent's own. Components are
tied together by alerts in one direction, by calls through weak
`torrent_handle`s in the other, and by mutexes each component has of its own.
The calls through a handle throw once its torrent is gone.

What is hard here, and where:

* *Frames.* A client is sent what changed after the frame it has. Events may
  come between two polls, between a query and its serialization, and between
  polls of other clients; removed items are remembered only up to a cap; scans
  stop at the first old item. A mistake shows as a list that is wrong for good,
  on one page, long after it happened. (`torrent_history`, `piece_history`)
* *Filters.* The server does not keep what it sent, and has to work out whether
  an item was in the old filter from values that have changed since.
* *Counting answers.* `save_resume` exits when it has as many answers as saves,
  while torrents come and go and answers are late.
* *Restarts.* A row, a tag or a removal has to survive or disappear with a
  torrent over crashes at any step.
* *Fetch, then lock.* The calls about peers and files ask libtorrent before they
  take the mutex of their history, so a history may be fed in another order than
  its values were fetched.
* *Checks apart from what they allow.* A login is four critical sections around a
  slow check of the password; a list of torrents is put in order by positions of
  the last update; a websocket is opened after the others were closed.
* *Timers and threads that end.* A scan may arm a timer again that a destructor
  has cancelled; a listener may accept again while it is stopped.
* *Streams.* Pieces come in any order, because of other requests too, while a
  write is under way, and cancellation races with completion.

What makes the parts correct, in one sentence each: a client that has caught up
shows the session and nothing else; a shutdown that ends has stored what it
promised; a torrent that was removed stays removed; a response body is the range
asked for, and every response ends; packets are sent in order before a websocket
closes; no check of a password begins while its network is blocked; a file is removed only
when its torrent was added; what a completed save wrote can be loaded.

## 2. The modules

| Module | Models | Lines of code |
| --- | --- | --- |
| `TorrentHistory` | `torrent_history`, the serializer of the call, the merge a page does: operators, no next-state relation | `torrent_history.cpp`, `libtorrent_webui.cpp` 419-623, `bt/test.html` |
| `TorrentSync` | sessions and pages that poll without filters; query and serialization are separate steps | the above, and `set_tag` |
| `TorrentFilter` | one page that changes its filter and may overlap its polls | `query_filtered`, `get_updates` of the client library |
| `Ordering` | an order by numbers, and what is left of a sequence | (helpers) |
| `HistoryCache` | the caches of ten histories that four calls share, and the frames of their clients | `libtorrent_webui.cpp` 1459-1532 and the like |
| `PieceUpdates` | `piece_history`, `get-piece-updates` and its clients | `piece_history.cpp`, `libtorrent_webui.cpp` |
| `PeerUpdates` | `peer_history`, `get-peers-updates`, `bt/test_peers.html` | `peer_history.cpp`, `libtorrent_webui.cpp` |
| `FileUpdates` | `file_history`, `get-file-updates` and its clients | `file_history.cpp`, `libtorrent_webui.cpp` |
| `PieceStates` | `piece_state_history`, its alerts, `get-piece-states` | `piece_state_history.cpp`, `libtorrent_webui.cpp` |
| `TorrentTabs` | composes the four above: clients have one page open | |
| `Connections` | the listener, HTTP connections, websockets, `~webui_base()` | `webui.cpp`, `websocket_conn.cpp` |
| `Login` | login, logout, the throttler, sessions | `login.cpp`, `login_throttler.cpp`, `session_authenticator.cpp`, `logout.cpp` |
| `WebServer` | composes `Connections` and `Login` | |
| `TorrentCalls` | the calls of both interfaces that change torrents, permissions, the late answer of add-torrent | `libtorrent_webui.cpp`, `utorrent_webui.cpp`, `perms.cpp` |
| `Settings` | both stores of settings, the calls that set them, save and load | `save_settings.cpp`, `libtorrent_webui.cpp`, `utorrent_webui.cpp` |
| `AutoLoad` | `auto_load`, with its thread, timer and destructor | `auto_load.cpp` |
| `FileRequests` | `file_requests` | `file_requests.cpp` |
| `SessionStats` | the counters, `get-stats`, the client library | `libtorrent_webui.cpp`, `bt/libtorrent-webui.js` |
| `Services` | composes the five above | |
| `SaveResume` | `save_resume`, the observers' order, the main loop, the database, libtorrent as far as it is used | `save_resume.cpp`, `test.cpp` 180-205 |
| `FileDownloader` | `file_request_conn` and `file_downloader` from the point where a request is accepted | `file_downloader.cpp` |
| `ByteStream` | what a response body promises; `FileDownloader` implements it | (specification) |
| `TorrentHistoryProofs` | lemmas about the operators of `TorrentHistory`: frames, order, tombstones, what a response completes | |
| `TorrentSyncProofs`, `TorrentFilterProofs` | theorems about `TorrentSync` and `TorrentFilter` | |
| `TorrentTabsProofs` | theorems about the four pages, as `TorrentTabs` composes them | |
| `SaveResumeProofs` | theorems about `SaveResume` | |
| `FileDownloaderProofs` | theorems about `FileDownloader`, its refinement of `ByteStream` among them | |
| `WebServerProofs` | theorems about `Connections` and `Login`, as `WebServer` composes them | |
| `ServicesProofs` | theorems about `TorrentCalls`, `Settings`, `SessionStats`, `FileRequests` and `AutoLoad`, as `Services` composes them | |
| `MC...` | the constants of the runs | |

**Actions are critical sections.** A handler that holds a component's mutex is
one action; a handler that lets go of it in between, or makes several calls of
libtorrent that may throw, is several. So `get-torrent-updates` is two steps in
`TorrentSync` (`Poll` under the lock of the history; `Apply`, where the tag is
read again through `get_tag`, which is how a response can carry a newer tag than
its frame), and the handler of `add_torrent_alert` in `SaveResume` is one step
in each observer and three in `save_resume` (`ResumeAdded`, `ResumeAddedSave`,
`ResumeAddedApply`). `get-piece-updates` holds one mutex throughout and is one;
`get-peers-updates` and `get-file-updates` fetch before they lock and are two
(`FetchPeers`, `AnswerPeers`). A login is `Attempt`, `Record`, `Destroy` and
`Create`. A save of the settings is one step per call on the file system (`Look`,
`RemoveBackup`, `Rename`, `Truncate`, `Write`), because the process may be killed
between any two. A call on a list of torrents asks for one change of one torrent
per step (`Apply`). What runs on the strand of a connection is one step per
handler; other threads only append to `posted`.

**Compositions.** `TorrentTabs`, `WebServer` and `Services` put together parts
that share a cache protocol, a server or a session but no variable that a step of
one writes and a step of another reads. A behaviour is of one part (`tab`,
`part`): interleaving steps of parts with disjoint state would multiply the
states and add no behaviour of either. What does interact is in one module:
alerts, history and calls in `TorrentCalls`; both interfaces, the file system and
the process that is killed in `Settings`; the listener, connections, other
threads and the destructor in `Connections`.

**Names** are those of the source (`m_queue`, `m_horizon`,
`m_num_in_flight`, `m_next_piece`). Ghost variables, which the code does not
have, are named in the comment of their declaration: `wanted`, `promised`,
`uncounted` in `SaveResume`; `polls`, `lives`, `life` in `HistoryCache`; `starts` and `comings`
in `PieceUpdates` and `PeerUpdates`; `dones`, `wire`, `fate` in `FileDownloader`;
`accepted`, `delivered`, `lost` in `Connections`; `failed` in `Login`; `awaited`
in `TorrentCalls`; `done`, `open`, `overlap` in `Settings`; `loaded`, `kept` in
`AutoLoad`.

**Data.** The sixty fields of `torrent_status` are three, because the code tells
three apart: those filters look at, the others, and the tag, which lives in a
table of its own. Status bits and tags are sets, so that masks are set
operations. A frame is a natural number and `~frame_t{0}` is `Unset`. Resume data
is a version. Payload bytes are their places in the torrent, so that a body that
skips, repeats or shifts a byte is a different sequence. The list order of the
bimap is a relation, `m_order`, because TLC and the provers do better with it
than with a sequence; pairs say which entry is nearer to the head.

In the other modules a field of a peer, a file or a counter is 0 or 1, an
address is a family and a prefix, a form is a sequence of pairs that decode or do
not, a file is absent, partial or whole. Time in `Login` is how long ago a failure
was and how long a block or a session still lasts; elsewhere a timeout may come
at any moment.

**External parts.** libtorrent, the sockets and clients with no page in the
repository are modelled as the code uses them, and marked external in the map:
a session that adds, changes and removes torrents at any time and posts alerts
in order; `save_resume_data` answered once, with data or "not modified"; deadlines
that produce one read each, and one failed read when they are taken back;
handles that throw after a removal.

## 3. The runs

All runs finish in minutes with two workers. "Bound" names the constants.

| Run | Question | Bound |
| --- | --- | --- |
| `torrent_sync` | does a page that has caught up show exactly the session? | 2 torrents (symmetric), 1 client, 1 tombstone, frames to 3 |
| `torrent_sync_live` | does every page catch up once the session is quiet? | 1 torrent, 2 clients |
| `torrent_filter` | is a filtered view whole, and is what leaves the filter reported? | 2 torrents, one of which may be removed; 2 filters, 1 poll at a time |
| `torrent_tabs` | do the four pages about a torrent show what their calls fetched, whoever else polls? | pieces of 2 and 1 blocks, 2 peers, 2 files, 2 clients (symmetric), a cache of one, 3 polls of the torrent and one of another |
| `save_resume` | are saves counted, does every torrent get its turn, and does a clean exit store what it promised? | 2 torrents, one of which changes and may be removed |
| `save_resume_restart` | do tags survive a restart, and does a shutdown end? | 1 torrent, which may be removed, 2 tags, 2 versions, 2 starts |
| `save_resume_removed` | violated: a removal before the add was handled | 1 torrent, 2 starts |
| `file_downloader` | is the body the range, is every waiter woken, does every response end? | 2 requests, 2 pieces of 3 bytes, a range across both and an empty one, the torrent removable |
| `web_server` | do websockets drain and close, does the server end, is a block of a network served? | 2 connections of one request and 2 packets; 3 browsers in 2 networks, a table of one entry, 2 failures |
| `web_shutdown` | violated: a websocket opened after shutdown | same, connections only |
| `services` | are calls answered once, lists moved together, saves kept, files loaded once and removed only then, reads not lost, counters shown? | 3 torrents and one call of each of 2 connections; 3 saves; 2 directories with a file of one name, 2 threads that change its settings twice; 2 pieces and 2 requests; 2 counters, 2 pages |
| `settings_kept` | violated: settings are not loaded again | same, settings only |

**Why the bounds are enough.** One tombstone with two torrents makes the cap, the
eviction and the promotion to a snapshot happen; three frames are needed for a
client to be behind another event on either side of its frame, and the deferred
slot makes a fourth. Two clients are needed where one moves frames under the
other (`torrent_tabs`, `torrent_sync_live`); where the server keeps nothing per
client, as in `torrent_history`, one client sees every interleaving that another
could cause. In `torrent_tabs` the first piece has two blocks so that both a
block update and a whole piece are the shorter encoding for some change, and may
enter the queue twice; a cache of one stands for the cache of ten because what
matters is that a history was dropped and made again. In `save_resume` two
torrents are needed for the cursor, which has to leave the first, stored or gone or
not, to come to the one that changes, and for answers that overlap; the second
start is only needed where loading matters. In `file_downloader` one range
starts within a piece and ends within the next, so both ends of the arithmetic
on offsets matter; a piece comes early while the header is still being written,
or through the other request, whose deadlines it shares; a third piece or a wider
window repeats these cases. In `web_server` two failures block, so that the one before the last and the
last one happen, and three browsers make two overlapping guesses of one network
and a third network that competes for the one entry of the table; a window of two
ticks, a block of three and a second of two make a block that ends within a
second. A packet in the buffer, one behind it and a close are what the send queue
tells apart. In `services` one list is in the opposite order of the queue and one
names a torrent twice; three saves are one that completes, one that is cut off and
one more; a name that is in both directories is what distinguishes a name from a
path; two threads that change the interval, off and on, are what it takes to cancel a
timer late; two requests are before, at or after the cursor.

`SaveResume` and `FileDownloader` have an explicit final step, and
`TorrentHistory` stops taking events at `MaxFrame` but not polls. The three
composed models stop when their bounds on polls, calls, saves and requests are used
up, and a server that has shut down does nothing more, so these runs, and only
these, say `CHECK_DEADLOCK FALSE`.

**What the properties say.** `torrent_sync`: `ClientsInSync` is the promise;
`CopiesComplete` is what the next delta builds on, for copies in flight as well: a
copy is current but for what has changed since its frame (`CopiesCurrent`), and what
it has to drop has a tombstone or the next answer is a snapshot
(`CopiesDroppable`). `InOrder` is what allows the scans to stop early;
`RemovedAreKnown` is what the page assumes when it takes the row of a removed
torrent. `torrent_filter`: `NothingMissing`, `ExitsReported`. `torrent_tabs`:
`QueueShown`, `PeersShown`, `FilesShown` and `StatesShown` are the promise of each
page, what holds of the items that left included, all of clients whose last
snapshot is of the history that answers. `save_resume`: `InFlightAccounted` has
the count of outstanding saves right but for those that `tick()` asked for and did not
count, as `status()` threw (`uncounted`); `CleanExitSaves` is for processes that left
none so; `TypeOK` says that the cursor of `tick()` never dangles and `ChangesAreSaved`
that it comes to each torrent. `save_resume_restart`: `TagsRestored`, and `ShutdownEnds`,
which has the same exception, for the answer of a save that was not counted can take
the count below zero, where it stays (section 4).
`file_downloader`: `StreamsInOrder` is refinement of `ByteStream`, with the same
names for the variables; `Awaited` says that the piece a request waits for has a
deadline or a read on its way, also when another request has taken the shared
deadline back; `DoneOnce`, `RequestsEnd`. `web_server`: `ClosesClean` is what
close() promises (`Drained`) and `~websocket_conn` asserts (`NeverAbandoned`);
`ShutdownReaches` is what `~webui_base()` needs in order to join; `BlockServed` and
`SessionsIdleOut` relate the tables to the failures and uses there really were.
`services`: `Answered` and `MovedTogether` are about calls, `LastSaveKept` about
every prefix of a save, `RemovedWasAdded`, `LoadedOnce`, `ScanScheduled` and
`ThreadJoins` about scans, alerts and setters at once (`ScanScheduled` names the one step
that ends the scans of a directory while they are enabled, `StaleCancel`), `NoLostRead` and
`TimeoutsReached` about waiting requests, with the cursor of the timeouts in
`TypeOK`, and `StatsShown` about frames of answers that are older than what they
ask for.

**Fairness.** A page polls on a timer and the server answers (`WF` of a client's
step in `TorrentSync`). In `SaveResume` the threads run, and ticks that come
again and again while they are wanted are taken in the end (`SF` of the tick: a
tick is due every few seconds and a main loop busy with alerts still gets to it), and libtorrent carries out saves and adds
(`WF`); nothing is assumed of users, signals or crashes. `MaxInFlight` bounds how far
libtorrent is behind with its answers when a tick begins (`NotBehind`): the code has
no such guard, and no property is about the count it would keep. In `FileDownloader` threads run
and writes end one way or the other (`WF` of the handlers), reads are answered,
and a piece that has and keeps a deadline is downloaded; failing writes, failing
reads and removals are not assumed to happen. In `Services` the thread of
`auto_load` runs and its timer expires, and libtorrent calls its plugins' ticks
and finishes handling an alert (`WF` each); nothing is assumed of connections,
users or the disk. `Convergence` is stated under the
condition that the session gets quiet, `RequestsEnd` while the torrent is in it.

**Mutants.** Each property has a definition of the model which, changed the way a
slip in the code would change it, violates it: an eviction that leaves the
horizon, a frame stamped before it is counted, a name that is forgotten, a save
that is not counted, an offset that is not reset, a cancel that does not look
whether the request has stopped. They stand beside the definitions they change,
with a suffix that says what is different.

## 4. What the checks found

Runs that find a violation of what a comment or a document says, with the lines
quoted in PROJECT.json:

* `save_resume_removed`: a torrent that is gone when its `add_torrent_alert` is
  handled is not in `m_torrents`, its row stays and the next start loads it
  (`save_resume.cpp:170`).
* `web_shutdown`: a request that is handled after `shutdown()` opens a websocket
  that nobody closes, and the destructor waits for its client
  (`libtorrent_webui.cpp:407`).
* `settings_kept`: `save()` writes the settings of the session into the dictionary
  "settings" and `load()` looks for them at the top level, so they are back to
  their defaults after a restart (`save_settings.cpp:118`).

Further configurations stand beside the runs, each with one property TLC finds
violated (`tlc -config X.cfg M`):

| Configuration | Module | Property | What happens |
| --- | --- | --- | --- |
| `torrent_filter_stale.cfg` | `MCTorrentFilter` | `NoStaleTorrents` | A torrent that leaves the filter and is removed before the next poll is never reported: its tombstone holds the values of the removal (`torrent_history.cpp:171`; the comment at 229 calls a missed removal "a permanently stale view"). |
| `torrent_pipelined.cfg` | `MCTorrentFilter` | `ViewIsList` | Two polls that overlap carry the same frame, and a torrent the first delivers and that is removed before the second is served stays in the view (`bt/libtorrent-webui.js:425`; the comment at 419 says this is safe). |
| `save_resume_tags.cfg` | `MCSaveResume` | `TagsPersist` | A tag alone does not make a torrent "modified", so one set after the last change is not in the database after a clean exit (`save_resume.cpp:385`; `docs/libtorrent-webui.rst:1384`: "Tag values are persisted across server restarts"). |
| `save_resume_uncounted.cfg` | `MCSaveResume` | `AnswersAreCounted` | `tick()` asks for a save, the torrent goes, and `status()` throws before the save is counted (`save_resume.cpp:371`); the answer is (line 334), so `m_num_in_flight` goes to -1, which the assertion at 333 excludes. A process then told to quit never sees zero and does not end (line 399); if another save is outstanding, the count is one too low and it ends without waiting for that one. |
| `auto_load_stale.cfg` | `MCServices` | `ScanAlwaysScheduled` | Two threads in `set_scan_interval()`: one disables scans and, after the other has enabled them and set the timer, cancels it; scans are enabled and none is to come (`auto_load.cpp:118-121`). |
| `piece_ghosts.cfg` | `MCTorrentTabs` | `NoGhosts` | A piece that leaves the queue, comes back and leaves again between two polls of a client is not reported as removed: its only tombstone says it was added after the client's frame (`piece_history.cpp:122`; `piece_history.hpp:72`). `torrent_history` keeps the earlier tombstone and does not have this. |
| `peer_rows.cfg` | `MCTorrentTabs` | `RowsArePeers` | The page keeps rows under `pid \| 0`, a signed number, and is told of removals by unsigned ones: the row of a peer whose identifier has the top bit stays (`bt/test_peers.html:90`; line 11 says uint32). |
| `piece_states.cfg` | `MCTorrentTabs` | `RegressionShown` | A history that was dropped when pieces were lost starts again at frame 1, and a client with a frame that the new one has reached again gets a delta, not the snapshot that `docs/libtorrent-webui.rst:1311` promises (`piece_state_history.hpp:60`). |
| `queue_order.cfg` | `MCServices` | `OrderPreserved` | Two connections that move torrents before the next state update: the second uses stale positions, and the order within its list is not preserved as `libtorrent_webui.cpp:739` says. |

Behaviours the models have and no property forbids: an exception of a handle
leaves the main loop and ends the process (`save_resume.cpp:385`,
`file_downloader.cpp:161`, `libtorrent_webui.cpp:655`; `Die` and `terminated`); a request of a removed
torrent waits for ever; a request of which the handler threw stays in the map;
a request is aborted because another one that shares its deadline ended; two
saves of the settings that overlap, or two cut off in a row, leave no readable
file; with kept files an add that fails is not tried again. The notes of
the hazards in PROJECT.json say which condition of a property leaves them out.

## 5. What is proved

Each theorem is about the specification a run checks, for every value of its
constants, with all the interleavings, failures and crashes the model has. Each
rests on an inductive invariant; TLC checked the invariants of `SaveResume` and
`FileDownloader` on the runs' instances before they were proved.

| Theorem | States | Inductive invariant |
| --- | --- | --- |
| `TorrentSyncProofs!TypeCorrect`, `FramesInOrder` | `TypeOK`, `InOrder` | `TypeOK /\ Ordered`, then `ClientsBehind` |
| `TorrentSyncProofs!NothingLost`, `CaughtUp`, `RemovalsOfKnown` | `CopiesComplete`, `ClientsInSync`, `RemovedAreKnown` | `CopiesInv` |
| `TorrentFilterProofs!NothingIsMissing`, `ExitsAreReported` (if `MaxInFlight = 1`) | `NothingMissing`, `ExitsReported` | `FilterInv` |
| `TorrentTabsProofs!QueueIsShown` | `QueueShown` | `PieceInv` |
| `TorrentTabsProofs!PeersAreShown` | `PeersShown` | `PeerInv` |
| `TorrentTabsProofs!FilesAreShown` | `FilesShown` | `FileInv` |
| `TorrentTabsProofs!StatesAreShown` | `StatesShown` | `StateInv` |
| `TorrentTabsProofs!TabsTyped` | `TypeOK` | the four above |
| `SaveResumeProofs!TypeCorrect` | `TypeOK`, the cursor of `tick()` in it | `ResumeInv` |
| `SaveResumeProofs!TagsSurvive` | `TagsRestored` | `ResumeInv`, `LoadedInv` |
| `SaveResumeProofs!SavesCounted` | `InFlightAccounted` | `CountInv` |
| `SaveResumeProofs!ExitSavesAll` | `CleanExitSaves` | `LatestInv`, `PromiseInv`, `CountInv` |
| `FileDownloaderProofs!TypeCorrect`, `ToldOnce`, `NoneForgotten` | `TypeOK`, `DoneOnce`, `Awaited` | `TypeInv`, `RequestInv`, `AwaitInv` |
| `FileDownloaderProofs!BytesInOrder` | `StreamsInOrder`: `Spec` implements `ByteStream` | `TypeInv`, `RequestInv` |
| `WebServerProofs!ClosedClean`, `ShutdownFindsAll` | `ClosesClean`, `ShutdownReaches` | `ConnectionInv`, `ReachInv` |
| `WebServerProofs!SessionsEnd`, `ThrottlerBounded` | `SessionsIdleOut`; the tables keep their size | `SessionInv`, `TablesBounded` |
| `WebServerProofs!BlocksAreServed` | `BlockServed` | `BlockInv` |
| `WebServerProofs!ServerTyped` | `TypeOK` | `ConnectionInv`, `BlockInv`, `SessionInv`, `TablesBounded` |
| `ServicesProofs!CountersShown` | `StatsShown` | `StatsInv` |
| `ServicesProofs!EveryRequestRead` | `NoLostRead` | `ReadInv` |
| `ServicesProofs!AskedOnce`, `OnlyAddedRemoved`, `ScansGoOn` | `LoadedOnce`, `RemovedWasAdded`, `ScanScheduled` | `LoadInv`, with `DueTypes` |
| `ServicesProofs!EveryCallAnswered` | `Answered` | `AnswerInv` |
| `ServicesProofs!ListsMoveTogether` | `MovedTogether` | `MoveInv`, with `TorrentTypes` |
| `ServicesProofs!SettingsSurvive` | `LastSaveKept` | `SaveInv` |
| `ServicesProofs!ServicesTyped` | `TypeOK` | `ServicesInv`, with `TorrentTypes` and those of the parts |

The arguments:

* *Frames.* An event stamps what it touches with `m_frame + 1` and puts it in
  front, so the list stays ordered if nothing in it is newer than the slot being
  filled (`m_queue[t].last <= CurrentFrame`), and handing out or counting the slot
  does not change `CurrentFrame`. A tombstone is not newer than an entry of the same
  torrent because an add comes later. `RemovalRecorded` says what the capped deque
  does, `FrontIsNewest` what moving to the front does to the order.
* *Copies.* `Complete(v, K)` says that a copy `v` of frame `K` is one the next delta
  completes: it is current but for what changed since, has or will hear of every
  removal, and knows every torrent whose removal it may hear of (`KnownTo`).
  `ResponseCompletes` shows that the answer to a poll from `K`, applied to such a
  copy, gives the list of the session, however old `K` is and whatever tombstones
  were evicted; one lemma per event shows that a copy that was complete still is,
  also one that is being serialized and reads its tags late (`TagReadLate`).
* *Filters.* A view has the frame and the filter of the poll it is of (`Held`,
  `HeldFrame`, `HeldFilter`), in the page or on its way to it. `Covers` says that it
  has what the filter lets through and what did not change since that frame, with the
  fields of the session; `KeepsOut`, that what it has beside that and did not change
  is nothing the filter lets through. An event keeps both because it stamps what it
  touches (`StaysFiltered`); an answer restores both for the new filter, whatever the
  old one was, because a torrent that did not change is judged by both filters
  (`ResponseFilters`).
* *Pages about a torrent.* The four have one shape: a client whose last snapshot is of
  the history in the cache has a frame that history has handed out, and each item is
  in the client's view as it is in the history or has a frame after the client's
  (`StateCovers`, `HasField`, `PeerCovered`, `PieceCovered`). What left is behind the
  horizon of the history, so that the next answer is a snapshot, or has a tombstone
  that says it was there at the client's frame; this holds of pieces and peers that
  came once, and section 4 shows why not of the others. A history that was dropped
  starts a life of its own (`LifeBehind`: no client has one that was not started), and
  `UsedFirst` says what using the cache leaves in it. Of piece states, `UpToDate` also
  relates the history to the alerts on their way: it will be dropped, or has the
  pieces of the torrent but for those whose alerts are queued; `AlertsHold`, that a
  piece that was lost again has an alert behind its own that drops the history.
* *Saving.* A torrent that has still to be added is nowhere yet (`PlaceInv`), which
  is why the alerts of one torrent come in order and the cursor never dangles.
  `CountInv` accounts for every save asked for: it is with libtorrent or its answer
  is in one of the two queues, and `m_num_in_flight` is the number of these less those
  `tick()` did not count (`NotCounted`), whatever is removed and when.
  `LatestInv` says that a torrent with nothing left to save has its present version
  in the last answer under way or, if there is none, in the database;
  `PromiseInv` that what `save_all()` promised is in the database or under way. An
  exit that left no save uncounted has nothing outstanding by `CountInv`, so it leaves
  both in the database.
* *Downloads.* `RequestInv` says of each request where it is in its range: the
  next piece and the offset in it are where the bytes sent so far end, and what is
  left is what they lack (`Placed`); what its fate, its stage and the table of
  requests have to do with each other (`Fates`); and how often its connection was
  told (`Told`). With it each step maps to a step of `ByteStream` or a
  stutter (`StreamStep`). `AwaitInv` says that every piece a request has asked for and
  not sent is kept or is coming, which is to say that it has a deadline or an alert
  under way; that survives another request taking the shared deadline back, because
  a failed read is left, which aborts whoever waits.
* *Connections, logins.* `ConnectionInv` says that what a websocket accepted is
  what it delivered followed by what is in its buffer, and that it closes once it is
  stopping and the buffer is empty (`Clean`); `ReachInv` that until `shutdown()` every
  websocket with something outstanding is in `m_connections`, and that nobody waits
  for a connection once the acceptor is closed. By `SessionInv` what is left of a
  session and the time since its last use add up to the timeout. An eviction before
  an insertion keeps the tables of the throttler at their size (`TablesBounded`).
  `BlockInv`: the entry of a network that is not blocked has all its failures of the
  window, and they are fewer than it takes; those of one that is blocked are about as
  old as the block (`CountedBy`), because no check of a password began since
  (`NoCheckSince`) and one that was under way is over soon. So none of them is left in
  the window when the block ends and the entry starts empty.
* *Services.* `StatsInv`: a page shows the value of every counter that has not
  changed since its frame, the frames of the answers on their way rise, and each
  covers what changed since the frame it was asked with. `ReadInv`: a request for a
  piece that is there has a read on its way. `LoadInv`: what is under way, or being
  removed, is so once and has its name among the loaded ones; a name stays there for
  a reason (`Reason`): its torrent was added, is kept or was asked for. `GoesOn`,
  of each step: if a timer, a scan or a caller about to set the timer is due while scans
  are on, one still is, except after a `StaleCancel`. A step of one caller leaves what
  the others are at alone, so this holds for any number of them. `AnswerInv`: a call that waits has exactly one place its answer comes
  from. `SaveInv`: at every step of a save the last one that was completed is in the
  file, or in the backup while the file is missing or cut short (`GoodSo`).
* *Lists.* `MoveInv` follows a list that is moved, torrent by torrent (`Steady`): the
  torrents still to be moved are in the order the direction calls for, and in the queue
  those moved so far are where the move puts them and all others in the order they
  were in. For the top and the bottom that is an order stated of the whole queue
  (`Ranked`), which one step extends by one torrent (`TopStep`, `BottomStep`). For up
  and down each torrent that waits is still at its place, and the one it will pass is
  not of those that were moved (`UpOne`, `DownOne`), so a step never changes two
  torrents of the list with each other. `RisingSorts` says that the sort is by the
  positions, which are the places in the queue when the history is up to date.
* *Types of the services.* What is bounded is so by an account. A promise is answered
  at most once because who answers takes it out of `m_requests` in the same step. A piece
  is read once for each request that was `Seen` and once for its alert. In `AutoLoad`
  timers are paid for by changes of the settings (`Spare`): the timer that waits, those
  that expired, the scan and the setters under way are one more than the changes at
  most. Identifiers are handed out for files not asked for before (`IdsLeft`), because
  a file whose torrent was added is not loaded again while it is there (`NotAgain`).

Some theorems have a condition, in the theorem or in its property, for a
reason section 4 gives. `NothingIsMissing` and `ExitsAreReported` are stated for
`MaxInFlight = 1`, polls one at a time: the configuration `torrent_pipelined` shows that
a view need not be right once two overlap. `LastSaveKept` is about saves that do not overlap (`overlap`
records that two did), `CleanExitSaves` about processes that counted every save
(`uncounted`), and `ScanScheduled` has the exception of `StaleCancel`. `MovedTogether` is about a list that no other call came between (`alone`) and
that was begun while the history had the torrents and positions of the queue
(`Current`); positions alone would not do, because a torrent whose `add_torrent_alert`
is still to be handled is skipped and takes no part in the move. A list that begins
at the top of the queue does not move up in order, and one that ends at its bottom does
not move down in order. `MaxInFlight = 1` is a condition on the constants, and the run
`torrent_filter` meets it.

The assumptions are the ones named in the modules (`HistoryAssumption`,
`SaveResumeAssumption`, `DownloaderAssumption`, `LoginAssumption` and the like): bounds
are natural numbers, the sets of the model are finite where the code counts them, a
range lies within its torrent, a torrent has finitely many pieces, requests are sequences
of names with values. The strongest is
that of `Login`: checking a password and the window of the throttler together are no
longer than a block (less than a second, 60 s and 5 min in the code), without which a
check that began before a block may fail after it. TLC evaluates them on the runs.

Sequences are put in order and picked from with operators that say what they return
(`Ascending` and `Picked` of `Ordering`, `Rising` of `TorrentCalls`, `Recent` of `Login`) instead of the
recursive ones of the library, so that they can be reasoned about.

Only model-checked:

* Liveness (`Convergence`, `ChangesAreSaved`, `ShutdownEnds`, `RequestsEnd`, `ThreadJoins`,
  `TimeoutsReached`) and fairness: out of the prover's reach, as is ENABLED.

Every invariant and every step property the runs check is stated by a theorem. The
modules have no RECURSIVE operators.

## 6. The plan

1. *(done)* torrent list, clients, filters; saving and the main loop; downloads.
2. *(done)* the histories of pieces, piece states, peers and files with their
   caches; connections and websockets; logins, throttling and sessions; the calls
   that change torrents, of both interfaces; settings and their file; `auto_load`;
   `file_requests`; counters.
3. *(done)* the theorems of section 5: the list and its copies, saving and exits,
   downloads and their refinement, connections, sessions, settings, calls, `auto_load`,
   `file_requests`, counters, filtered views, the pages about a torrent, blocks, lists
   that are moved, and the types of every specification.
4. Abstract specifications worth stating: a list that clients copy (`TorrentSync`
   and the pages of `TorrentTabs` against one specification of a delta protocol),
   a database that keeps what it promised (`SaveResume`).
5. `m_last_queue_pos` in `SaveResume`.

## 7. Not modelled

Parsing, encoding and formatting (requests, JSON, hex, base64, HTML, the lists the
uTorrent interface returns); the look-ups of accounts in a database or in PAM,
which are a function here; uploads and static files; logs; the command line tools
and the text interface. `get-tracker-updates`, `list-settings`, `get-settings` and
`list-stats` look up and format.

Within what is modelled: a tick of `save_resume` may save as many torrents as it
likes, so how late a save is cannot be said, and queue positions are left out of
it. Frames do not wrap at 2^32, and the counts of `get-piece-updates`, which the
code cuts off at 16 bits, are not cut off. `Login` assumes that checking a password
and the window of the throttler together are no longer than a block (section 5). In
`AutoLoad` a whole file is not
replaced, libtorrent posts alerts, and each call on the timer is one step, though
the timer is shared by threads without a lock. `FileRequests` has one torrent.
`Connections` has handlers that were added before the first client came. TLS and
the idle timeouts of connections appear as errors that may come at any time.

Hazards the models do not decide, beside those of PROJECT.json:

* A tag set through the web interface between the two observers of
  `add_torrent_alert` is overwritten with the one of the database
  (`save_resume.cpp:147`; the steps are in `SaveResume`).
* SIGTERM between the check of `quit` and the condition of the loop ends the
  process without `save_all()` (`test.cpp:185`; the steps are in `SaveResume`, and
  it costs what a crash costs).
* The number of torrents to save in a tick is truncated and the clock is reset at
  every save (`save_resume.cpp:351`); a queue position is taken as stored when its
  statement failed (`save_resume.cpp:329`).
* `add_handler()` changes the list that threads serving requests read
  (`webui.cpp:283`); `test.cpp` adds its handlers once the server runs.
* start and stop of two connections interleave (`libtorrent_webui.cpp:683`; the
  steps are in `TorrentCalls`, and nothing says what two calls at once result in).
* `c > int(m_stats.size())` lets through the index one past the last counter
  (`libtorrent_webui.cpp:1123`); the client library has one frame for all lists of
  counters (`bt/libtorrent-webui.js:669`), and its pages ask for one list each.
* A file that is replaced while its torrent is added is removed and never loaded
  (`auto_load.cpp:240`); `m_timer` is used by several threads without a lock
  (`auto_load.cpp:124`).
* `dir_autoload_flag` turns scans off when it is set and is shown as set when they
  are on (`utorrent_webui.cpp:694`, 553); the queue actions of that interface move
  torrents in the order of the request (`utorrent_webui.cpp:335`).
* Pieces a torrent had before the plugin was loaded are read for nobody
  (`file_requests.cpp:83`).
* `prune_expired()` is called by no program of the repository, so entries of
  sessions nobody asks with again stay (`session_authenticator.cpp:83`).
