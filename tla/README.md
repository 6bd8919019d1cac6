# Elevation: models and proofs

Elevation is a shared jukebox. People in a bar post MP3 files from an Android application, one
loudspeaker plays them in turn, and an administrator may delete songs, exchange two of them and set
the volume. The code is C++ (`project/server`, four processes on one machine) and Kotlin
(`project/client`). This directory holds TLA+ models of it, the TLC configurations that check them
and the TLAPS proofs about them. Paths below are relative to the repository.

    tlc -workers 2 -config MCJukeboxUsers.cfg MCJukebox.tla      # check a run
    tlapm Jukebox_proofs.tla                                     # check the proofs

## 1. The system

| Part | Code | State | Operations | Correct if |
|---|---|---|---|---|
| Song queue | `common/database/Database.cpp`, `struct.sql` | the `songs` table: owner, title, path, order | create, remove, flag, swap, list, wipe | each song leaves once, places stay distinct, order changes only by an exchange |
| File cache | `common/filesystem/FileCache.cpp` | a directory of MP3 files | create, test, write, delete | a queued song keeps its own file |
| http server | `http-server/http/RestApi.cpp` | none of its own | post, delete and list songs; identification | at most five songs per user, nobody's file or row is touched by another's request |
| https server | `https-server/https/descriptions/*.cpp`, `https-server/Admin.cpp` | one SQLite connection; the connected administrator | delete and exchange songs, black list, volume, statistics, passwords | an exchange happens whole or not at all, only the administrator gets in |
| Player loop | `elevation-player/mp3/player/*.cpp`, `mp3/Mp3AutoPlayerCallbacks.cpp` | future, mutex, stop flag, start promise | start, stop, wait, end | one song at a time, removed when over, a stop stops it |
| Player events | `elevation-player/mp3/event`, `common/mp3/communication`, `https-server/mp3/event` | sockets | stop, volume, mute and their answers | each answer reaches its request |
| Accounts | `Database.cpp`, `RestApi.cpp`, `AuthApi.cpp`, `BlacklistApi.cpp`, `Admin.cpp` | users, connections, black list, the administrator's password and connection | identify, log in and out, change the password, block, unblock | a block holds, a blocked user gets nothing, ids last as long as connections |
| SQLite wrapper | `common/database/thread_safe_sqlite.hpp`, `Statement.cpp` | unlock notification | step, prepare, retry | a locked statement is tried again |
| Lists and statistics | `Database.cpp`, `RestApi.cpp`, `FileManagementApi.cpp`, `StatsApi.cpp` | none of their own | list songs, statistics of the day | a list shows the queue in its order, each column what it is called |
| Event packets | `common/mp3/event/packet`, `common/mp3/event` | the place in a stream | serialize, read an event | what is written is read, one event after the other |
| Audio output | `mp3/player/MadDecoder.cpp`, `MadAudioFormatter.cpp`, `pulse/*.cpp` | none that lasts | format a frame, set and read the volume | each sample keeps its side, its place and its sound |
| Command lines | `common/args/RestServerArgsParser.cpp`, `elevation-player/args`, `ssl-daemon/args` | none | parse | options in any order mean the same, ports fit |
| Base64 | `common/misc/Base64.hpp` | none | encode, decode, of strings, buffers and streams | decoding undoes encoding |
| SSL daemon | `ssl-daemon/core`, `ssl-daemon/packet`, `ssl-daemon/ssl`, `common/os` | for each connection two forwarding threads and their runner, a session and a socket in common | accept, forward, cancel, close | each descriptor is closed once, in the end; responses arrive whole; everybody is accepted |
| Start script | `res/scripts/start` | which processes run | start and stop everything | a restart leaves an empty queue and cache |
| Android client: jobs | `AppController.kt`, `SecureRestRequestService.kt`, `RESTRequest.kt`, `TokenManagerService.kt` | one job for each kind of request, the update of the token, user or administrator | queue a job, send a request, identify again after a 403 | one request of a kind at a time, no job waits for itself, one identification at a time |
| Android client: local songs | `LocalSongAdapter.kt`, `DataProvider.kt`, `RestRequestService.kt` | the state of each song of the phone | tap, upload, list | a song on its way is not offered again, none is stuck |
| Android client: refresh loop | `InitializationManager.kt`, `ActiveActivityTrackingService.kt`, `EventManager.kt`, `AppController.kt` | the scheduled task, the number of visible activities | start, stop, resume, change the period | one loop, when something is visible |
| Android client: volume keys | `VolumeController.kt`, `AppController.kt`, `PulseVolume.cpp` | the step the phone shows, the volume of the player | raise, lower, mute, set, poll | the phone comes to show what is played, raising never lowers |

**How they interact.** The player, the http server and the https server are processes that share
`server.db` and the cache directory, without any lock of their own: SQLite serialises commits, and
the file system does the rest. Song requests run on threads of their own, the others on the one
handler thread Pistache makes with its default options; the threads
of a process share *one* SQLite connection (`Database::instance`), hence also the transaction that
`swapSongs` opens on it. The https server sends the player `StopSongEvent`s and volume requests
through a socket. In the player one thread starts songs, `std::async` makes one for each song, and
one thread for each connection calls `stopSong`. At start each process empties the cache and clears
every path, one after the other, while those before it already serve.
Clients reach the https server through the SSL daemon, which gives every connection three threads.
The client is driven by events: `EventManager.dispatchEvent` launches every listener as a coroutine on a
pool of threads and does not wait for any (a `launch` has no parent in the version of the library
that is used), so listeners of different events, and of the same one, overlap.

**What is hard in it.** Steps of requests that read a table or a head of the queue, then act on it
(a post reads its user's songs long before it stores the song; a deletion reads the head of the
queue before it removes or stops); a two-statement swap within a transaction that other threads'
statements fall into; an answer without a number, which may come before its request waits for it or
long after it gave up; SQLite refusing a write when another process waits; a stop flag written
without the mutex that protects the start; a mutex held for the length of a song; restarts that
kill requests between the row and its file; an identification that rewrites the row of a user whom
somebody blocks or identifies meanwhile; threads that cancel one another while they share
descriptors; fields of the client that several coroutines read and write without a lock; coroutines
that wait for one another. `PROJECT.json` lists these hazards, each at its line,
with the properties that cover them.

## 2. Modules

| Module | Models |
|---|---|
| `SongTable` | the `songs` table and its queries, as operators on a sequence of rows |
| `FileStore` | the cache directory and what `FileCache` does to it |
| `Jukebox` | the song queue as the three processes use it; extends the two above |
| `Playlist` | what the queue promises: songs join at the last place, leave once, change places by an exchange |
| `JukeboxPlaylist` | `Jukebox` implements `Playlist`, with `waiting` = the playable rows, `place` = their `song_order` column |
| `MCJukebox` | values and symmetry for TLC |
| `Jukebox_proofs` | lemmas on the queries; invariants of the queue; the refinement of `Playlist`; Base64's one undoes the other |
| `AutoPlayer` | the threads of the player: `Mp3AutoPlayer`, `Mp3Player`, `connectionThread_` |
| `AutoPlayer_proofs` | invariants of the player's threads |
| `VolumeRequests` | volume requests of the https server: handler, reader thread, player connection |
| `VolumeKeys` | the volume keys of the administrator's phone and the jobs they start, composed with `VolumeRequests` |
| `Volume_proofs` | invariants of the volume, from the phone to the sink; theorems on `Mp3Packets` and `AudioOutput` |
| `AccountTables` | the user, connection and administrator tables and their queries |
| `Accounts` | the requests of users and administrator on those tables, statement by statement |
| `Accounts_proofs` | invariants of the tables; the five properties |
| `Views` | the lists of songs and the statistics, as functions of the tables |
| `SqliteCalls` | how a call of SQLite ends, for what SQLite answers |
| `Bytes`, `Base64` | the encodings and decodings of strings, buffers and streams, as functions |
| `Mp3Packets` | the events as bytes, and what the packet reader makes of a stream |
| `AudioOutput` | a decoded frame as bytes, and what PulseAudio's callbacks leave |
| `CommandLine` | the three parsers of arguments |
| `SslDaemon` | the accepting thread, and for each connection its threads, objects and bytes |
| `SslDaemon_proofs` | who holds and closes what; where in the stream of responses each connection is |
| `TokenUpdate` | `updateToken` of the client and those who wait for it |
| `ClientJobs` | the listeners, jobs and requests of the client; extends `TokenUpdate` |
| `ClientJobs_proofs` | the line of the jobs of a kind; who owns an update; who waits for whom |
| `ClientSongs`, `ClientSongs_proofs` | the states of the phone's songs, from the button to the queue and back |
| `RefreshLoop`, `RefreshLoop_proofs` | when the client polls the servers |
| `MCAccounts`, `MCVolume`, `MCSslDaemon`, `MCClientJobs`, `MCClientSongs`, `MCRefreshLoop` | values and symmetry for TLC, and what the functions give on small inputs |

### Jukebox

`songs` is the committed table, as the http server and the player read it; `draft` is the table as
the https server's connection reads it; they differ only while `txn`, the transaction of a swap, is
open. `cache` is the directory. `req[r]` is the request thread `r` serves: its place (`pc`), and its
locals. `player` is the player's loop, `stops` the `StopSongEvent`s under way, `boot` and `restarts`
the start script.

One action is one SQL statement, one file operation or one message, so that requests interleave
wherever the code lets them:

* **post** (`postFile_`): `PostStart`, `PostName` (the file name: user, second, counter), `PostWrite`,
  `PostHeader`, `PostCheck`, then `PostDrop` or `PostInsert`. `PostFetch` is the `std::async` that
  reads the user's songs at any moment before they are needed.
* **delete** (`deleteFile_`): `DeleteRead`, `DeleteHead`, `DeleteRemove`, `DeleteUnlink`. The future
  `std::async` returns is dropped at once and its destructor waits, so the http server runs a single
  deletion at a time.
* **administrator's delete** (`deleteSuperviseurChanson_`): `AdminRead`, `AdminFlag`, `AdminHead`,
  then `AdminStop` or `AdminRemove` and `AdminUnlink`; `AdminRefused` is SQLite's `SQLITE_BUSY`.
* **exchange** (`postSuperviseurInversion_`, `swapSongs`): `InvertRead` twice, `InvertHead`,
  `InvertBegin`, `InvertSelect`, `InvertUpdate1`, `InvertUpdate2`, `InvertCommit`, or
  `InvertRollback`.
* **player** (`Mp3AutoPlayerCallbacks`): `PlayerPoll`, `PlayerOpen`, `PlayerFinish` or `DeliverStop`,
  `PlayerLookup`, `PlayerRemove`, `PlayerUnlink`.
* **start script**: `BootHttp`, `BootHttpsCache`, `BootHttpsDatabase`, `Restart`.

SQLite is modelled from how it is used: a write of the http server or of the player commits by itself
and waits while the https connection holds a lock (the busy handler always retries); a statement on
the https connection joins the open transaction, if any; the upgrade of a read lock is refused while
another process waits to commit. The three kinds of argument `deleteFile` receives are kept apart,
since they do different things: a file name deletes the file, an absolute path deletes nothing, and
an empty path deletes the directory.

### AutoPlayer

The variables carry the names of the code: `m_player` (the song whose `run_` the future stands for),
`m_playerMutex` (its holder), `m_stopRequested`, `m_terminateRequested`, `m_startPromise`. `starter`
is where `songStarter_` is; `caller[t]` where a thread's `stopSong` is, the destructor's included;
`status[n]` what the `run_` thread of song `n` has come to; `waiting` is the queue behind the two
callbacks. A step is one operation on the mutex, the future, a flag or the promise: `startPlaying` is
`StartLock`, `StartGet`, `StartStore`, `StartRun`, and `waitUntilSongFinished` is a lock and a
`Collect`. `Jukebox` takes from it that a song is removed only after it ended, and that a stop may
come when nothing plays.

### VolumeRequests and VolumeKeys

`handler` is the handler thread of the https server: `Change` sends the player an event; in
`getVolumeData` it writes the request (`Request`), then takes the mutex and clears
`m_wasVolumeDataUpdated` (`Clear`), and leaves `wait_for` by `Return` or `Timeout`. `SetVolumeData` is
`readerThread_` of the https server. `toPlayer` and `toServer` are the two directions of the socket;
the connection thread of the player takes one event after the other (`OnChange`, `OnVolumeGetRequest`).
It may be as late as it likes with the next, since a `stopSong` keeps it busy as long as a song lasts
(`AutoPlayer`). `Reading` is what the player's scale gives back: `PulseVolume` converts through two
logarithms and truncates, so that 10, 20 or 30 % come back as 9, 19 or 29, and 5, 15 or 25 as they were.

`VolumeKeys` adds the phone. `currentVolume` is the step it shows; a key changes it at once (`Raise`,
`Lower`, `onSetVolumeTo`) and dispatches its events later (`press`, `Dispatch`), with the step of that
moment. `post[k]` is such an event: its listener runs (`onVolumeChangeRequest`), in any order, and queues a
job; the job at the head of `queue` has its request under way, until it is served (`ServePost`) or
given up (`GiveUp`), and then it may still be served. `poll` is `volumeRequestJob`: `StartPoll`
keeps the phone's volume, `Answer`, `AnswerError` and `GiveUpPoll` end the request, `EndPoll` compares
the result with what the phone shows then, and `onVolumeChanged` is the listener that sets it. The refresh loop may
start a poll at any time, so those that a post's end starts are among them. The history variables are
`trusted` (a poll that began after every key was served has been answered, and no key
or hindered poll since), `floor` (the volume when raise was pressed, until its request is written; a poll
that fails meanwhile, `Fail`, sets it back to 0) and, in the server, the counts
`changes`, `sent` and `before`.

### Accounts

`user` is the table of users, `connections` the ids whose connection has not expired, `admin` the
administrator's connection, `adminPassword` its password. `req[r]` is a request; one action is one SQL
statement. An identification (`getIdentification_`) is `Identify`, `ReadByMac`, `ReadConnected`,
`RefuseBlocked` or `AssignId`, `CreateUser`, `ConnectUser`; a list of songs is `AskAsUser`, `FindUser`,
`ListConnected`, then `ListAnswered` or `ListRefused`; a post's checks are `FindUser`, `PostBlocked`,
`PostAdmitted` or `PostRefused`, after which `Jukebox` begins. Login, logout and password run on the one
handler thread (`AskHandler`, `HandlerFree`), blocking and unblocking on threads of their own.
`made` and `given` are the ids ever generated and answered; `overlap` and `open` of a request are
history: whether another identification of the phone overlapped it, and which phones were not blocked
at some moment of it. `generateId` is taken to return a fresh id: collisions of its 32 bits are left out.

### SslDaemon

`master` is where `DaemonMaster::run` is. A connection has a `phase`; `thread[c]` says where its runner
and its two forwarders are, `holders[c]` which of them hold the session and the socket
(`std::shared_ptr`), `closed[c]` how often each descriptor was closed. Responses are streams of tokens (one
for the headers of a response, one for each byte of its body) that arrive in any parts:
`ReadHead` and `ReadBody` are `HttpPacketReader::readPacket`, `Write` is `SSL_write`, which a client that does not read may keep waiting. `Kill` is `pthread_cancel`, which takes effect
in a call (`Unwind`); `Release` drops a reference and the last one closes. A forwarder cancelled after
its last call, and last, is cancelled within `::close` in a `noexcept` destructor: the daemon is `dead`.

### TokenUpdate and ClientJobs

A slot of `co` is a coroutine: first a listener of an event, then the job it queues, or an update of the
token, or one that waits for it. `co[r].after` is the slot it waits for. `updateToken` is `Check`, then
`JoinUpdate` and `Awaited`, or `Start`, `AwaitOwn` and `ClearOwn`: the field `updateJob` is read and
written between them. `queueJob` is `Queued` and `Assign`, again with the field `last[kind]` between the
two (the job that `Assign` stores may be completed by then, and take the place of a newer one); `Begin`, `Serve`, `Fail`, `GiveUp` and `Finish` are the request. `Handler` says, for
each of the twelve listeners, in which state it acts and what it does while the last job of
its kind is under way; `Follow` which event the request dispatches after its answer. The servers are
external. This client is the only one that logs in; the change of the server's address is left out.

### ClientSongs

`songStates` is `DataProvider`; `drawn` are the buttons as they were last drawn; `upload[u]` is a
`SendSongEvent` from the tap to its last change of state, `list[l]` how far `updateLocalSongSendState` is
with a list of songs. Its loops go song by song, without a lock: `MarkSent` is one turn of the first, `ReadState` and
`ResetState` are the test and the assignment of one turn of the second, between which the button may be tapped.
`sendSong` holds `DataProvider`'s lock over its own test and assignment (`SongSent`).
A list names any songs, since the server's queue outlives the client and is changed by others. `mixed` and
`overtaken` are history: the songs tapped or marked while they were being sent, and those tapped between the two
halves of a turn.

### RefreshLoop

`starter` and `initState` are `InitializationManager`, `activeActivityCounter` is
`ActiveActivityTrackingService`, `thread[t]` the event a thread handles and its next step: `Guard` (the
conditions of `onAppInit` and `onAppResume`), `Cancel`, `Schedule`, `Assign` (`task = ...`). `running` are the
loops scheduled and not cancelled. `overlapped` is history: an event came while another was handled. Fields are read as
they were last written; the initialization is not cancelled.

### Base64

`Encode` and `Decode` give each place of the output from the places of the input, instead of the code's
loops. `stale` is what `a4[i]` holds when the last extraction fails. The body has no white space. The overloads
differ in how they find the end: by the padding, the length, or a failed extraction.

### The other functions

`Views`, `SqliteCalls`, `CommandLine`, `Mp3Packets` and `AudioOutput` have no state either: what matters of this
code is what it returns. `Views` sorts and joins the rows of `SongTable` with the columns that are only shown.
`SqliteCalls` follows one call through SQLite's answers and the ways of `sqlite3_unlock_notify`. `Mp3Packets`
reads a stream of bytes from any place. `AudioOutput` rounds and clips with 32 bits, the sum that
overflows included. What they give on small inputs is stated by named `ASSUME`s that TLC evaluates: `MCAccounts`
for `Views` and `SqliteCalls`, `MCVolume` for `Mp3Packets` and `AudioOutput`, `MCSslDaemon` for
`CommandLine`, `MCJukebox` for `Base64`. Some of them state a defect (`LastSecondIsLost`, `LargePortsDiffer`,
`LostByteLosesTheRest`, `LockedIsNeverWaitedFor`): section 5.

Definitions whose comment says "a fault" are not part of the models: they are the plausible bugs
against which the properties were tried, each by putting it in the place of the definition after it.

## 3. Runs

| Run (`.cfg`) | Result | Shows |
|---|---|---|
| `MCJukeboxUsers` | passes, 1.2 million states | `LastSongGone` no song is played twice; `HeardIsPosted` what is heard is what the row's owner posted; `LimitHolds`; `PlayingIsFirst` the song that plays is the head of the queue, which deletions take for it without asking the player; `NoForeignDelete` no file is deleted under another row |
| `MCJukeboxAdmin` | passes, 2.6 million states | `CommittedOrders` places are distinct in every committed table; `RollbackLosesNothing`; `ImplementsPlaylist` |
| `MCJukeboxLive` | passes, 18 thousand states | `EverySongLeaves`, `EveryRequestEnds` |
| `MCJukeboxNames` | violated | two posts of a user in the same second share a file: the loop tests the name *before* it appends `.mp3` |
| `MCJukeboxStop` | violated | the stop sent for the deleted song can stop the song after it |
| `MCAutoPlayer` | passes, 78 thousand states | `OneSongAtATime`, `RemovedWhenOver`, `StartSeen`, `StopEndsSong`, `EveryStopReturns`, `DestructionEnds` |
| `MCVolume` | passes, 1.9 million states | `ScreenIsTrue` the phone comes to show what is played; `RaiseNeverLowers`; `QuietIsFresh` a volume request made when no old one is pending answers with every change before it; `EveryGetEnds` the handler thread always comes free |
| `MCAccounts` | passes, 3.1 million states | `BlockSticks` only an unblocking, or an identification under way at the block, undoes it; `ShutOut` who is blocked all along gets nothing; `AnswerLives`, `TokenKept` ids last; `PasswordInForce` |
| `MCClientSongs` | passes, 1.8 million states | `NotOfferedTwice`, `LimitOfUploads`, `SendingIsSent` |
| `MCClientJobs` | passes, 4.9 million states | `OneAtATime`, `AdminIsAdmin`, `NoCircle` no coroutines wait in a circle unless an identification was refused, `UpdatesAlone` |
| `MCSslDaemon` | passes, 0.3 million states | `ClosedByTheLast`, `ResponsesIntact`, `TeardownEnds`, `Accepted` |
| `MCRefreshLoop` | passes, 0.4 million states | `OneLoop`, `LoopFollowsView`, for events that do not overlap |

Several properties of the client and of the accounts name the interleavings they leave out (an
`overlap`, a `raced`, `mixed`, `overtaken`, `refused`, `overlapped`, `parted` or `Writing` in them): each of these conditions is needed, TLC
finds a counterexample without it, and section 5 says what goes wrong then.

**Bounds.** Two request threads suffice for the races between two requests; the player, the start
script and the messages add three more actors. `AtMost` says which requests may overlap: two posts
and one deletion by users in the first run (a second deletion waits for the first, as in the code),
two exchanges, a deletion and a post in the second. `MaxSongs` is 3 where exchanges are at
stake (the head may not be exchanged, so a swap needs two songs behind it) and 2 elsewhere (one that
plays, one that waits). `MaxSecond` bounds the posts of one user to the rows of the table.
`MAX_SONG_PER_USER` is 1 in the first run, so that the limit is met, and out of reach in the others.
`MaxStops` is 1: a second stop under way would find what the first may find. `MaxRestarts` is 1.
Deadlock is not checked: when every row is used and every song played, the bounded system stops.
In the player, three songs give one that ends, one that is started while a stop is under way and one
after; two stops overlap, since the player accepts any number of connections (the https server
opens one). In `MCVolume` two changes and two polls leave room for an answer that
comes after its request timed out and is taken by the next, for two requests in the wrong order, and
for a poll that a key overtakes; there are three steps of three percent, so that a step, a percentage and a truncated one can be
told apart and once be confused (step 2 and 2 %). These bounds are too small for one history, a raise whose screen one poll
changes and the next, failing, changes back lower: the proof met it, and `floor` now leaves it out. `MCAccounts` has two identifications of one phone, a request of a user, two on
the handler and one on the black list, of which three overlap: enough for one to read, the second
to change and the third to look; ids are symmetric and two, so that an id can be replaced once.
`MCClientSongs` has two songs, uploads and lists, and a limit of one, which two songs on their way pass. `MCClientJobs` has three coroutines and
three events (the commands are those that differ in what their listener does: one that is skipped,
ones that wait, one that is not queued, one registered twice). `MCSslDaemon` has one connection that
succeeds and one that fails, three responses with bodies of one, two and no bytes. `MCRefreshLoop` has
three listeners at once, four starts of an activity of which two are visible together, and two changes of the
period. Where deadlock is not checked (`MCClientJobs`, `MCSslDaemon`, `MCRefreshLoop`, the player, the
queue), the bounded system really ends: its events are used up, its connections over, its songs played,
or the daemon dead.

**DistinctSeconds.** The `Names` run shows that two posts of one user in one second use one file. In
the other runs that known defect is assumed away (`DistinctSeconds = TRUE`), or it would hide
everything else behind it.

**Fairness.** `Jukebox!LiveSpec`: each request thread and the player go on, with strong fairness,
because their commits may wait for another process's lock: SQLite lets no new reader in once a writer
waits, so the lock comes to be free for good while it waits. Delivery of events and the start
script are weakly fair. Nobody has to post, delete, exchange or restart. Deletions are left out of
that run (they only make songs leave sooner), and its posts come in one order of titles
(`PostedInOrder`), which the symmetry of titles allows and liveness checking cannot use by itself.
`AutoPlayer!FairSpec` is weak fairness of each thread, and of `run_` reading the flag
between two frames, but *not* of songs ending by themselves: `StopEndsSong` must not be true only
because songs are short. What needs songs to end says so (`SongsEnd => ...`).
`VolumeKeys!FairSpec` is weak fairness of the handler, whose `wait_for` ends after ten seconds;
neither the phone, the player nor the reader has to do anything.
`SslDaemon!Spec` is weak fairness of the master and of every thread of a connection, as long as the
daemon lives, except in `Write`: clients may stay, stall, stop reading or leave, and the https server need not write.
`TeardownEnds` therefore ends in closed descriptors or in a client that keeps `forwardToClient_` in a write. Since
the responses are finite, and its premise lasts, the latter is a write that never ends.

## 4. Proofs

All hold for any number of users, titles, threads, songs, posts and restarts, from the assumptions
named in the modules (threads are distinct from "no thread", bounds are naturals, and so on).

**`Jukebox_proofs`.**
* `TypeCorrect`: `Spec => []TypeOK`.
* `PlacesDistinct`: `Spec => []CommittedOrders`. `CommittedOrders` alone is not
  inductive: `InvertCommit` publishes `draft`, and between the two updates `draft` has two songs in
  one place. The invariant `IInv` therefore says (`LockInv`) who may have a transaction open and what
  its place implies, (`SwapInv`) that `draft` is `songs` with exactly what the open swap has written,
  and other requests' deletions, (`GoneInv`) that no path comes back in it, and `OrdersDistinct(songs)`.
  A swap that has written both places is a permutation again, so its commit is
  harmless; nothing but a swap changes a place.
* `RollbackIsHarmless`: the action property `RollbackLosesNothing`, from the same invariant. The rollback is
  harmless because SQLite refuses the first write of a transaction only: by then no deletion has become part of it.
* `HeadIsPlayed`: `PlayingIsFirst`, where exchanges are not part of the traffic (`AtMost["invert"] = 0`, as in the
  run): a step then removes songs or adds one behind all the others, so the player's song keeps the lowest place
  (`HeadInv`). With exchanges it is false: section 5.
* `PlayedSongLeaves`, `PostIsHeard` and `QueuedFilesStay`: `LastSongGone`, `HeardIsPosted` and
  `NoForeignDelete`. All three are about the *name* of a file, by which the player, the cache and the
  table know a song. `NameInv` follows each name from the post that makes it (`PostInv`: no other post,
  no row and not the player have it) to its row (`RowInv`: no other row has it, and the file, if it is
  there, holds what the row announces) and to the player (`PlayInv`); `FollowInv` carries the rows over to `draft`,
  which a commit publishes. The hypothesis is `DistinctSeconds`, the constant that is `TRUE` in the
  run: without it the theorems are false, and `MCJukeboxNames` is the counterexample.
* `LimitIsKept`: `LimitHolds`, without that hypothesis. A post that read fewer songs than the
  limit (`Admitted`) is counted as if it were stored. `LimitInv` says that a user's songs
  and his admitted posts stay below the limit and the posts that may overlap; a reading
  that admits one more leaves room for all the others.
* `PlaylistIsKept`: `Spec => ImplementsPlaylist`. Every step leaves the committed table alone, or it is one of the
  playlist's: a post's insertion is `Add`, a removal `Leave` (or nothing, when the song has left), a start of a
  process `Clear`, and the commit of an inversion `Exchange`, since `SwapInv` says what the draft is by then and
  `GoneInv` that nothing comes back with it. `Playlist` speaks of every song's place and not only of those that wait,
  because a song can leave between the check of an inversion and its commit.
* `FreshNameIsFirst`: while all cached files end in `.mp3`, the loop of `postFile_`
  that looks for an unused name never turns.
* `RoundTrip`, `StringRoundTrip`: for every sequence of bytes, and whatever was in memory, decoding undoes
  encoding, and the length a string is resized to is the one that is written. It needs the padding: `MCJukebox`
  assumes (TLC evaluates it) that without it one byte too many is written.

**`AutoPlayer_proofs`.** `TypeCorrect`, `OneAtATime`, `RemovalIsSafe`, `StartIsSeen`. The core is
`FutureInv`: only the song `m_player` stands for can be playing, and once `startPlaying`'s `get()`
has returned under the mutex none is. `StarterInv` and `QueueInv` follow the starter's song from
new to playing to over; `EndInv` and `PromiseInv` say that nobody waits once the destruction began,
and that a renewed promise belonged to a song that had started.

**`Accounts_proofs`.** `TypeCorrect` and the five properties of the run, `BlocksStick`, `BlockedGetNothing`,
`AnswersLive`, `TokensKept` and `PasswordsInForce`, for any number of phones, ids and requests. None is
inductive alone. `TypeInv` keeps a phone to one row, and an id to one phone. `Own` says that an id a request
holds is nobody else's; `Open` that the history of a request has every phone that is not blocked, and the
phone of whoever passed the black list; `Met` that two identifications of one phone know of each other; `Kept`
that what an identification that met none has read still holds. `HandlerInv` allows one
request on the handler thread, so that the password compared is the one in force.

**`Volume_proofs`.** `TypesCorrect`, `QuietAnswerIsFresh`, `TrustedScreenIsTrue` and `RaiseIsNoLower`, for any
number of steps, posts, polls and messages under way, and any volumes the scale truncates
(`KeysAssumption`: a step is at least two percent; the code's is five).
* `CountInv`: the changes the sink has seen and those on the way to it are all that were sent. It is stated
  by a numbering of the messages under way, `at`, so that each step adds or takes one number.
* `HandlerInv`: a request that found the way empty (`quiet`) is asked, then answered, then known, with no other
  request or answer beside it: nobody but the one handler thread writes requests. With `CountInv`, its answer
  counts every change: `QuietIsFresh`.
* `AloneInv`: a poll that began with every key served, and ended so, ends with the player `Settled`:
  no change is under way and whatever is still to be said of the volume is true. `TrustInv` keeps that,
  for every event of an older poll that is handled later, until the next key: `ScreenIsTrue`. The step comes back
  right from a truncated percentage because two multiples of the step are more than one percent apart
  (`VolumeOfStep`).
* `RaiseInv`, `FloorInv`: a raise from a trusted screen starts at or above the volume, and the polls that end before its
  event is written only set the volume itself; once written, nothing below it is under way.

The proof of `RaiseNeverLowers` failed at first, at `AnswerError`: with four steps of three percent, a poll whose request
fails takes the raised step for a percentage and lowers the screen after another poll's event
had put it back. The property now excludes a poll that fails before the event is written, by name (`Fail`), and
section 5 lists the defect.

Of the functions: `EventsAreRead` (wherever an event stands in a stream, it is read, and the reader stops
at the next), `UnknownIsSkipped`, `ScaledFits` and `ScaleRounds` (a sample is rounded to 16 bits, and cut, unless the
sum overflows), `SamplesKeepPlace` (the bytes of each sample of a frame of any length are at its
place on its side).

**`ClientJobs_proofs`.** `TypeCorrect` and the four properties of the run, for any number of coroutines, events
and any set of commands (`SlotAssumption`: no coroutine is the null or the completed job;
`CommandAssumption`: the commands are among the kinds of listeners).
* `OneRequestOfAKind`: the jobs of a kind form a line: each joins the one before it, the last is in the field or about to be
  written into it, and nobody but the head runs (`Chain`), as long as no two listeners of the kind overlapped (`raced`).
* `AdminIsShown`: a login begins only as user, a logout only as administrator, and nothing else changes
  that state; together with the two lines, one of them is under way at a time (`AdminInv`), so what the client
  shows is what the server last answered.
* `OneUpdate`: the update under way is the one in `updateJob`, and one call owns it until it has cleared
  the field (`UpdateInv`).
* `NobodyWaitsForHimself`: a job joins one that was there when it came, a caller waits for an update, and an update waits for
  nobody, unless it is refused (`LineInv`, `CircleInv`).

**`SslDaemon_proofs`.** `TypeCorrect` and `ClosedOnce`, from `WorkersHold` (a thread that may still
call holds both objects) and `ClosedIsFree`. `ResponsesWhole`: `ResponsesIntact`, for any number and any sizes of
responses and any way their bytes come. `Flow` says that what a connection has buffered and what is to come
are a suffix of the stream (`Suffix`), and, while no body was read in part, that the thread is at the headers, at
the body or past the body of the response after those it has given (`Told`). That responses begin where they should
(`Placed`, `StreamPlaced`) is an induction over `FlattenSeq`, a recursive function: the library's induction theorems
cannot be used, but that a set of naturals has a least one can (`Least`), and from it the induction over the numbers in a set.

**`ClientSongs_proofs`.** `OfferedOnce`, `UploadsLimited`, `SendingEnds`. `Alone` says that a song outside `mixed`
and `overtaken` has one upload while it is on its way, and that no list has read its state to reset it; this gives the
count of uploads from the count of states.

**`RefreshLoop_proofs`.** `LoopsAreKnown`, `LoopIsForTheView`. `Shapes` says what a thread may be doing with
each event; `OneEvent`, `TaskKnows` and `View`, under `~overlapped`, that one event is handled at a time
(or two, `activityStarted` and its resume), which loop is running at each step of it, and why.

**Only model-checked.** The liveness properties (`EverySongLeaves`, `EveryRequestEnds`, `StopEndsSong`,
`EveryStopReturns`, `DestructionEnds`, `EveryGetEnds`, `TeardownEnds`, `Accepted`): fairness and `ENABLED` are out of the
prover's reach. Every other property of a passing run is a theorem. The functions of `Views`, `SqliteCalls` and
`CommandLine` are evaluated on small inputs only.

## 5. Where the code and its comments differ

Two runs end in a violation (`MCJukeboxNames`, `MCJukeboxStop`). The others were met while modelling; where a
property excludes the case by name, removing the condition shows it. `PROJECT.json` has them with their quotations.

Server:
* Deleting a song that is already gone calls `deleteFile("")`, since its path is empty, which removes
  the cache directory with every waiting file (`RestApi.cpp:428`, `FileManagementApi.cpp:111`). The
  songs are then skipped by the player and new posts answer 500; the models contain it, and the
  properties of the first run hold in its presence.
* Deletions pass the absolute path column to `deleteFile`, which then deletes nothing: the file stays
  until the next start.
* The destructor of the player may wait for a whole song, and so may a `stopSong` called while nothing
  plays (`Mp3AutoPlayer.cpp:41`, `:90`): `startPlaying` clears the stop flag.
* The head of the queue is read and acted on later. A user's deletion may remove the song that has become the head, and plays,
  meanwhile (`RestApi.cpp:425`). An exchange (`FileManagementApi.cpp:178`) may begin before one of its songs becomes the head and
  plays, and put it behind the other: it then plays without being the first, and a deletion by the administrator removes its row
  instead of stopping it. `PlayingIsFirst`, with the traffic of `MCJukeboxAdmin`, shows that history.
* An answer to a volume request that comes before the flag is cleared is lost (`HttpsServerVolumeGetRequestAdapter.cpp:17`).
* An identification under way when its phone is blocked undoes the block: `createUser` replaces the row
  with its flag (`RestApi.cpp:195`). Two identifications of one phone that overlap leave one of them an id that is in no table.
* The unblocking answers twice (`BlacklistApi.cpp:161`).
* Base64 text without padding is decoded into one byte too many (`Base64.hpp:214-220`).
* Waiting for an unlock notification locks a mutex twice, and throws (`thread_safe_sqlite.hpp:87`); no process has the second
  connection it would take (`LockedIsNeverWaitedFor`).
* `deletedByAdmin` is read from the column of the place, or from none (`Database.cpp:68`, `FlagIsThePlace`); nobody uses it.
* A song of three minutes and five seconds lasts "03:5" (`Mp3Duration.cpp:25`).
* A song posted in the last second of a day is in no day's statistics (`Database.hpp:28`, `LastSecondIsLost`).
* Port 65536 is taken for port 0 (`RestServerArgsParser.cpp:56`, `LargePortsDiffer`).

SSL daemon:
* Not the runner closes a connection but whoever is last; a forwarder cancelled late ends the daemon.
  A write to a peer that has gone raises SIGPIPE, which nothing ignores.
* A client that stays and reads no more keeps its connection's descriptors after the https server has gone, since
  `SSL_write` has no time limit (`SslSession.cpp:57`).
* A response without a body is dropped and ends its connection; a body that comes in parts is padded with NULs.
* A signal does not stop the daemon on the next connection: the exception is caught by the loop that throws it.

Client:
* `joinChildren` waits for nobody: the application is "initialized" before its token is there.
* A 403 on the identification makes its listener wait for itself; later 403s hang with it, and the queue is reloaded no more.
* Two callers of `updateToken` may both find `updateJob` null: two identifications, or a `updateJob!!` that throws.
* A logout given up and delivered late, a song listed for somebody else, a song tapped twice, two listeners of a kind that
  overlap: see `AdminIsAdmin`, `NotOfferedTwice` and `OneAtATime`.
* A song tapped between the test and the assignment of `updateLocalSongSendState` (`LocalSongAdapter.kt:79`, `:81`) is shown as not
  sent while its upload runs: it is offered again, and one more song than the limit may be on its way (`overtaken`).
* The poll of the volume compares a step with a percentage (`AppController.kt:227`): a phone at step 20 does not see that the
  player is at 20 %. A poll that fails gives back a step as if it were a percentage (`SecureRestRequestService.kt:180`), and may so turn a
  raise that waits to be sent into a request for less than the volume.
  Raising the volume of a muted player sets it to 5 % and leaves it muted (`VolumeController.kt:60`).
* Listeners that overlap may leave a refresh loop that nothing cancels, one that runs while nothing is
  visible, or none while something is (`AppController.kt:121-155`, `ActiveActivityTrackingService.kt:15`).
* The second branch for the server's address is never reached (`AppController.kt:68`), and the block listener is registered twice (`:89`, `:91`).

## 6. Not modelled

Titles stand for title and artist. Left out of the queue: duration, timestamps, `deleted_by_admin`,
`getSongByTitle` and `getAllSongs` (which nothing calls), the ports and retries of the
start script; `Views` has the columns that are only shown and the statistics. Left out of the player: the moves of `Mp3Player` (never called) and callbacks that
throw anything but what they catch. `SecureRestApi` adds to `RestApi`, so the https server answers the `/usager` routes as well; the models have users at the http
server only, as the application has them. Left out of the accounts: names, addresses, the texts of answers,
tokens that are missing or malformed (they are refused before the database is asked). Left out of the SSL daemon:
what clients send, certificates, OpenSSL's state, and that two of its threads use one session at once.
Left out of the client: what answers show on the screen (the volume apart) and the change of the server's
address; of the volume, changes by other programs on the server's machine, and `++` on a step that a poll sets at that instant. Of SQLite itself, libmad, TagLib and PulseAudio only what they answer: the calls, and the waits for them, are
modelled. The processes contend for SQLite's file lock (`Jukebox`), not for the shared cache the wrapper waits for.
Base64 text with white space or other foreign characters is decoded as in the code, but only text that `Encode` gives
is checked. The socket errors behind `Mp3Packets`, the logger and the tags of a file (whether there is a header apart) are left
out. Views of the client are user interface.

## 7. What could follow

1. The columns that are only shown, of `Views`, and the sockets behind `Mp3Packets`, as part of the models that leave them out.
