# Vaultra: TLA+ models, model checks and proofs

Vaultra is a desktop client for FTP, FTPS and SFTP (a Rust back end under
`src/src-tauri`, a React front end under `src/src`). This directory models the
parts of it where several things happen at once, checks the models with TLC and
proves the theorems that matter most with TLAPS. Source paths below are
relative to the repository; `queue.rs` stands for
`src/src-tauri/src/transfer/queue.rs`, and so on.

## Inventory

| Component | State | Operations | Hard part |
|---|---|---|---|
| Transfer queue (`transfer/queue.rs`) | `items` (a Vec), `history`, `controls`, `apply_all`, open conflict prompts, the dirty flags | add, insert_children, pause, resume, remove, move, priority, pause/resume all, retry/remove failed, clear, bind/unbind session, complete, schedule_retry, dispatch, persist | each field has a mutex of its own; a command or a task ends in several lock regions, and the tasks write to items without looking at them |
| Worker (`transfer/worker.rs`) | a cloned item, a cancellation token and the `pausing` flag; the destination file | plan, resume, copy, verify, expand a directory, retry | what it decided on is stale by the time it acts |
| Conflicts (`transfer/conflict.rs`) | the policy of the item, of the session ("apply to all") and of the settings | resolve, ask, answer | prompts of several workers at once, a policy that arrives while others wait |
| Throttle (`transfer/throttle.rs`) | a token bucket per direction | consume, set_limit | each consumer sleeps outside the lock for what it computed under it |
| Sessions (`session.rs`) | session table, pool of transfer clients, semaphore, listing cache | connect, disconnect, lease, list, invalidate, keepalive | a lease outlives its session; a listing in flight is cached after the change it misses |
| SFTP (`protocol/sftp`) | table of pending requests, read-ahead window, write window | send, read loop, reader, writer | answers in any order, a connection that dies between two steps |
| FTP (`protocol/ftp`) | control connection, data connections | command/reply, transfers, keepalive | replies belong to commands only by their order |
| Prompt broker (`askpass.rs`) | prompts waiting for the user | ask, answer, timeout | an answer races its timeout |
| Edit in place (`edit.rs`) | watched temporary files | watch, upload | a debounce over the events of the file system |
| Folder comparison (`sync.rs`) | none | compare, classify, collect | which side is newer, and what the choice queues |
| Site store (`sites/`, `credentials.rs`) | site tree and its file, recent list, passwords in the system's store | save, import, remember, forget | two stores that must agree, written one after the other |
| Drag out (`drag_out.rs`) | one drag, its batch in the queue | start, poll, drop, cancel | the drop asks the queue for the rest of a batch that folders still extend |
| User interface (`src/src/state`) | tabs, panes, dialogs | connect, disconnect, close, navigate, answer, refresh | answers that arrive after the user went on |

How they interact: the main thread runs the synchronous `queue_*` commands one
after the other; `session_connect`/`session_disconnect` are asynchronous tasks
that call the queue (`bind_session`, `unbind_session`) and the session manager;
the scheduler task dispatches on a notification or every 400 ms and spawns one
worker task per started item; workers lease a client from their session, call
the conflict dialog through the queue and report back to it. A queue item
refers to its session by id only.

What makes each component correct is stated with its module below; the hazards
these statements are aimed at are listed, line by line, under `hazards` in
`PROJECT.json`.

## Plan

Ordered by what a user loses when it goes wrong.

1. `TransferQueue`, with `TransferLifecycle` as its abstract specification:
   who may start, stop, revive or drop a transfer. *Done; every safety property
   of it and the refinement are proved.*
2. `TransferFile`: what the attempts of one transfer do to its destination.
   *Done, proved.*
3. `SftpClient`: the multiplexed SFTP connection with its pipelined reader and
   writer. *Done, proved.*
4. `FtpControl`: the control channel, where replies belong to commands by their
   order alone. *Done, proved.*
5. `ConnectionPool`, `ListingCache`, `SftpLogin`: what a session keeps besides
   its clients, and how an SFTP client comes to be. *Done, proved.*
6. `QueueFile`, `ConflictPrompts`: what a restart finds, and prompts of several
   workers at once. *Done, proved.*
7. `EditInPlace`, `SiteStore`, `Throttle`, `FolderComparison`, `DragOut`.
   *Done, proved.*
8. `BrowserTabs`: tabs and the remote pane of the user interface. *Done,
   proved.*

Proved means every type, safety and action property; what must eventually happen
stays with TLC.

Left, in this order: the order of the items with their
priorities, moves and the expansion in place (`queue.rs` 141-146, 246-258,
552-565); the local pane with synchronised browsing and the refresh of panes
after transfers (`state/actions.ts`, `transferRefresh.ts`); the merging of
conflict dialogs (`state/store.ts` 119-153); `rebind_session` of an edited file.

Runs are kept few: one instance answers one question, so the modules of 5 are
checked together in one instance, and those of 6 (with the throttle, the drag
and the rest of 7 and 8) in another.

## TransferQueue

One action is what one thread does while it holds one of the mutexes `items`,
`controls` or the session table, so every interleaving that the locks allow is
a behaviour of the model.

| State | Code |
|---|---|
| `fresh` | ids not handed out yet (uuids in the code; the finite set of ids is the bound) |
| `status`, `session`, `attempts`, `waiting` | fields of the `TransferItem`s in `items`; `waiting`: `retry_after` lies in the future |
| `history` | ids in `history` (success only) |
| `controls` | `controls: Mutex<HashMap<String, Control>>`; a Control is named by the generation of the task that holds it |
| `starting` | `to_start` in dispatch |
| `task` | the worker tasks of an id, several when an old one has not ended; each with its cloned item and its Control |
| `link` | a session's way through connect, bind, unbind, disconnect |
| `command`, `closing` | how far the main thread is in a command of several lock regions, and the disconnect task in its own |

Actions carry the names of the functions. Regions are merged only where nothing
can be seen in between: handle_failure writes attempts and status under two
acquisitions of `items` with no other thread reading `attempts`; complete takes
the item and pushes it to the history in two regions and the model keeps both.
`dispatch` reads the session table before it locks `items`: `Mark` takes the
sessions it saw as a parameter, any that ever connected. The order in which
ready items are chosen is left open.

Bounds: one or two ids; `Generations`, how many tasks of one item are alive
at the same time (two, so that an old task overlaps the one that replaced it);
one disconnect at a time; sessions connect once.

### Runs

| Run | Instance | Shows |
|---|---|---|
| `queue_races` | 1 file, 2 sessions, 2 overlapping tasks, 1 retry | `OneOwner`, `AttemptsCurrent`, `RetriesLeft`, `OnlyRemovedIsDropped`, `StoppedStaysStopped` and the refinement `LifecycleSpec` |
| `queue_live` | a directory, a child, one session with one slot, a user who never resumes | `CapKept`, `EveryTransferSettles` |
| `queue_pause_all`, `queue_unpausable` | smallest instances | two places where the code does not do what the interface says; see `findings` |

`TransferLifecycle` is the abstract specification: one phase per item, and the
moves between phases. `TransferQueue` instantiates it (`Lifecycle`) with the
refinement mapping `phase`, in which an item that left `items` is done when it
is in the history, or on its way there, and gone otherwise.

Every invariant speaks of one item at a time or of one session's items, and a
race needs an item, its predecessor task and one actor more; two sessions give
reconnects, and a directory with one child gives expansion behind a snapshot.

Fairness (`queue_live`): the scheduler ticks and timers fire; main-thread
commands and the disconnect task are straight-line code; a worker's protocol
operations return. The last is an assumption about the server and the operating
system rather than about this code: FTP commands and listings have a timeout,
but the data connection of an FTP transfer is read without one, and an SFTP
request waits for as long as the connection lives. The user is restricted to
commands that cannot make an item wait again, so the finiteness of user input
needs no counter.

### Proofs

`TransferQueueProofs`, for every set of items, sessions, limits and overlapping
tasks: `TypeCorrect`, `OneOwnerAlways`, `RetriesBounded`. The inductive
invariant is `IInv`: `TypeOK`, `OneOwner` and `RetriesLeft` with two supports.
`TaskOK` says that the attempts a live task cloned are at most `MaxRetries`,
that an item being archived has left the queue, and that an unused id has no
task; `FreshOK` that an unused id is in no list. `RetriesLeft` is not inductive
without `TaskOK`, because a retry writes the clone's count. Each action is shown
to be one of three kinds: a command that leaves the tasks where they are
(`CommandKeeps`), a task that moves on (`TaskMoves`), a task that ends its item's
activity (`TaskEnds`).

Its second half adds, on top of `IInv`, `CInv`: `AttemptsCurrent`,
`OnlyRemovedIsDropped` and `CommandOK` (a command that is dropping an item is a
remove, and has that item before it). `TaskStep` is the lemma of the worker's
actions: one task goes on or ends, and by `OneOwner` an item whose count changes
has no other live task; `HarmlessControl` that of the commands that cancel
nothing for good. `CapIsKept` needs no invariant beyond the type: only `Mark`
makes an item active, the sessions divide the items, and the numbers add up
(`MarkCap`, which uses that `Items` is finite).

`TransferLifecycleProofs` shows of every action that it is a move of
`TransferLifecycle` or leaves `phase` alone, that it keeps `HistoryGone` (an
archived item is not in the queue) and that it starts a stopped item only as a
resume does (`StepOK`): `ImplementsLifecycle` and `StoppedStays`. `OneOwner` is
what makes it true: `complete`, `set_paused` and `schedule_retry` write without
looking, and the lemma `LiveItem` says that what they find is active or absent.

The proofs use the assumptions on the constants and none of the bounds.

## TransferFile

The attempts of one transfer, from the moment its item is queued until it is
done, skipped or removed, against a directory that may hold files of other
programs and a source that may be replaced.

| State | Code |
|---|---|
| `source`, `files`, `older` | the two file systems: a file is a sequence of blocks, each named after whoever wrote it; `older` stands for the comparison of modification times |
| `status`, `target`, `counted`, `policy` | `TransferItem.status`, its path, `transferred > 0`, and what `effective_policy` says |
| `work` | the worker task: the facts of its plan (`size`, `found`, `older`), the offset, the bytes read, the writes in flight and the Control |
| `saved` | the item in the queue file: its status, its name and whether something of it was counted |
| `blind` | history: a plan of this item was made although its look at the server had failed |

`Plan` is plan_transfer and plan_copy with the policy applied (`Resolve`),
`Answer` the answer to a conflict prompt, `Open`, `Copy`, `Land`, `Leave`,
`Finish` and `Verify` the copy loops with the writer of the destination, `Fail`
an error anywhere, followed by a retry or not. `Save` is a write of the queue file
and `Restart` the end of the program, in the middle of anything, and its next
start: neither progress nor a new name makes the saver write, so the file may be of
any earlier moment. `PlanBlindly` is a plan after a stat or a listing of the server
that failed: the code takes any error for "nothing there". Of a local file a stat
is taken to say what is there. Writes of an upload are in flight
until they land, in any order; an attempt that fails loses those that are left.
An answer is applied to the facts of before the question, and the source may
change at any step, as in the code.

| Run | Shows |
|---|---|
| `file_attempts` | `DoneIsWhole`: what a transfer that says Done left behind; `OwnHalfIsNotSkipped`: a half-done file of its own is not taken for somebody else's once something of it was counted; `KeepsForeign`: which files no attempt writes to; `ProgressKept`: counted progress is not cut back |

Bounds: sizes 0, 1 and 2 (nothing, one block, as many as the window), one
replacement of the source, two names, two writes in flight, uploads verified by
hash and downloads and copies not. A hole needs two writes in flight, of which
only the second lands; a name collision needs one other name; a count without its
name needs one renaming and one write of the queue file. What the code leaves open shows in the exceptions of `DoneIsWhole`:
after a failed attempt a copy without hash verification may keep a hole, because
the next attempt goes on at the size of the file. What it does on a failed stat
shows in the exception of `KeepsForeign` and `ProgressKept`: then even Skip may
overwrite. The temporary file of a copy
between two sessions is not modelled.

Proofs (`TransferFileProofs`): the type invariant and the four properties of the
run, for any sizes, names, window and set of hashed directions, and whatever the
policy. `DoneIsWhole` is not inductive: that the file of a finished attempt is
whole rests on what every earlier attempt left. The inductive invariant `FInv`
adds:

- `SameSource`, which holds while the source has its first version: every file of
  the directory is absent, somebody else's as it was, or `Fits` the source (no
  longer than it, each block its own, or one the exceptions name); what was counted,
  by the item or by its copy in the queue file, lies in a target that fits; a download has read as far as its file is long; and
  every write in flight carries the version of the source;
- `PlanOK`: the length a plan was based on is that of the file, up to the point
  where it is opened, and only an attempt that copies has writes in flight;
- `Careful => Alone`: under Skip and Rename, as long as no plan was blind, an item
  that counted something, or is past its plan, has a target that is not somebody
  else's, and so has its copy in the queue file. This is what lets a later attempt,
  or the first one after a restart, go on with the file without asking.

Every action then keeps `FInv` and does what the two action properties ask of a
step; one lemma per action shows both. `LastVersion` only bounds the model: nothing
is claimed after a replacement but the types and `KeepsForeign`. The assumption
`FilesAssumption` says that the absent file is not a sequence of blocks.

## SftpClient

One action is one step of one task: the sender, `write_loop`, `read_loop`, or
the server.

| State | Code |
|---|---|
| `alive`, `channel` | `Transport.alive`, the channel to `write_loop` |
| `answer` | the one-shot of every request; "waiting" means it is in `pending` |
| `readLoop`, `writeLoop` | the two tasks; "draining" is the loop that empties `pending` |
| `link`, `server`, `replies` | the ssh process, the requests the server has, the answers on the way |
| `user` | the pipelined reader and writer: what was sent, what was awaited, and how far `Transport::send` is |
| `out`, `stored` | what the reader gave its caller, what the server wrote |

The model starts after the handshake. A request is named by its sender and a
number instead of the 32-bit counter, which therefore never meets an outstanding
request when it wraps (it would take four thousand million requests in flight).
The server answers in any order and may refuse anything; it reads short only at
the end of the file, which does not change while it is read. `send` is kept in
its three steps (the check of `alive`, the entry into `pending`, the push into
the channel), since the end of the connection falls between them.

| Run | Instance | Shows |
|---|---|---|
| `sftp_both` | reader and writer over one connection, three chunks, the last one read partial, window 2 | `ReadInOrder`, `WriteIsStored` |
| `sftp_lost` | one chunk, window 1, with fairness | `EarlyCallsReturn` |

Fairness: the loops are tasks that nothing else holds up, a call goes on when it
can, and the server answers what it was sent or the connection breaks. A call
that passes the check of `alive` and enters `pending` only after `read_loop` has
emptied it (client.rs:42) waits for ever when the packet still got into the
channel; `EarlyCallsReturn` speaks of the other calls, and the hazard is listed.

Proofs (`SftpClientProofs`): `SftpTypeCorrect`, `ReaderCorrect` and
`WriterCorrect`, for files of any size, any window and any capacity of channel
and pipes. The inductive invariant is `TypeOK` with `Honest` (an answer says
what the server can have said, and an acknowledged write was carried out),
`WindowOK` (what a user on its way through `send` found still holds when it gets
there), `ReaderOK` (what was delivered follows what was taken, until the end is
seen) and `WriterOK` (every answer taken is an acknowledgement, or the writer
remembers an error). `ReadInOrder` alone is not inductive: nothing in it ties the
length of what was delivered to the requests in flight.

## FtpControl

One control connection. Operations take its mutex in turn (`task`); a command is
one action (`Exchange`) in which the server answers and the client reads the next
reply, which is the answer only if nothing was left unread (`owed`).

| State | Code |
|---|---|
| `owed` | what the server said on the connection and nobody has read |
| `task` | the holder of `OwnedMutexGuard<Conn>`: the operation, its next command or the phase of its data connection, and what the server made of it so far |
| `result` | what the last operation returned, and whether the server did what was asked |
| `troubled` | a reply was late, or a data connection failed, since the connection was made |

Replies are their codes and 550 stands for every refusal. A transfer is answered
twice: 150 when it starts, 226 or 550 once its data connection is gone. A late
reply also stands for a connection that was lost: nothing that follows is read
in time. Which command follows on which reply is in `AfterSetup` (TYPE, REST,
EPSV, PASV, PORT and the transfer itself), `AfterListing` (CWD, PWD, and the look
at one symbolic link) and `AfterPlain` (everything else). `Answers` and `Served`
are the server: assumed to answer every command in order, and to listen only on
the port it announced last, so that a client that takes an older address cannot
connect.

| Run | Instance | Shows |
|---|---|---|
| `ftp_session` | all operations, passive mode with EPSV | `InStep`, `TransferHonest` |
| `ftp_unread` | listing, removal and rename | a finding: `CommandHonest` does not hold |

`MaxOwed`, the unread replies an operation may start with, is 4 in
`ftp_session`: a transfer adds at most two, and four let a whole transfer be
answered by the replies of earlier ones. `TransferHonest` holds in passive mode,
although the replies are out of step, because the address to connect to is the
server's last word: a client that reads an older reply does not get connected. In
active mode nothing ties the data connection to the command, and the 150 and 226
of an aborted transfer can be taken for those of the next one.

Proofs (`FtpControlProofs`): `FtpTypeCorrect`, `InStepAlways` (in both modes) and
`TransfersHonest`, for any operations and any number of unread replies (`MaxOwed`
is not used). The inductive invariant adds `Steady` (without trouble, the one
unread reply is the one a transfer's end waits for), `AtItsOwn` (an operation is
at a command of its own) and `Bound` (in passive mode data flows only on a
connection in step, in the directory asked for). `NextReply` and `WhatFollows`
are the lemmas on the reply that is read and on the command that follows it,
`GoOnEffect` on the step that both lead to.

## ConnectionPool, ListingCache, SftpLogin

Checked in one run, `session`: `MCSession` extends the three modules, and `part`
says of which of them a behaviour is. They share no state, so that the states to
check are the sum of the three and not the product.

`ConnectionPool` (`session.rs` 132-241):

| State | Code |
|---|---|
| `session`, `primary` | the entry of the session table, and how far `disconnect` is; the client of listings and commands |
| `idle_pool`, `pooled_count` | the idle clients, last in first out; the connections opened for transfers |
| `user` | a task that leases one client, or two for a copy within the session |
| `returning` | clients in the task that a dropped lease spawns |
| `drained`, `quit` | what `close` took out of the pool and disconnects one by one |
| `keepalive` | the task that pings, and holds the client it pings |

`InOnePlace`: every connection is at one place, and no place speaks on one that
said QUIT. `OpenedWhenNeeded`: no more connections than were needed at one time.
`DisconnectSettles`: after a disconnect every connection goes away, those leased
meanwhile included. Four clients for a copy (two) and another transfer (one)
leave one that the pool can only get by opening too many. Fairness
(`PoolFairness`): a transfer that leases ends, spawned tasks run, and disconnect
and keepalive are straight-line code; a user starts transfers as it likes. That a
transfer ends is the assumption of `queue_live` again.

`ListingCache` (96-126, 196-229 and the commands of `commands.rs` that change the
server): what a directory contains is a version; a command is the list of its
changes and invalidations in the order of the code, each of which may be the last
that succeeds. `CacheFresh` names the three ways a stale listing gets served: a
listing that was on its way, a command that stopped in the middle, a directory
above that was renamed; there is no fourth. Four paths: a file in a folder in a
folder below the root, which is what a rename with a listing below needs.

`SftpLogin` (`sftp/process.rs`, `askpass.rs`, the prompt handler in `session.rs`):
one SFTP connection from the start of ssh to its end. ssh is external: it asks one
question at a time through the askpass client and may exit whenever it likes.
Each question passes the pipe, the broker and the dialog, each with its own limit
of time, which is an event that may come at any moment. `YesIsTheUsers`: ssh is
told yes about a host key only when the user said so to that question;
`LoginEnds`: an attempt ends, and nothing of a failed or closed one is left:
process, pipe, prompt. `LastAsk` is three questions: password, a second password,
a host key, in any order. Fairness (`LoginFairness`): timers fire, spawned tasks
run, the handshake has a limit of time; nothing is assumed of the user or of ssh.

Proofs (`SessionProofs`), each from an inductive invariant of its part, and
`SessionTypeCorrect` for the three as `MCSession` composes them:

- the pool: `PoolTypeCorrect`, `InOnePlaceAlways`, `OpenedAsNeeded`, for any
  clients, tasks and leases. `PoolInv` is `PoolTypeOK` with `OneHolder` and
  `QuitIsFinal` and three supports: `Wanting` (a task that is still leasing has less
  than it wants), `Undrained` (nothing is drained before the disconnect) and
  `Counted` (what is open or being opened was counted in `peak`);
- the cache: `CacheFreshAlways`, for any tree of directories, any number of calls
  and commands. `CacheFresh` says nothing of what is still to come, so `CacheInv`
  adds `Planned` (what a command changes, a later step of it drops, and what it
  owes is among the steps it has left) and `OnItsWay` (a listing that was read is
  current, or late, or owed a drop). Most of the proof is about lists of steps:
  every command of `commands.rs`, the one that moves an opened folder included, is
  in `Plan`, and what remains after its first step is in it again;
- the login: `YesIsTheUsersAlways`, for any number of questions. `LoginInv` follows
  each question through the broker, the interface and ssh (`Question`): only one is
  under way, nothing answers it after its time is over, and ssh has a yes only if
  the user said it to that question.

## What lies around the transfers

Eight modules, checked in one run, `desk` (`MCDesk`, with `part` as above).

| Module | Code | State | Properties |
|---|---|---|---|
| `QueueFile` | `queue.rs` 97-135, 500-505, 563-591 | the queue as far as it is saved, `dirty`, the saver with its two snapshots, the file | `QuietFileAgrees`: when nobody is in the middle of anything and `dirty` is not set, a restart would show the queue as it is. `CrashTakesTheUnsaved`: a crash takes back only what changed since the last save began |
| `ConflictPrompts` | `queue.rs` 507-544, 593-598, `worker.rs` 612-665, the dialogs | the sender under each id, the worker's policy and its prompt's number, open dialogs, answers on their way, `apply_all` | `PromptCanBeAnswered`: after any number of timeouts, late answers and retries. `IdleForgets`: an answer for all does not outlive what it was given for |
| `EditInPlace` | `edit.rs`, `actions.ts` | contents as numbers of saves, the debounce, announcements, uploads | `LostSavesAreExplained`: the six ways for a save not to reach the server; there is no other |
| `SiteStore` | `sites/store.rs`, `credentials.rs`, `commands.rs`, the site manager | tree, file, credential store, the command under way step by step, the copy being edited | `PasswordsFollowTree`: the two stores agree but where a step failed or the program ended in between |
| `Throttle` | `transfer/throttle.rs` | tokens, the age of the last call, the sleepers; the excess over the limit | `AtMostOneLimitEach`: in the long run no more than the limit per consumer and once more. `WithinTheLimit` does not hold (run `throttle_limit`, a finding) |
| `FolderComparison` | `sync.rs`, the comparison dialog, `worker.rs` 837-840 | both sides of one path (size, time, number of the save), the cached listing, the comparison under way | `NewerSurvives`: what is proposed never replaces a content by one saved earlier, but for an edit during the comparison or an old listing. `Settles`: at most three transfers until a path compares as equal |
| `DragOut` | `drag_out.rs` 217-290 and the batch in the queue | the drag, its items, expansion of folders, `remove_batch` under way | `DropEndsWell`: all files in the other program, or none in the queue. `EscapeEndsDrop` |
| `BrowserTabs` | `state/actions.ts` 130-401 | the tabs, the calls of the interface that wait for an answer, the sessions of the program | `SessionsAreHeld`: every open session has a tab that can close it, or one of two known causes. `PaneIsOfSession`: a pane shows its own session's listing, or one asked for in an earlier one was answered last. `LoadingIsAwaited` |

Bounds: two of each actor that can race (transfers, prompts, uploads, consumers,
calls of the interface), and as many steps of the environment as an order needs:
two prompts of a transfer (one times out, its answer reaches the other), two saves
(an older upload ends after a newer one), a clock of five ticks with two saves of
each side (both sides saved, copied and copied back), two folders nested in each
other with two files (a folder that is inserted while its parent is removed), two
sessions of one tab. `FolderComparison` was also checked alone with a clock of 6
and 7 ticks and with three saves, `BrowserTabs` with three calls at a time
(1.9 million states), without another result.

Fairness: `PromptFairness` is that the scheduler ticks and workers go on;
`DragFairness` that the drop polls, collects and gives up, and that remove_batch
is a loop; nothing is assumed of the user, of the queue's transfers or of time.

Deadlock is not checked in `session` and `desk`: a closed session, a site manager
that nobody opens and a clock at its bound have nothing left to do.

Proofs, in `DeskFileProofs` (the first block) and `DeskProofs` (the second, which
builds on the first), for any value of the constants; `DeskTypeCorrect` is for all
parts as `MCDesk` composes them.

- `QueueFile`: `QuietFileAgreesAlways`, `CrashTakesOnlyTheUnsaved`. Why the file
  agrees when all is quiet is what the saver has read before: `FileInv` adds
  `ReadWhole` (what it has read so far is what is there, when nobody is in the
  middle and `dirty` is not set) and `ReadUnchanged` (the same of each transfer,
  until it changes; the action property rests on it).
- `EditInPlace`: `LostSavesAreExplainedAlways`. `OnItsWayUp`: as long as nothing
  explains a loss, the last save is on the server, or read by an upload, or in the
  file with an event, an announcement or a queued upload to look at it.
- `SiteStore`: `PasswordsFollowTreeAlways`, and `RecentInvariant` for the list of
  recent connections (each once, and no more than fit). Passwords and tree agree
  only between commands, so `SiteInv` says of each step what is left to do
  (`LeftToDo`, `FileFollows`) and that what is stored is what was given to a site
  that the command keeps or has yet to drop (`StoredAsGiven`).
- `FolderComparison`: `NewerSurvivesAlways`, `SettlesAlways`. The first rests on
  `Ordered` (what was saved later has no earlier time), `ListedBefore` and
  `DialogKnows`. The second is a bound on a sequence of transfers: `Rounds` says
  where the path is on its way (after a download this side has no older time than
  anything listed; after an upload the other side does not; then both are equal), and
  each proposal that is carried out goes on to a later stage. A count of at most three
  is not inductive without it.

- `ConflictPrompts`: `PromptCanBeAnsweredAlways`. `PromptInv` is this property for
  each transfer, with `Numbered` (a prompt that waits has a number, so that the
  number of none is not taken for its own) and `TabKnown`.
- `Throttle`: `AtMostOneLimitEachAlways`. The bound is on a sum over all
  consumers that sleep, which the prover cannot define by recursion or unfold; the
  invariant `Paid` says instead that there is a `heap`, a growing function over the
  consumers in some order, that gains at each consumer at least what it has slept for
  of its block, and that what passed ahead of the limit, what is in the bucket and the
  top of the heap stay together within `Slack`. A tick adds a limit to the bucket and
  at most one to the heap for each sleeper, and that is what it takes off the excess:
  the limit once for each consumer and once more. Of limits and blocks the
  proof assumes only that there is a largest one.
- `DragOut`: `DragTypeCorrect`, `DropsAreComplete` and `DropsEndWell`, for any files
  and folders in any nesting. `DragInv` adds `Begun` (nothing of the batch before the
  drop, all that was dragged after it), `AllLate` (what remove_batch has not removed
  it still has before it, or entered after it had looked) and `Nested` (a folder
  brings in what is inside it once, while it waits or is removed).
- `BrowserTabs`: `SessionsAreHeldAlways`, `PaneIsOfSessionAlways`,
  `LoadingIsAwaitedAlways`. `TabInv` adds `ViewOK` (the history of a pane fits to
  what it shows), `CallOK` (a session that a call is to end has ended when the call
  is answered) and `ConnectsOnce` (a tab that connects has no session and waits for
  one answer): without the last, a second connect could replace a session that
  nobody closes.

## What is proved and what is only checked

Proved for every value of the constants that their assumptions admit: the
theorems listed under `theorems` in `PROJECT.json`, in eight modules. The
assumptions are the named `ASSUME`s of the modules, which TLC evaluates in every
run. Between them the theorems state every invariant and every action property
that a passing run checks, the type invariants of the modules no run lists by
name, and the refinement of `TransferLifecycle`.

Checked by TLC on the instances above only: the liveness properties
(`EveryTransferSettles`, `EarlyCallsReturn`, `DisconnectSettles`, `LoginEnds`,
`EscapeEndsDrop`, `IdleForgets`), since the prover has no rule for fairness and
none for `ENABLED`; and, in the four runs that expect a violation, the
counterexamples to what a comment, a text of the interface or a test says.
Nothing is proved by induction over data, which the installed provers cannot do
with an operator as a parameter; the one place that calls for it, the sum in
`Throttle`, is done with a function.

## Not modelled

What the plan still lists, and:

- the parsers: FTP listings, the site files of other programs, addresses, remote
  paths; they are functions on text without a state;
- settings, logging, icons, translations, rendering, build files, test servers;
- the calls of the operating system behind the local file system, the data
  objects and the file clipboard of a drag;
- the credential store of Windows is taken to do what it is asked, and the one in
  memory, of other platforms, is left out;
- a queue file that cannot be read at the start for another reason than a write
  that was cut off; clocks of the two computers that differ, for the folder
  comparison; the walk over a tree with a symbolic link to its own ancestor, which
  ends only at the limit of the operating system;
- TLS, encodings, packet layouts and the contents of prompts.
