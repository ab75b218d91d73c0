# Verification of zwire-host

zwire-host is the native host of a browser. Browser pages, scripts and other
desktop applications reach it over Chrome native messaging, local sockets and
TCP, and it gives them the machine (files, processes, terminals), each other
(an event bus, a shared theme) and the browser itself (an automation bus with
transactions). This directory holds TLA+ models of its concurrent core, the TLC
runs that check them, and TLAPS proofs of what matters most. Paths below are
relative to the repository; `zbus.rs` stands for `src/zbus.rs`.

## 1. The system

| Component | State | Operations | Meets | Hard about it |
|---|---|---|---|---|
| Transaction journal (`txn.rs`) | one mutex: open transactions and their steps; a step clock, an id counter | begin, record, commit, take_reversed | called by the bus dispatch only | ids chosen and allocated, races of commit and abort |
| Bus dispatch (`zbus.rs`, `session.rs`) | none of its own: threads between locks | call, begin, commit, abort, get, verbs, sub | journal, ledger, page, event bus | no lock spans journal, ledger and publication |
| Premise ledger (`witness.rs`) | one mutex: premises per transaction; an id counter | record, take, count, revalidate | filled by page.rs, drained by dispatch | a page read between deciding and filing |
| Page reads (`page.rs`) | map of pending queries and a condition variable; the endpoint flag | ask, fulfil, request, serve | event bus out, `page_reply` in, `suite.rs` for other processes | deadlines, late and duplicate answers, waiting on one's own reader |
| Event bus (`bus.rs`) | subscribers and topics | register, subscribe, publish | everybody | frames sent outside the lock |
| Capability router (`session.rs`) | per connection: subscription, link, terminals, watchers | one command per frame | everything | which commands may block the reader |
| Transports (`transport.rs`, `proto.rs`) | connections | read a frame, handle it, write frames | router | one reader per connection |
| Bus daemon (`zbus.rs`) | socket path, lock file | ensure, bind, serve | file system, other processes | several starters, a dead owner |
| Action delivery (`zbus.rs`, `store.rs`) | stamp counter, one kv slot | forward | event bus, peers, kv | one action by several ways, one slot |
| Theme store (`store.rs`, `api.rs`) | `global.toml`, its projections, kv files | write scheme, ui, palette, schemes; kv set, merge | other processes by files | locked rewrite, unlocked projections |
| Theme watcher (`theme_watch.rs`) | last value seen | poll, note, publish | theme store, event bus | a poll between a write and its note |
| Peering (`peer.rs`) | links by name | hello, register, broadcast, redial | other hosts | hello against broadcast, replaced links |
| Jobs (`jobs.rs`) | registry of jobs | start, poll, list, result, evict | subprocesses | results drained by whoever polls |
| Hooks (`hooks.rs`, `stryke_runner.rs`) | manifest file, scripts | save, delete, enable, fire | subprocesses, event bus | unlocked rewrites, child with a time limit |
| Subprocesses (`exec.rs`) | pipes | run | jobs, hooks | stdin written before output is read |
| Watchers and tails (`watch.rs`) | position, carried line; a thread each | start, poll, stop | file system, router | truncation and growth between polls; replacement |
| Terminals, meters (`pty.rs`, `sysmon.rs`) | a thread each | spawn, write, kill, drop | router | join on drop, a blocking write |
| Suite client (`suite.rs`) | none | call another application | page.rs when proxying | limits that do not match |
| Language server bridge (`stryke_lsp.rs`) | one child and a reader thread | start, send, stop | router | the reader is not joined |
| Host log (`hostlog.rs`) | a file all processes append to | record, trim | every reply | trims that cross appends |
| File commands (`fsx.rs`, `fsops.rs`) | the disk | create, copy, move, shred, pack, list, search, compare | other clients by the disk | looking first, acting later |
| OS, process and tmux commands, CLI, Tauri plugin | none | request and reply | - | input and output only |
| Extension worker | what each action changed | run, undo, answer | native port | external: modelled by what it receives and may answer |

What makes the parts correct, in one sentence each:

* *Journal, dispatch.* The steps of a transaction are kept together or
  compensated together, one time, latest first, under the key their actions
  were stamped with.
* *Ledger.* A transaction commits only on premises that held together, and
  inherits none from an earlier transaction of the same id.
* *Page reads.* An ask ends with its own answer or by its deadline, leaves
  nothing behind, and never waits on the thread that must deliver its answer.
* *Event bus, theme.* A change that lasts arrives at every subscriber. (That it is also
  the last that arrives is what session.rs says and the code does not ensure.)
* *Daemon.* One owner of the socket, and a dead one is replaced.
* *Peering.* A live connection between two hosts is usable from both sides.
* *Theme store, actions, log.* Files that several processes rewrite keep what each
  wrote, and a process that dies leaves them whole.
* *Jobs, hooks, pipes, tails.* No result, edit or line is lost, and a child
  cannot block the host.
* *Streams.* A connection's streams end with it, as far as the programs in them let
  them, and one that was replaced is silent.
* *File commands.* An operation changes what it names and a query answers for all of
  the tree that it can read.

`PROJECT.json` lists every hazard at its line, with the properties that watch it
or the reason why none does.

## 2. The plan

1. `Journal` with its proofs - done.
2. `TxnBus` over `Journal`: dispatch, ledger, page, worker; the abstract
   specification `Saga` that it implements; refinement of the journal proved - done.
3. `PageRendezvous`: ask, answer, deadline, and the one-reader connection - done.
4. `ThemeStore`, `ThemeSync`, `PeerMesh`, `BusDaemon`: shared files, a broker, links
   and a socket that several processes claim - done.
5. `Hooks`, `ChildRun`, `Jobs`, `KvStore`, `Tail`, `Streams`, `HostLog` - done.
6. `FileOps`, `FileQueries` - done.
7. Proofs of the owner of the bus, of the theme's writers, of a run's output and
   of live streams - done.
8. Proofs of the refinement of `Saga`, of the premise properties under the clients'
   discipline, of page reads, of what processes share on disk, and of events
   between peers - done.
9. Proofs of the file commands, operations and queries, and of every component's type
   invariant - done. With them each safety property that a run checks is a theorem.
10. Left to model: the proxy of page reads to the attached process (`suite.rs`,
   `page.rs`), the actions a hook's output asks for.

## 3. The modules

### Transactions and pages

**`Journal`** (`txn.rs`). The hash map of vectors is `open` (its keys) and
`entries` (all its entries: the vector an entry is in is the one of its `txn`, and
its place in it is given by `seq`). `seqClock` and `nextTxn` are the two atomics.
Every function runs under one mutex, so it is one action: `BeginExplicit`,
`BeginAlloc`, `Record`, `Commit`, `TakeReversed`. Ids are u64: arithmetic is modulo
`Width`. `kept` and `undone` are history: where an entry went.

**`TxnBus`** (`zbus.rs`, `witness.rs`, `page.rs`, `session.rs`) extends it. A client
has a connection thread and up to two workers (the thread `session.rs` starts for
a commit that has premises, one for a commit sent as a session command, one for
a commit sent as a bus frame). `call[th]` says which lock section a thread enters
next:

| Code | Actions |
|---|---|
| `call_verb` | `Call` (gate), `CallRecord` (journal), `Forward` (publish) |
| `witness_here` | `Witness` (choose transactions), `ReadPage` or `ReadFails`, `FilePremise` |
| `abort` | `Drain` (journal), `DropPremises` (ledger), `SendUndo` (publish) |
| `commit_gated` | `TxnCommit` (which thread), `TakePremises`, `Revalidate` or `RevalidateFails`, `Close` or `Unwind` |

The gate calls `any_open` and then `is_open`, two sections: whichever way the
journal moves between them, the outcome is that of one reading at the first or
the second, so `Gated` is one. A request that is refused changes nothing and has
no action. `wire` is what the worker receives. `born`, `filed` and `since` are
history that only properties read. A premise is the set of values it accepts:
one value for a premise by content, those that satisfy the predicate otherwise.

**`Saga`** is what `TxnBus` promises about compensation without threads or locks:
pending steps end all at once, kept or as one batch, and a batch is sent once.
`TxnBus` instantiates it as `Promise`; `KeepsPromise` is `Promise!SagaSpec`.

**`PageRendezvous`** (`page.rs`, `session.rs`, `transport.rs`, `bus.rs`). `pending` is
the map under the mutex; an ask is `StartAsk`, `Publish`, then turns of the wait
loop, `Check`. `fulfil` is one section and runs on the reader of the connection,
`ReadReply`, which also meets `page_get` and starts a thread for it, `ReadGet`. The
browser attaches, answers in any order and more than once (on each port), and
goes away with what it holds.

### What processes share on disk

**`ThemeStore`** (`store.rs`). A write is `Start`, `LockAndLoad`, `SaveAndUnlock` and
one `Project` per projection file or re-read of `global.toml`, in the code's order
(`Projections`). The preferences are a partial function, so that the shallow merge
of `write_ui` differs from a replacement. A writer may be killed anywhere
(`WriterDies`), and the system takes its lock back. Not in the model: a lock file
that cannot be opened, when `with_global_lock` writes without it.

**`Hooks`** (`hooks.rs`). A command that changes hooks reads the manifest
(`Configure`) and then does its file operations one by one (`FileSteps`,
`FileStep`), of which rewriting the manifest is two, since it is emptied first.
`Fire` fixes the list; `RunHook` runs the next, skips it for want of its script, or
panics while it reports. `TornDown` ends a process anywhere.

**`KvStore`** (`store.rs`, `zbus.rs`, `session.rs`). One key and its temporary file as
directory entries that name inodes, because that is where the outcome of two
writers is decided: `OpenTmp` creates or empties, `WriteTmp` writes the inode that
was opened, `RenameTmp` moves whatever has the name. `BrowserCall` stamps and stores
an action; `RunStarts`, `RunReads`, `RunConsumes` are `stryke_run` and the action on
its reply.

**`HostLog`** (`hostlog.rs`) has the same inodes under `RecordReply` (append, whoever has
the name) and `TrimReads`, `TrimOpens`, `TrimWrites`, `TrimRenames`.

**`Tail`** (`watch.rs`, `tail_loop`). A poll is `TailOpens` (take the length) and
`TailReads` (read up to it, decode, send whole lines); the file is written a piece of a
line at a time and rotated in place or by name in between. A piece may end inside a
character of several bytes (`Splits`). Each poll decodes what it read by itself, so that
half a character becomes U+FFFD: `Halved` says which pieces of a read are damaged,
`garbled` keeps them, and `cuts` where a poll's read ended inside a character.

**`Jobs`** (`jobs.rs`). The registry under its mutex: `JobStart`, `JobFinishes` (files
the outcome and evicts in one section), `JobPoll`, `JobResult`.

**`FileOps`** (`fsx.rs`, `fsops.rs`). The disk is a partial function from paths to
directories, files and links. `BeginOp` is the checks of an operation (`Allowed`);
what follows goes by path again: `Act` for those of one call, `Compress` and
`Extract` with what they leave when they fail, `Overwrite` and `Unlink` for a shred,
`Unlink` and `Link` for a retargeted link, `CopyFile`, and `CopyTree` entry by entry.
`fs_write` makes the directories above its path (`Written`).
Links are followed one level, and only as the last name of a path: nothing lies below
one, which `IsDisk` says of the disks there are at first (`Disks`, a constant) and
`FileTypeOK` of those that come about.

**`FileQueries`** (`fsx.rs`, `fsops.rs`). A query is a stack of directories;
`ReadFolder` reads any one of them and collects what the query is after, up to a
cap (`RoomFor`); `PassOver` is a directory that `read_dir` fails on, which the code
leaves out without a word (a listing of it is an error); `TimesOut` is the deadline of
`folder_size`. A file is searched up to its first line that is not UTF-8 (`Hit`), and
one hit stands for all the lines of a file. `Groups` and
`Different` are what `find_duplicates` and `compare_dirs` make of what they collected.
The trees that are queried are a constant, `Trees`, of which `IsTree` is assumed: finite,
with every node's directories, and with the two that are compared. Any file and any
directory of it may be unreadable.

**`MCDisk`** puts these eight side by side. They share no state, so that an
interleaving of two of them shows nothing one alone does not: a behaviour is one
component's, chosen at its start. It also has the disks and trees of the run,
`SmallDisks` and `SmallTrees`. **`MCHost`** puts the journal alone beside them in the
same way: all that is a table under a mutex or a file, and of which only safety is asked.

### What lives on connections and threads

**`ThemeSync`** (`bus.rs`, `theme_watch.rs`, `session.rs`). A subscription is `Sub`
(registered), `EnsureStarted` and perhaps `Seed`, `ReadSnapshot`, `SendSnapshot`; a
local write is `WriteTheme`, `Note`, `PublishTheme` (the subscribers are collected under
the broker's lock), `SendPublished` (to one after the other, outside it); a tick of the
watcher is `WatchRead`, `WatchCompare` (under the lock of what was noted), and topic by
topic `WatchPublish` and `WatchSend`. `OtherProcessWrites` is the same file written
elsewhere. Values are numbered by the change that wrote them, and `told` says how what a
client was sent since it subscribed relates to what the file holds now: it was not sent
that (`behind`), it was and then something older (`overtaken`), or it was sent that last
(`current`). A change leaves everybody behind (`Store`); frames arrive in the order in
which they are sent, and a snapshot or a slower publisher may send an older value last.
A client may leave while frames for it are on their way (`LeftOut`).

**`PeerMesh`** (`peer.rs`, `session.rs`). A connection is named by its two ends, and
its frames arrive in order. The dialling thread is `StartDialling`, `Dial`,
`DialAnswered` or `DialRejected`, `DialEnds`; the session at the other end
`AcceptHello` (registers), `ReplyHello`, `PeerPub`, `SessionEnds`. `Forward` sends
along the links collected when the event was published. A host's own theme
broadcasts are like any other event here.

**`BusDaemon`** (`zbus.rs`, `lib.rs`). A host is `HostStarts`, `SpawnDaemon`, `FindsBus`
or `GivesUp`, `HostExits`; a daemon `TakeLock`, `Adopt` or `BindPrivate`, `RenameOver`,
then it serves. `Dies` anywhere leaves the path; `Reaped` makes its pid usable again.

**`ChildRun`** (`stryke_runner.rs`, `exec.rs`). Pipes of `PipeRoom` units. `Feed` and
`CloseStdin` come before anything reads the output, as in all three functions;
`Drain` is the reader with its cap, `PollChild` the wait with its deadline, `Collect`
the join. The child reads, writes, forks, hangs or exits as it pleases.

**`Streams`** (`watch.rs`, `pty.rs`, `sysmon.rs`, `stryke_lsp.rs`, `session.rs`). A session
holds at most one stream per slot. `Replace` starts the new one, then drops the old;
`DropReturns` is its join; `TakeOut` is a stop; `BeginSend` and `Sent` a write to a
program, on the session's own thread. The client leaves when it likes
(`ClientHangsUp`), in the middle of a join or a write too; frames then fail
(`FrameRefused`), and the session comes to know when it reads the end of the connection
(`Disconnect`). `CloseNext` drops what is left in the order of the session's fields.
The reader of a terminal or of the language server ends when the last holder of the
terminal or pipe has closed it (`ReaderEnds`), and a program may leave another behind
that has it open (`LeaveBehind`, `kept`), for as long as it likes (`LeftBehindEnds`).

**`MCConnections`** puts these five side by side in the way of `MCDisk`, with their
fairness: in its initial state no fair action of a component is enabled. **`MCSessions`**
does the same with what a session itself is concerned with, `PageRendezvous`,
`ThemeSync` and `Streams`.

`MCTxnBus` gives the instances of `TxnBus` their client names.

### The proofs

| Module | About | Extends |
|---|---|---|
| `Journal_proofs` | `Journal` | `Journal` |
| `TxnBus_proofs` | every interleaving of the bus; refinement of `Journal` and `Saga` | `TxnBus`, `Journal_proofs` |
| `TxnDiscipline_proofs` | the bus with disciplined clients | `TxnBus_proofs` |
| `PageRendezvous_proofs` | page reads | `PageRendezvous` |
| `ThemeStore_proofs` | writers of the theme | `ThemeStore` |
| `Disk_proofs` | `KvStore`, `HostLog`, `Tail`, `Jobs`, `Hooks`, one part each | these five |
| `Files_proofs` | `FileQueries`, `FileOps`; the types of all that is on disk | `MCDisk`, `ThemeStore_proofs`, `Disk_proofs` |
| `Connections_proofs` | `BusDaemon`, `ChildRun`, `Streams`, `PeerMesh`, `ThemeSync`, one part each; the types of them all | `MCConnections` |

The inductive invariants of the bus and of page reads (`BusInv`, `DisciplineInv`,
`RendezvousInv`) are in the modules they are about, the others beside their proofs.

## 4. The runs

| Run | Question | Bounds | Distinct states |
|---|---|---|---|
| `host` | one fate, number and order of steps; what processes and threads do to files and tables they share | see `Host.cfg` and below | 1 268 000 |
| `txn_disciplined` | compensation order and the premise gate | 2 clients with an id each, 6 requests, 2 page states, 1 page change | 655 000 |
| `txn_shared` | refinement of `Saga`; every commit decided, every compensation sent | 2 clients in one id, tagged and un-tagged, bus commits, 5 requests | 67 000 |
| `sessions` | own answer or deadline; a change of the theme arrives; silence after a stop, the end of a connection | see `Sessions.cfg` and below | 133 000 |
| `connections` | one arrival, relinking, takeover, ends | see `Connections.cfg` and below | 43 000 |

Properties of `txn_disciplined`: `UndoReversesExecution`, `NoInheritedPremise`,
`CommitConfirmed`. Of `txn_shared`: `KeepsPromise`, `CommitDecides`, `UndoneIsSent`. Of
`host`, about the journal: `OneCallPerSeq`, `OneFate`, `AllocatorAhead`, `NoSilentLoss`,
`ClockOrders`. Of `sessions`, about page reads: `AnswerIsOwn`, `AcceptedIsReturned`,
`NoLostWakeup`, `EndsByDeadline`, `EndsByAnswer`. The type invariants are checked
besides, those of `ThemeSync` and `Streams` by `connections`.

Properties of `host` about the disk and the jobs:

| Property | Says |
|---|---|
| `NoFieldReverts` | a write of the theme never brings back the old value of a field it does not set |
| `LoneSchemeWriteHeals` | a scheme write nobody overlapped leaves every projection equal to `global.toml`, whatever was there |
| `RunsAsConfigured` | a deleted hook does not run again, a listed one is not skipped for want of its script unless two writers met |
| `PiggybackIsFresh` | a script's reply carries no action queued before the script began, while writers do not overlap |
| `LogKeepsNewest` | while trims are not crossed the log is an unbroken run of the newest entries |
| `TailFaithful` | nothing is sent twice or out of order; of a file that only grows no piece is lost or cut, and only characters inside which a poll's read ended are garbled |
| `JobAccounting` | the result of a job is in the registry, was returned once, or was evicted |
| `StaysInFootprint`, `CopyIsFaithful` | an operation beside no other changes only what it names; a copy that succeeds is one |
| `QueriesExact` | a query that met no cap or deadline answers for exactly what lies under directories it can read |

Properties of `connections`, and of `sessions` about the theme and streams:

| Property | Says |
|---|---|
| `LastingChangeArrives` | a change that lasts reaches every subscriber that stays, perhaps with an older value after it |
| `EventArrivesOnce` | an event reaches each bus once at most, also between hosts joined twice |
| `PeersRelink` | both ends of a dialled link come to have a link that works |
| `OwnerIsReachable`, `BusComesUp` | a daemon that serves is at the path; a host that found none gets one, unless another died |
| `OutputComplete`, `ScriptEnds` | what is returned is what was written, up to the cap; a script ends by its limit |
| `FramesAreLive` | no frame comes from a stream that was replaced or stopped |
| `NothingLeaks` | when the client leaves, at any moment, all that was started on its connection ends, if programs read what they are sent and what was left behind on a terminal ends |

Some of these have a premise because the code does not give more, and the premise
says what it gives. `PiggybackIsFresh`, `RunsAsConfigured`, `LogKeepsNewest` and the
two on file operations are about operations that do not overlap: two that do may
lose an edit, and the code has no lock against it. Deaths in the middle are not
excluded. `LoneSchemeWriteHeals` is weaker than store.rs:344-345, by which
projections "never drift": two writers that race can leave them unlike
`global.toml` until the next such write. `LastingChangeArrives` excepts a client
that subscribes at the moment the watcher is being seeded; it may miss a change
that falls there. `ScriptEnds` asks that the event fits the pipe: a longer one, to a
script that does not read, is written before the deadline is counted.
`QueriesExact` is silent on what cannot be read, as the replies are. The premises of
`NothingLeaks` are what the code leaves to the programs it runs. `PiggybackIsFresh` is
also weaker than session.rs:463-464, by which the action on a reply is one that this
script produced: any action stored while the script ran may be on it. `PeersRelink`
takes both ends to learn of a break; a link that is dead on one side and silent on the
other is not modelled.
`FramesAreLive` excepts the language server, whose reader nobody joins.

Seven more runs exhibit places where the code does something else than a
document or comment says; each is a finding in `PROJECT.json`:

| Run | What happens |
|---|---|
| `commit_retried` | a commit frame is answered "no reply" while its premises are re-read; the commit sent again finds no premise and closes the transaction |
| `id_reused` | a premise under way when its transaction ends is filed against the next one of the same id |
| `abort_overtakes` | a step is journaled, another client aborts, the compensation goes out before the action |
| `untagged_stamp` | an un-tagged call is journaled in a transaction but stamped with a null one |
| `kv_torn` | two writers of one key share a `.tmp` name; one renames the file the other has just emptied |
| `theme_stale` | a snapshot is read before a change and sent after its frame; the client keeps the older value |
| `streams_join` | a killed shell left a job behind on its terminal; dropping the terminal waits for that job, and the session with it |

The first four do not show in `txn_disciplined` because its clients write
their id in args, keep to one id each, wait for every reply and commit by the
session command. That is the discipline under which the documented promises hold.
A client in `txn_disciplined` still meets everything the other one does.

Where a property excepts something, what lies in the exception is a step of the model
all the same, and these have no run of their own:

* The transaction that a `page.witness` frame names beside `args`, as the example of
  README.md:344 does, is not read (page.rs:558); the premise counts as un-tagged and is
  filed against every open transaction (`Witness`, with `Forms`).
* A poll of a tail that ends inside a character of several bytes (watch.rs:231-233)
  turns each half of it into U+FFFD: the line sent is not the line written
  (`Halved`).
* A directory that cannot be read is passed over without a word (fsops.rs:140-142,
  fsx.rs:383-388, 892-894, 967-969, 1040-1042): a size leaves out what is in it, and
  `compare_dirs` names under `onlyInB` what `A` has as well (`PassOver`).
* A client that leaves while its session is stuck in `pty_write` (pty.rs:172) to a
  program that does not read is not noticed, and its shells run on (`Sent`).

*Why the bounds suffice.* A violation of the journal's properties needs one
reuse of an id and two steps; it has three ids, one of them chosen and in the
allocator's way, and three steps. Of the bus: two clients, since a section of one
thread has to fall between two sections of another; one verb per class; and six
requests, so that a transaction can begin, run, declare, end and begin again
while another is open. A rendezvous is between one ask, another and two
answers. Ids stay below `Width` except in the numeric hazard of the list.

In the rest of `host`: two writers of the theme and a third write, which must heal what two
left; two processes with two hooks and four commands (save, delete, save again,
fire); two writers of a key, a run before and one after; two trims of a log twice
as long as what is kept; lines of up to three pieces, two rotations; twice as many
jobs as are kept; two file operations, at once or in turn, in a directory with a
file and a link and paths of two names (renaming or extracting something deeper
stops at `MaxDepth`); trees of two sides with up to two levels, in which every cap
is reached by some and missed by others, with files that cannot be
read on one side and on both, and a directory that cannot on one. In `connections`: two
hosts that dial each other, an event, and a break; two hosts that start together, three daemons of which one dies; more
input than the pipe holds and more output than the cap; and one change and two
streams, for their types. In `sessions`: two ports and two asks; two subscribers and two
changes of one topic, local or foreign (topics are independent), that is a snapshot, a
publisher and the watcher crossing; a stream and one that replaces it or runs beside
it. The runs of a violation have no more than their trace needs.

The mutants recorded in `PROJECT.json` - a missing check, a wrong order, a forgotten
reset - are all found within these bounds.

`CHECK_DEADLOCK FALSE` is set where clients, the browser or a bound on the number of
operations may end a behaviour for good.

*Fairness.* `FairTxnBusSpec` asks that a thread inside a request goes on (`Advance`):
threads are scheduled by the system, every page read has a deadline
(`ReadFails`, `RevalidateFails`), and no section waits for another thread. It asks
nothing of clients, of the page or of the browser's answers. `RendezvousSpec` asks
that asking threads and readers run; `EndsByDeadline` adds that time passes and
`EndsByAnswer` that a browser answers, each as the premise of that property only.
`ThemeSyncFairness`: connection threads finish their requests, sending included, and
the watcher's sleep ends. `PeerMeshFairness`: dialling threads, sessions and broadcasts
go on and frames arrive; no connection must break, and only finitely many do.
`BusDaemonFairness`: a host that wants a daemon spawns it, and a daemon that can
take a step again and again takes it - strong, because the kernel grants a lock
that keeps becoming free. `ChildRunFairness`: the host's threads run; the child
need do nothing. `StreamsFairness`: joins return once their thread ended; a
thread that was told to stop does, because it looks at its flag within 100 ms, or its
child was killed and nobody else has the output open, so that `ReaderEnds` stays
possible; and a session that comes back to read again and again reads the end of the
connection - strong, because commands sent before it are served first, and a client
sends so many and no more. Nothing is asked of programs: not that one reads what a
session writes to it (`Sent`), nor that it or what it left behind (`LeftBehindEnds`)
ends. So a session may hang in a write or a join, as it may in the code, and
`NothingLeaks` says so in its premises. `streams_join` shows that the one about what was
left behind is needed: it drops it, and asks for what session.rs:53-55 promises.

## 5. What is proved

For all values of the constants: any clients, verbs, ids, processes, files, hosts
and bounds. Each inductive invariant below also holds on the instance of its run,
checked there by TLC with its unbounded quantifiers bounded.

*The journal.* `JournalInvariant`, and from it what `host` checks of the journal:
`JournalTypes`, `JournalOneCallPerSeq`, `JournalOneFate`, `JournalAllocatorAhead`,
`JournalClockOrders` and, under `NoWrap`, `JournalNoSilentLoss`. The inductive
invariant is `JournalInv`, the conjunction of these invariants: `OneFate` is not
inductive alone, since a step could be recorded under a number of one already
kept - that numbers in use are at most the clock (in `JournalTypeOK`) excludes it;
and `NoSilentLoss` at an allocating begin needs `AllocatorAhead`, which in turn needs
that ids do not wrap.

*The bus, whatever its clients do.*

* `BusImplementsJournal`: `TxnBusSpec => JournalSpec`. Each action of the bus is an
  action of the journal or leaves it unchanged; the arguments a thread hands to
  the journal have the journal's types by the inductive invariant `CallOK`.
  `BusOneFate` and `BusNoSilentLoss` follow: they hold of the bus under every
  interleaving of threads and workers.
* `BusInvariant` (`BusInv`) and `BusTypesCorrect` (`TxnTypeOK`). What has to be known
  besides the types is `Drained`: the steps a thread carries to be compensated, and
  those of every compensation on the wire, were undone, and no two threads carry the
  same. A type alone would let two aborts hold one batch.
* `BusKeepsPromise`: under `NoWrap`, `TxnBusSpec => Promise!SagaSpec`. `CloseKeeps`,
  `DrainTakes`, `UndoSends` and `RecordSteps` map the four actions that move steps to
  the steps of `Saga`; every other leaves the mapped state alone. `DrainTakes` and
  `UndoSends` rest on `Drained`, since the batch that `Saga` adds must be a new one and
  the one it removes must not be shared. `NoWrap` is needed because an
  allocating begin that met an open transaction would empty it, which `Saga` has no
  step for.

*The bus with disciplined clients.* `Disciplined` says that an id is one client's own,
that every request writes it in args, and that a commit is a session command. The
run `txn_disciplined` is an instance of it. It describes clients that keep
to themselves. The code does not enforce it, and `abort_overtakes`, `id_reused` and
`commit_retried` show each of the properties below fail without it.

* `DisciplineInvariant` (`DisciplineInv`): no two threads are about one transaction
  (`Alone`); premises filed in an open transaction are in the ledger or with the
  commit that judges them, and `since` holds the pages seen after them
  (`PremisesCurrent`); actions are on the wire in the order of their numbers, under
  the transaction they were journaled in (`WireOrdered`).
* `DisciplinedUndo` (`UndoReversesExecution`), `DisciplinedLedger` (`NoInheritedPremise`),
  `DisciplinedCommit` (`CommitConfirmed`). None is inductive: between the record of a
  step and its publication, the wire is behind the journal, and only `Alone` tells
  that no abort can come in there.

*Page reads.* `RendezvousInvariant` (`RendezvousInv`), and from it `RendezvousTypeCorrect`,
`AnswersAreOwn`, `AcceptedAnswersReturn` and `WakeupsAreKept`. That an answer is one's
own follows a question through every place it passes: the identifiers handed out are
all different (`FreshIds`), and queries at the browser, replies in an inbox and
answers in a slot belong to the ask that drew the identifier (`Addressed`, `Slots`).
`Delivered` says where an accepted answer is until its ask returns.

*Files and tables that processes share.*

* `ThemeStoreTypes` and `StoreNoFieldReverts` (`NoFieldReverts`). The invariant
  `StoreInv` adds that the copy a holder of the lock works on is the file: nobody
  else saves while it holds the lock, and a dead holder does not save at all.
* `StoreLoneWriteHeals` (`LoneSchemeWriteHeals`). `HealInv` goes along with the list of
  what a scheme write still has to project: with that much left, this much of the
  projections equals the file.
* `RepliesAreFresh` (`PiggybackIsFresh`). `KvInv`: until two writers overlap, there is
  one, which has the value stored last, and the inode it writes is the one named
  `.tmp`, which is never the one named by the key; and what a run may read is what it
  saw at its start or later.
* `LoneWritersAreAtomic` (`~shared => NeverHalfWritten`), also from `KvInv`: what
  store.rs:141-142 promises, and `kv_torn` refutes for two writers, holds for one at a
  time, whichever of them die.
* `LogIsNewest` (`LogKeepsNewest`). `LogInv`: until a trim is crossed, the tail it
  holds and the file it writes are the newest entries at every step in between.
* `TailIsFaithful` (`TailFaithful`). Pieces are numbered as they are written, so that a
  file is a rising sequence (`Numbered`); what lies past the position is newer than
  all that was delivered, or the file has become shorter than that (`NewPastPos`);
  and while nothing was rotated, the position is a place in the one file there is
  (`Unrotated`), where each piece is read beside the next but where a poll ended, so
  that a character is garbled only there. The lemma `CutsMakeUp` is what the loop that
  sends whole lines does.
* `JobsAccounted` (`JobAccounting`). `JobsInv` adds that a job runs exactly while it is
  listed and not finished, and that what was evicted is listed no more. `FewStay` is
  the argument about `evict_overflow`: of the results that stay, the oldest has fewer
  than the limit above it.
* `HooksRunAsConfigured` (`RunsAsConfigured`). `HooksInv`: a buried hook has no script
  and no save under way is about to give it one, which a delete knows of itself by
  `clean` (`BuriedStay`); and until two commands change hooks at once, what is listed has
  a script, also while the manifest is empty or half a command is done, because each
  does its file operations in the order that `Remaining` lists (`OneChanger`). The first
  half needs no premise: what runs has a script, so what is buried cannot run.
* `KvTypes`, `HostLogTypes`, `TailTypes`, `JobsTypes`, `HooksTypes`: the types of each,
  also while writers overlap, when the invariants above say nothing. The first two are
  a counting argument. A file is created in an inode that no name and no writer
  holds, and that there is one (`Fits`) follows from the bound: each write that was
  begun created one file at most, and a file not yet created is still counted
  (`FitsLess`, `FitsOneMore`, `FitsTaken`, `FitsFree`). Without it a writer would
  choose from the empty set. `TailTypes` needs the bound to admit the two pieces a file
  may have at first (`MaxPieces >= 2`).

*File commands*, for any disk, tree, depth and number of clients.

* `QueriesAreExact` (`QueriesExact`), from `QueryInv`. Nothing is said of the order in
  which directories are read. A query comes to a directory (`Due`) if it enters it and
  every directory between it and a root of the query, and can open it and those; unless
  a cap or deadline left something out, each of them has been read (`Read`) or has on the
  stack itself or one above it (`Waiting`). With an empty stack all of them were read. This is an invariant over the
  steps of the query and so needs no induction over the tree: reading a directory
  replaces it on the stack by its entries, one of which is above whatever was below it.
  What `dups` and `compare` make of what was found is then set theory.
* `FileTyped` (`FileTypeOK`): whatever overlaps, a node's directories are there, and
  directories, so that nothing is below a file or a link. This was not so at first
  in the model of `create_dir_all` (`MadeDirs`), which put directories below a link on the
  way; with paths of two names no run could show it.
* `FootprintIsKept` (`StaysInFootprint`), from `LookInv`: while operations do not overlap,
  what one has checked is still so when it acts (`Looked`). What a shred writes zeros over
  is not a link, and what is created or copied to has no node. For a tree copy that
  has to be said of all that is left to do: the entries on its list go where nothing is,
  each apart from the others.
* `CopiesAreFaithful` (`CopyIsFaithful`), from `CopyInv`, which says of a copy under way
  that no other overlaps: it has just begun; or each node of the source has its image
  or is, or is below, an entry still to be copied, and nothing else is under the
  destination (`Images`); or it copies a directory into itself (`Endless`), and then an
  entry is always left whose destination lies inside it, so that the copy never says
  that it succeeded. Nothing stops such a copy (`copy_dir_recursive` does not compare
  the two paths) but the length of a path, which is an error.
* `DiskTypes` (`DiskTypesOK`) puts the eight components of `MCDisk` together.

*Connections and threads.*

* `BusDaemonTypes` and `BusOwnerIsReachable` (`OwnerIsReachable`). The inductive
  invariant `OwnerInv` adds `RenamerAlone`: while a daemon is about to rename, none
  serves. It holds because the renamer saw no live owner under the lock it still
  holds, and only a holder of the lock can come to serve.
* `RunOutputComplete` (`OutputComplete`), from `Conserved`: as long as the reader reads,
  what was written is what it kept and what is in the pipe; once it has ended, it
  kept everything or the cap.
* `StreamFramesAreLive` (`FramesAreLive`), from `RunningIsHeld` (a stream that was
  not told to stop is held), `OnlyTheDropped` (one that was told to stop, has not
  ended and is to be joined is the one the session waits for) and `HeldFits` (a
  slot holds a stream of its own).
* `EventsDoNotLoop` (`EventArrivesOnce`), under `NoSelfDial`, for a mesh of any shape and
  any number of replaced links. `MeshInv`: only the host that published an event
  forwards it (`OneForwarder`), and for each other host the event is in one place at
  most - still to be forwarded there, in one queue that leads there, or delivered
  (`OnItsWay`). That a host has one link per peer (`GoodLinks`) is what makes the
  broadcast send it once.
* `ChildRunTypes`, `StreamTypes`, `PeerMeshTypes` (without `NoSelfDial`) and `ThemeSyncTypes`,
  from the shapes of the records (`PipesFit`, `SpeakersKnown`, `MeshShape`, `SyncShape`), and
  `ConnectionTypes` (`ConnectionTypesOK`) for the five components of `MCConnections`.
  `ThemeSync` has no safety property besides: what it promises is that changes
  arrive.

Assumptions: the named `ASSUME`s of the modules, and where stated

* `NoWrap` (the id counter does not reach the end of u64 and no caller chooses the
  last id), which holds in all runs. Without it the properties fail, in the code as
  in the model: an id chosen next to the last one brings the counter to the end of
  u64, and the next allocation gives 0 (a release build) or panics (a debug build);
  a transaction open under 0 loses its steps.
* `Disciplined`, as above.
* `NoSelfDial` (no host was told to dial its own address), which holds in the run
  `connections`. The addresses come from whoever configures the hosts, and nothing in
  peer.rs compares the name in a hello with the host's own: one that dials itself
  would publish again what it publishes.

* `IsTree` of the trees and `IsDisk` of the disks there are at first. They say what a
  file system is, apart from the two directories a comparison is asked about.

Only model-checked is liveness, all of it, since the prover supports neither fairness
nor `ENABLED`: `CommitDecides`, `UndoneIsSent`, `EndsByDeadline`, `EndsByAnswer`,
`LastingChangeArrives`, `PeersRelink`, `BusComesUp`, `ScriptEnds`, `NothingLeaks`. Every other
property of a passing run is stated by a theorem.

## 6. What is left out

*Of the transactions.* Arguments of steps, page contents, predicates' text and
reply wording: the properties do not tell them apart. A digest (FNV-1a of the JSON)
is taken to identify its value. The limit of 32 reads per batch is one of the causes
of `RevalidateFails`. The `txn-aborted` hook that ends an abort runs after the
compensation is sent and touches none of this state. An `undo` frame that a client
sends itself is not part of `Request`, and neither are host commands inside a
transaction, which pass the gate of `Call` but are not journaled. What the worker
does with an action or a compensation is outside the repository. The claim of the
page endpoint (`serve`, `bind`) has no check to model, and the proxy to the attached
process (`suite.rs`) adds none to a read.

*Of the theme.* A repeated `sub`; `kv_merge`.

*Of peers and daemons.* `remote`, which is one request over a connection of its own;
tokens; the Windows arms, which have named pipes and no lock; the listener of serve
mode, which unlinks whatever socket is there (transport.rs:104), also that of a
second server; a link of which one end alone notices the break. A daemon that fails to
bind, or to rename, ends, which is one of the deaths of `Dies`.

*Of hooks, scripts and streams.* The actions that a script's output asks for; an error
of `try_wait` (stryke_runner.rs:216), which ends a run at once and without output; the
lookup of the interpreter; what a monitor measures and a watcher compares; the
framing of the language server; resizing a terminal.

*Of files.* Links that lead to links; links in the trees that queries read; more
than one hit of a file; a single entry of a directory that fails to be read; owners, modes and
times; calls that look at a single file.

OS, process and tmux commands (`osops.rs`, `procs.rs`, `tmuxops.rs`), the suite client,
the command line and the Tauri plugin keep no state that a step could leave wrong;
`PROJECT.json` gives the reason for each.
