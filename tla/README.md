# Verification of remote_kernel

TLA+ models of [remote_kernel](../src/README.md), which starts an IPython kernel on a server over SSH,
forwards its ports and keeps a local and a remote folder in step. The modules are checked with TLC on
small instances; what matters most is proved with TLAPS for all instances. File names below are those of
`src/remote_kernel/`.

## The system

| Part | State | Operations | Talks to |
|---|---|---|---|
| `ParamikoSync.sync()` (`sync.py`) | `_last_sync`, the options, both folders, their modification times | `_sync_remote_folder`, `_sync_local_folder` | SFTP server, local file system; user and kernel edit both folders meanwhile |
| `ParamikoSync.set_subfolder()` (`sync.py`) | `.remote_kernel_sync` in the local folder, the numbered sub-folders on the server | choose a sub-folder, remember it by kernel name | other processes of the same user |
| SFTP session (`connect`, `close`, folder checks in `sync.py`) | `sftp_client`, `_is_folder_checked` | open, check once, close, open again | `start.py`, `install.py`, the manual `sync` command |
| `start_kernel()` (`start.py`) | `~/remote_kernel.json` on the server, `kernel-user@host.json` locally, the channel, the thread that logs its output | connect, write files, first sync, launch, tunnel, wait, clean up, last sync | all of the above; the kernel; other sessions of the same account |
| `ParamikoClient` (`ssh_client.py`) | `_jump_host`, `tunnels`, transport | `connect_override` along the jump hosts, `close` back along them | sshtunnel, paramiko, `dialog.py` |
| `install_kernel()` (`install.py`) | the kernel folder with `kernel.json` | test the kernel command, write the specification | the server, Jupyter's data folder |
| `get_spec()`, `_check_spec()` (`__init__.py`) | `kernel.json` | find, upgrade in place, strip the connection file | `__main__.py` |
| `main()` (`__main__.py`) | none | dispatch, exit codes | all of the above |
| `get_versions()` (`_version.py`) | none | ask git, the archive keywords, the folder name | git, at every import of the package |
| `versioneer.py setup` | `_version.py`, `__init__.py`, `MANIFEST.in`, `.gitattributes` | write, append, `git add` | git; what it leaves decides what archives know of themselves |

What is hard here:

* *concurrency without locks*: the user and the kernel edit the folders while `sync()` walks them;
  processes race for sub-folders and rewrite one configuration file; sessions share two files by name;
* *calls that are two calls*: `get()` and `utime()`, `mkdir()` and the write of the configuration file,
  `exists()` and `remove()`, `open('w')` and `json.dump()`;
* *commands nobody waits for*: the `echo` and the `rm` of `remote_kernel.json`;
* *calls that recurse*: jump hosts are connected from the end of a list and closed back along it;
* *several looks at one thing*: five calls of git make one version, three looks lead to one `kernel.json`;
* *times*: two clocks, whole seconds on one side, a filter on `_last_sync`;
* *ends*: interrupts, kills, lost connections, exceptions in the middle of a walk.

`PROJECT.json` lists these hazards line by line with the properties that watch over them.

What makes each part correct: `sync()` delivers what it should, never loses newer content, keeps out of
what the options exclude, and comes to an end. `set_subfolder()` leads a local folder to a sub-folder of
its own. A kernel session leaves nothing behind, neither files nor a kernel, and the last `sync()` sees what
the kernel wrote. A client connects along its jump hosts in their order, and one that is closed has closed
its tunnels and jump hosts. A `kernel.json` is whole unless somebody was stopped while writing it, and a
kernel starts with the options it was installed with, whichever version wrote the file. Two states of the
code do not share a version, and an archive knows the commit it was made of.

## Modules

| Module | Stands for | Proofs |
|---|---|---|
| `Sync`, `MCSync` | `ParamikoSync.sync()` | `SyncProofs`, `SyncQuietProofs` |
| `Allocation` | what sub-folders are for, independent of how they are allocated | |
| `Subfolder`, `MCSubfolder` | `set_subfolder()` and the folder checks of `connect()`; implements `Allocation` | `SubfolderProofs` |
| `KernelStart`, `MCKernelStart` | `start_kernel()` | `KernelStartProofs` |
| `SshClient` | `ParamikoClient`: `connect_override()`, tunnels, `close()` | `SshClientProofs` |
| `SyncSession`, `MCSyncSession` | `connect()`, `close()`, `__del__()` of `ParamikoSync` in the three entry points; extends `SshClient` | `SyncSessionProofs` |
| `CommandLine` | `get_parser()`, the command line in `kernel.json`, its upgrade: operators without state | |
| `Commands` | `main()`, `install_kernel()`, `get_spec()`, `_check_spec()`; extends `CommandLine` | `CommandsProofs` |
| `Version` | `get_versions()` and the developer whose repository it asks | |
| `Packaging` | `versioneer.py setup`; extends `Version` | |
| `RemoteKernel`, `MCRemoteKernel` | composes `Commands` and `Packaging`: release, import, command | `RemoteKernelProofs` |

### Sync

`disk[side][path]` is an entry with a kind, its writer and the tick it was written at (these two stand for
the content) and its modification time. A *tick* is the unit of both clocks, `Res` ticks make a second, and
the server's clock is `Skew` ticks ahead. The server keeps whole seconds only: `Stamp` is the time a written
file gets, `StampOf` the time `utime()` gives it.

The walk is one action per call that looks at or changes a side, and `pc` names the call that comes next:
`ListNames` (`os.listdir`) and `NextFolder` (`listdir_attr`), `EnterFolder` and `MakeFolder` (`mkdir`),
`FindCopy` (`isfile`), `LeaveFile` and `TakeFile` (`os.stat` and the decision), `FindFolder` (`isdir`),
`MakeFolders` (`makedirs`), `Copy` (`get`/`put`), `SetTime` (`utime`), `EndLeg`, `Finish`. `leg` is the side
that is walked, so both legs share the actions, and where the legs differ the operator says so: the remote
leg judges an entry by the listing and looks at the local file when it gets to it, the local leg the other
way round; only the remote leg makes destination folders; only the local leg excludes files (line 224
compares an attributes object with names). The order of entries in a folder is left open; the stack of
folders is a stack.

A call that raises ends `sync()` before `_last_sync` is assigned (`Raise`): `ListingFails`, `MkdirFails`,
`StatFails`, `MakedirsFails`, `CopyRefused`, `SetTimeFails`. `CopyBreaks` is a transfer that is cut off, or a
`get()` of a file that has gone, with the target already truncated. `Abort` is a lost connection or an
interrupt between calls. `NewProcess` starts again with `_last_sync = 0`. `WriteFile`, `MakeNode` and `RemoveNode` are the
user and the kernel. With `Quiet` they leave the folders alone while `sync()` runs, and may edit at any tick
outside of it. Modification times of folders, links and permissions are left out.

`clean`, `broken` and `late` are history. A file of the server is `late` from the moment it is written with
a modification time before `_last_sync` until it is written again with a later one, or a new process starts
its first `sync()`. That happens to a file written after the last `sync()` of the process ended, when it is
still the same second or the server's clock is behind: with `_last_sync = 10.7`, a file written at 10.9 has
the time 10, and line 224 passes over it for as long as the process lives.

### Subfolder

One process per actor. `Start` picks a server and a kernel name; `ReadConfig` reads the file of the local
folder; then the checks of `check_local_sync_folders()` and `check_remote_sync_folder()`, each with the
look (`CheckLocal`, `CheckRoot`) and the creation (`MakeLocal`, `MakeRoot`) apart; `ListFolders`, `MakeSub`,
`OpenConfig` (empties the file) and `Dump` (fills it). With an entry in the file the process goes on with
`CheckSub` and `MakeSubAgain`, the check of the next `connect()`. Every step may lose its race
(`MakeFails`, `CheckFails`) and `Stop` may come at any point, with what is on the disks left as it is. A
check that fails ends the manual `sync`; `start_kernel()` logs the exception and goes on to the command with
`cd` in front (`ChangeDir`), which finds a folder that somebody has made since ("ready") or lets the kernel
end, after which the last `sync()` checks again ("recheck", "remake"). The file may be missing, empty,
garbled or saved; `Readable` says when `json.load()` succeeds. Two writers garble the file when what they
write has different lengths, that is, other names or ids with more digits (`Overwrites`, `Digits`). `made` and the
field `host` of an entry are history: for whom a sub-folder was made, and on which server.

### KernelStart

One process per session. The steps of `start_kernel()` are `Connect`, `WriteRemoteFile`, `FirstSync`,
`Launch`, `StartTunnel`, `WriteLocalFile`, `Wait`, `RemoveRemoteFile`, `Resync` or `LeaveFolders`, `Close`,
`LookForFile`, `RemoveLocalFile`. An `Exception` goes to `Close` with exit code 1 (`Error`);
`KeyboardInterrupt` in the inner `try` goes to the clean-up (`Interrupt`), elsewhere it leaves the function
(`InterruptOutside`); the `finally` clause is the last two steps. `exec_command()` only hands a command to
the server, which runs it when it likes (`jobs`, `Echo`, `Remove`). The kernel reads its configuration from
the file or from its arguments, prints, is shut down, exits, or goes down with its terminal (`Hangup`); it
blocks when the channel is full (`Window`), and the thread that empties the channel may die of a chunk it
cannot decode (`WriterDies`). The value of a file or a configuration is the session it belongs to.

A `KeyboardInterrupt` in `close()` still goes through the `finally` clause (`InterruptClose`); one inside that
clause leaves the rest of it undone, as does a killed process, and both are `Kill`. The server may refuse a
channel, a terminal or a command while the connection is up (the `Error` in `WriteRemoteFile`, `Launch` and
`RemoveRemoteFile`). The ports are abstracted to a tunnel or a kernel that does not start. The content of the
two `sync()` calls is the business of `Sync`; here an error in them is logged and has no effect.

### SshClient and SyncSession

One thread calls the client; `stack` holds the frames of `connect_override()` or `close()`, one per client,
because both recurse along the jump hosts. A frame of `connect_override()` goes through `DirectHost`,
`GivenJump` or `ConnectJump`, then `Authenticate` and `Open`; the client it returns becomes `_jump_host` of
the frame below. A frame of `close()` closes tunnels (`CloseTunnel`), then `CloseConnection`, then the jump
host's frame, then `CloseReturns`. Nothing in the class catches anything, so `ConnectFails` and `CloseFails`
drop the whole stack. `held` and `failed` are history: the clients the caller has still to close, and those
a call was busy with when it raised.

`SyncSession` runs one entry point (`entry`) on top of that: the manual `sync`, `start_kernel()`,
`install_kernel()`, or a program that uses the class itself and lends connected clients as jump hosts.
`block` is the `with` statement it is in, since `set_subfolder()`, the first and the last `sync()` and the
check of `install_kernel()` use the same `connect()` and differ in who catches what (`Caught`).
`OpenSession`, `CheckFolders`, `CheckRaises`, `KeepSession` are the lines of `connect()`: the session is
stored before the checks and the flag after them. What the body of a `with` does on the server is `Body` or
`BodyRaises`.

### CommandLine and Commands

A string of a command line is a record: a prefix that counts (`-c=`, `/`) and the commands it joins with
`" && "`; most strings are one word. `Takes` and `Parse` are what argparse accepts and returns for the
declared options, `KernelArgs` the list `install_kernel()` stores, `Upgraded` what `_check_spec()` makes of
an old one, `StartArgs` what `get_spec()` hands on.

In `Commands` each process runs one command line. `Dispatch` is `main()`, up to where `start` and `sync`
connect ("connects"); a `start` whose `--file` cannot be opened or loaded does not get there (`FileFails`). `Test` is the test of the kernel's command, with a wait for a command that never ends
("stuck"); `Look`, `MakeDir`, `OpenNew`, `Dump`, `CopyLogos` write the kernel folder; `Search`, `Load`,
`Rewrite`, `Save` are `get_spec()` and `_check_spec()`. `OpenFile` empties a file and `Dumped` fills it, so
another process may read or write in between. `Kill` stops a process anywhere and `Remove` is a user who
deletes a kernel folder; a process that has the old one open goes on writing to a file nobody sees
(`linked`). `meant`, `cut` and `stale` are history.

### Version and Packaging

Commits are numbered along the history, so that `head` stands for a hash, a date and the number of commits.
`Begin` looks at the keywords; `GitDir`, `Describe`, `RevParse`, `Count`, `Show` are the calls of git, each
of which sees the repository as it is then; `GitFails` falls through to the name of the folder, `GitFailsLate`
is an exception out of the import. Without a tag `git describe` prints only a hash, which the code ignores:
the short hash is then that of `git rev-parse`. Of the names in the keywords those without a digit are no
candidates for a tag. A version is a sequence of texts with numbers, which keeps apart what the
six formats keep apart. The developer edits, commits, checks out, tags, and makes copies of the package,
inside of his repository or elsewhere.

`Packaging` is `versioneer.py setup`, a file at a time, with stops and with a `git add` nobody looks at, and
the commits in between, of everything or of the index. `subst` are the commits whose `.gitattributes` names
`_version.py`: an archive of those, and of no others, has its keywords expanded. An instance starts from this
repository: no `MANIFEST.in`, no line in `.gitattributes` (it names another package), and an import of
`get_versions` in `__init__.py` that differs from the snippet, so that the first run appends it again.

`RemoteKernel` does one `task` per instance: users run commands with an imported package; a developer
imports the package while he works on it; or he prepares a release and users import its archives.

## Runs

| Run | Instance | Shows |
|---|---|---|
| `sync_quiet` | folder with a file, file beside it; writes, folders, sockets; faults; a server's clock that is behind; editors stay away during `sync()` | `Converged`, `SkippedIsDelivered`, `NewestWins`, `RaisesOnlyOnConflict`, types |
| `sync_live` | the same with removals, edits at any moment, one excluded file | `StampNotNewer`, `ExcludedStaysLocal`, `OneWay`, `ShallowScope`, `SyncReturns` |
| `sync_excluded` | one excluded file | `ExcludedNotFetched` is violated |
| `sync_interrupted` | writes and faults | `ResumesTransfer` is violated |
| `sub_homes` | two processes in one local folder, one in another; two servers, two kernel names | `EntriesOwned`, `ImplementsAllocation`, types |
| `sub_shared` | the same | `Unshared` is violated |
| `start_pair` | two sessions of one account, interrupts and kills | `NoLocalLeftover`, `NoRemoteLeftover`, types |
| `start_alone` | one session, all options, a talking kernel, all faults | `SyncsAfterKernel`, `NoOrphans`, `EndsWithKernel` |
| `start_existing` | two sessions, no faults | `Existing` is violated |
| `start_configured` | two sessions, no faults | `Configured` is violated |
| `sessions` | every entry point; three clients, routes of up to two jump hosts, three kinds of key, two tunnels | `FollowsRoute`, `UnlocksKeyOnce`, `NoOrphanConnection`, `JumpOutlives`, `BlindOnlyAfterRefusal`, `EntryReleases`, `ExitCodeOfSync`, types |
| `program` | two processes and 13 command lines on seven states of the kernel folders; a developer and seven packages; a release | `InstalledIsLasting`, `TornOnlyByInterruption`, `StartsAsInstalled`, `ReportsOwnCode`, `DistinctVersions`, `LaterIsNewer`, `InstalledImports`, `SetupSettles`, `ArchiveReportsCommit`, types |

### Where the program does something else than it says

* **Remote files are never excluded** (`sync_excluded`, `sync.py:224` against `sync.py:69-70`). A file of
  the server named like the configuration file is fetched into the local folder, and over the local one when
  it is newer.
* **An interrupted download is never repeated** (`sync_interrupted`, `sync.py:242-245`). The partial file
  has the time of the interruption, which is later than that of the file on the server; with
  `--bi-directional` it is even pushed there.
* **Two local folders in one sub-folder** (`sub_shared`, `sync.py:138` against the help at
  `__init__.py:78`). The id in the configuration file is used on every server.
* **The file for `--existing` leads to another kernel** (`start_existing`, `start.py:121` against
  `start.py:126`).
* **A kernel runs with the configuration of another session** (`start_configured`, `start.py:88` against
  the help at `__init__.py:63`).

No run shows these, but a line of the repository says otherwise:

* `--local-folder` has no effect, against its help (`__init__.py:79-80`): `'local_folder='` in `sync.py:35`,
  `start.py:94` and `install.py:88` is no name of an option, so the default folder is used.
  `StartsAsInstalled` compares the options as they are parsed, where the value is still there.
* The filter on `_last_sync` is commented "unchanged since last sync" (`sync.py:225`), and passes over files
  that have changed since: those that are `late`, see Sync. `Converged` and `SkippedIsDelivered` name them as
  their exception. In `start_kernel()`, whose two calls of `sync()` share one object, such a file stays on the
  server.
* Of a list of jump hosts with a client in it, the docstring has "all subsequent items" ignored
  (`ssh_client.py:44-45`); the code takes the list from its end, so it drops what stands before the client.

What the models follow the code in, and no document speaks of:

* After folder checks that raised, `start_kernel()` runs its last `sync()` in folders nobody has checked if
  the session is still there (`refused` in `BlindOnlyAfterRefusal`). A `connect_override()` that raises
  leaves its jump hosts connected, and a `close()` that raises everything behind the tunnel (`failed`).
* `_check_spec()` comes before the assertion of `__init__.py:117`: `from-spec` with the kernel of another
  program rewrites its `kernel.json` when its arguments have a `-c`, then refuses it. A start that upgrades
  a `kernel.json` may write over the one of an installation that came in between (`stale`).
* A start that reads `kernel.json` between `open()` and `json.dump()` of another process exits with 1. An
  installation that is stopped there leaves a folder that blocks the name; one whose kernel prints more than
  the channel holds waits until the connection is lost.
* `-n` is not stored in `kernel.json`. `README.md:70-71` describes an option `-c`; `get_parser()` has `-k`.
* `setup.py` calls `get_version()` but installs no `get_cmdclass()`: `_version.py` of an installed package
  has no version in it, and it reports `0+unknown`, or the version of a repository it happens to lie in.
  Archives of this repository are not expanded, as `.gitattributes` names `radiomics/_version.py`.
* A commit or a checkout between two calls of git makes a version of one commit with the hash of another
  (`moved` in the properties of `Version`). A last call that fails raises out of `import remote_kernel`.
* A line of `.gitattributes` that is in the file and not in the index stays out of it, however often
  `versioneer.py setup` is run (`slipped`).

### Bounds, and why they are enough

* `Sync`: three paths make every position of interest (a folder, a file in it, a file beside it); two ticks
  to the second are the fewest in which two edits can share one; `Skew` of one tick makes the server's
  second differ from the local one: it is ahead in the other runs, and behind in `sync_quiet` (`MCSkew`), where
  files become late both by the truncation to a second and by the clock; `MaxTime` leaves room for edits before, during and after two calls of
  `sync()`. `Start` only keeps times away from the 0 that stands for a missing file.
* `Subfolder`: two processes of one local folder race for its configuration file, the third for the
  sub-folders; two servers and two names are the fewest in which an entry can be used away from home.
  `MaxId = 2` sub-folders per server, which stand for 9 and 10 (`Digits`), so that contents of the file
  differ in length; a process that needs a third one waits.
* `KernelStart`: two sessions are enough to disturb each other at every step. `start_pair` leaves out lost
  connections and printed output to stay small; the proofs of its properties do not, and `start_alone` has
  both. `Window = 2` lets the channel fill up. Deadlock is not an error there: when all sessions are done,
  nothing happens any more.

* `sessions`: two jump hosts are the fewest in which the order of a list, and a jump host behind a jump host,
  matter; a third client is the target. A lent client stands in the middle of a route. Two tunnels let one
  raise while another is open.
* `program`: two processes with one command each race for one kernel folder, found in one of two places;
  three processes pass as well. The command lines hold every command and option, and the kernel folders one
  specification of today, two of earlier versions, one that lacks a value and one of another program. Three
  commits and two tags, one with a `+`, make a commit before, at and behind a tag; a commit has one tag, and
  later commits have later tags. The developer interferes once per import, which is enough to mix two
  commits, and one earlier report is kept to compare with. The search for a kernel is one step.

### Fairness

`Sync` assumes that a `sync()` that runs takes its next step: it is a loop without waiting. Editors and
the caller are under no obligation. `KernelStart` assumes the same of a session's process, that the server
runs the commands it has accepted and notices a lost terminal, and that the thread reads what has
arrived. Nobody has to start, interrupt or shut down anything, and in `EndsWithKernel` the assumption that
the thread lives is part of the property because the code does not guarantee it. `SyncSession` and
`RemoteKernel` have no fairness: what they wait for is the network or a user. The invariants and action
properties need no fairness.

## Proofs

All constants are arbitrary under the named assumptions of their modules: any tree of paths, any number of
processes, sessions, clients, servers and names, any routes, any clock skew, any command lines and kernel
folders, any length of history. What the assumptions ask for:

* `ConstantAssumption` (`Sync`, `Subfolder`, `KernelStart`): the bounds are numbers, the values that stand for
  nothing are none of the others. `TreeAssumption` of `Sync`: every path is below the sync folder, stated as
  the principle of induction along `Parent`, which a theorem of the library could not be asked for.
* `ClientAssumption`, `EntryAssumption`: hosts are no clients, the jump hosts of a command line are not
  empty when they are given.
* `CommandsAssumption`, `DisksAssumption`, `LinesAssumption` (`Commands`): where kernel folders can be, and
  that those there at the start are complete. Of their files, those that start `remote_kernel` were written by
  an installation (`WrittenFor`): today's, whose arguments are `KernelArgs`, or the first version's, which had
  the commands in one deprecated argument in one of the forms `_check_spec()` looks for (`FirstArgs`). Files of
  other programs, and those that lack the value, may have any arguments that an upgrade leaves without a
  deprecated one (`UpgradesOnce`): with a second `-c` or `--command` behind the first, two processes that
  upgrade one after the other would write different contents, and `TornOnlyByInterruption` would not hold. The
  strings of a command line
  are not empty, and its names are those of kernel folders.
* `VersionAssumption`: no tag is listed twice, a tag is not the text of another part of a version (a tag `0`
  would make `0.post.dev1` ambiguous), and a style has one of the names `render()` knows.

`SyncProofs`
: `TypeCorrect`, `ServerUntouched` (`OneWay`), `ExcludedKept` (`ExcludedStaysLocal`), `StampsAreTrue`
  (`StampNotNewer`) and `SubFoldersUntouched` (`ShallowScope`). None is inductive as it stands. `OneWay` needs
  `LegInv`: the local leg is entered only with `bi_directional`. `ExcludedStaysLocal` needs `PushInv`: what is
  copied on the local leg is not excluded, also when the entry changes between decision and copy.
  `StampNotNewer` needs `StampInv`: the time read for the source, and those in the listing, are not later than
  the content the copy will find, because an edit in between only makes that content newer. `ShallowScope`
  needs `ScopeInv`: what is on the stack without `recursive` are the roots, so nothing the walk can reach lies
  below a sub-folder.

`SyncQuietProofs`
: `RaisesForAReason` (`RaisesOnlyOnConflict`), `NewestContentWins` (`NewestWins`), `FilterForgetsNothing`
  (`SkippedIsDelivered`) and `FoldersConverge` (`Converged`), under `Quiet`: editors stay away while `sync()`
  runs, as in `sync_quiet`; without it none of the four holds. Between two calls they edit whenever they like.
  The last two are also stated for instances in which nobody removes anything, as in `sync_quiet`, and their
  properties except the files that are `late`, without which the code does not have them: the theorems say
  that the filter forgets those and no others. `CalmInv` collects what the walk relies on: `WalkInv`, a
  folder on the stack is a folder on the sides that matter, and what was listed is what is there; `TreeInv`,
  what exists lies in folders that exist; `TimeInv`, a modification time is the second the content was written
  in, except between `get()` and `utime()`. `PullInv` then says of the remote leg that a file older than
  `_last_sync` has been fetched, and that during the walk one is fetched or still in front of it (`Pending`);
  `SendInv` says the same of the local leg. Together they give that what the filter skips has been delivered
  already or is late, and that at the end nothing is left to deliver.

`SubfolderProofs`
: `TypeCorrect`, `EntriesLeadHome` (`EntriesOwned`) and `Implements` (`ImplementsAllocation`). The invariant
  `OwnInv` carries ownership from the `mkdir` through the memory of a process into the file: what a process
  holds past `MakeSub` and what it is going to write was made for its own local folder. The refinement maps
  `MakeFolder` to `Claim`, the steps into `ready` to `Enter`, `Exit` from there to `Leave`, and everything
  else to stuttering.

`KernelStartProofs`
: `TypeCorrect`, `LocalFileRemoved` (`NoLocalLeftover`), `RemoteFileRemoved` (`NoRemoteLeftover`) and
  `SecondSyncIsLate` (`SyncsAfterKernel`). `LocalInv` says where a session stands while its configuration is
  in the local file. `EchoInv` says that a kernel that has read its session's own configuration has done so
  after the `echo`, which therefore cannot come after the `rm`; `RemoveInv` says that from then on the file is
  gone or the `rm` on its way. `AfterInv` says that a session that cleans up with its
  connection up has seen its kernel end or was interrupted.

`SshClientProofs`
: `ClientsKeepOrder`: the invariant `SshInv` of the client, whoever calls it. `RouteIsFollowed`
  (`FollowsRoute`), `KeyUnlockedOnce` (`UnlocksKeyOnce`), `JumpHostOutlives` (`JumpOutlives`) and
  `NoConnectionOrphaned` (`NoOrphanConnection`). The difficulty is that both calls recurse, so that every
  claim about a client is one about the frames under it and the clients behind it. `Chain` is the set of
  clients one reaches along the jump hosts; it is defined by closure, as the least set with the client that
  has the jump host of each of its members, because a recursive definition is beyond the provers, and the
  lemmas about it (what a new link adds, what a closed client leaves) are what the rest stands on. `ConnectInv`
  and `CloseInv` say how the frames of the stack share a route, and that a `close()` comes back to a client
  that is gone. `WayInv` says that a client that is up has a way of connected clients that follows its
  route, `KeyInv` that after a question for the passphrase the key is in the client that hands it on,
  `JumpInv` that a jump host has one client and stays up with it, and `AnchorInv` that what is open is reached
  from a client that the caller holds, from a frame, or from one that a call has failed with.

`SyncSessionProofs`
: `SessionTypes` (`TypeOK`), `BlindAfterRefusal` (`BlindOnlyAfterRefusal`), `ExitCodeIsTrue`
  (`ExitCodeOfSync`) and `EntryReleasesAll` (`EntryReleases`). `SessionInv` says that a session found by
  `connect()` was left behind by refused checks, which the manual sync does not come back from; `BlockInv`
  says which `with` statements an entry point has. For the exit code `CallInv` says that a call of the client
  that is over has a result, because each frame either goes on or ends it (`CallResult`). `HoldInv` relates
  where an entry point stands to the clients it still has to close, on top of `SshInv`.

`CommandsProofs`
: `InstallationsLast` (`InstalledIsLasting`), `TornIsInterrupted` (`TornOnlyByInterruption`),
  `OptionsSurvive` (`StartsAsInstalled`), `InstalledIsAccepted` and, for the composed program, `ProgramTypes`
  (`TypeOK`). The invariant `CommandsInv` has a part for each process (`ProcessOK`: what it remembers of a file and of its
  options fits where it stands), one for each kernel folder (`KernelOK`: a whole file of today or of an
  earlier version), and one for a folder and the processes that work in it (`FolderOK`). The last is the
  heart: `Alone`, who has made a folder has it to himself until its `kernel.json` is complete; `Agreed`,
  those who upgrade a file write the same over it; `Kept`, what is installed is there and nobody is about to
  write over it; `Completed`, what is not complete is being written, unless somebody was stopped.
  A step is proved once for what it does to a folder (`Opens`, `Fills`, `Dumps`, `Removes`, ...) and once for
  how the code's actions do it. `InstalledIsNew` is the fact about data underneath: the arguments that an
  installation stores need no upgrade.

  `OptionsSurvive` is a round trip of data, from a command line over the options and `kernel.json`, or an
  earlier version's, back to a command line and its options; without recursion it is proved about positions
  in a row of parts. `Speaks` says that the strings of a part are one option and values, and `Around` that a
  row names an option in one of its parts only, hence `Parse()` reads there what was put in (`ReadValue`,
  `ReadSwitch`, `ReadJumps`, and `BodyMeans` for all options). `StartOfInstalled` takes the interpreter and
  Jupyter's argument out again, `StoredIsUpToDate` says that today's file is left as it is, and `OldIsUpgraded`
  that the first version's becomes today's, argument for argument, in each of its forms. What a value may be, so that
  it is not taken for an option (`Sayable`), is what every accepted command line gives (`ParsedIsSayable`). The
  invariant `MeansInv` carries this through the interleavings: every complete file means, when it is upgraded,
  the options it was made from (`KernelMeans`), and so does what a process has read and is about to write back
  (`Honest`), whoever has emptied, replaced or deleted the file since.

  `InstalledIsAccepted` is the other half, about the three parsers: whatever `install` accepts, `start` and
  `sync` accept of what is stored. It is a theorem about the operators, for values that stand on their own
  behind their option (see "Not modelled"): `Legal` says how options and values follow each other, and
  `LegalConcat` that parts can be put in a row.

`RemoteKernelProofs`
: `SetupConverges` (`SetupSettles`), `ArchivesKnowTheirCommit` (`ArchiveReportsCommit`),
  `InstallationImports` (`InstalledImports`), `ReportsAreOwn` (`ReportsOwnCode`), `UpgradesAreNewer`
  (`LaterIsNewer`) and `VersionsDiffer` (`DistinctVersions`). `SetupInv` is what a run of setup has behind it
  at each step. `LineInv` says that the line of `.gitattributes` is in the index, about
  to be added, or slipped, hence a commit after a run that ended well expands; `CopyInv` carries that into the
  keywords of an archive and the report. `ImportInv` says that git is only asked without keywords, and past
  its first call only inside a repository. `ReportInv` follows a commit from the calls of git (`AskedInv`) or
  the keywords (`KeywordsInv`) into the version (`SourceInv`), through each of the six formats:
  `VersionSays` is what a version says of the pieces it was made of, `ReadBack` that nothing else can be read
  in it. For two reports `CompareInv` says that the later is of the nearest tag before its commit, and that
  both count from tags that stay where they are, in the order of the history. That a first tag of several
  exists is the principle of the least number, from the library's theorem on well-founded relations.

Only model-checked: liveness (`SyncReturns`, `NoOrphans`, `EndsWithKernel`), which is out of the prover's
reach. Every other property of a passing run is a theorem.

## Plan

1. *Done*: `Sync`, `Allocation` and `Subfolder`, `KernelStart`, each with its runs and theorems.
2. *Done*: `SshClient` and `SyncSession`; `CommandLine`, `Commands`, `Version`, `Packaging`, composed in
   `RemoteKernel`; their runs and theorems.
3. *Done*: theorems for every safety property the runs check.
4. *Done*: the round trip of the options, for `StartsAsInstalled`.

## Not modelled

`dialog.py` and the logging of `__init__.py` are input and output. Of `versioneer.py` there is `setup`; its
build commands are not used by `setup.py`, its check of `setup.py` prints and sets an exit code, and the rest
repeats `_version.py`. The command line leaves out abbreviated options, values joined to an option
(`-tgpu`), values that begin with a dash, `-h`, which prints the help and exits with 0, and arguments read
from a file with `@` (`__init__.py:42`). `Version` leaves out a `git describe`
whose output cannot be parsed and tags that do not begin with the prefix, which is empty here.
