------------------------------ MODULE Commands ------------------------------
(***************************************************************************)
(* The commands of remote_kernel, up to the point where start and sync     *)
(* connect: the dispatch of main() (__main__.py), install_kernel() and its *)
(* kernel.json (install.py), get_spec() and _check_spec() (__init__.py).   *)
(* Processes of one user share the kernel folders, and the user deletes    *)
(* some.                                                                   *)
(***************************************************************************)
EXTENDS CommandLine

CONSTANTS
    Process,
    Folder,         \* names of kernel folders
    Path,           \* where kernels are looked for, in this order
    UserDir,        \* where they are installed
    FolderOf(_),    \* the folder of an installation: its name, expanded and made safe
    Lines,          \* the command lines that are run
    Disks           \* the kernel folders there may be at the start

ASSUME CommandsAssumption ==
    Path \in Seq({Path[i] : i \in DOMAIN Path}) /\ UserDir \in {Path[i] : i \in DOMAIN Path}

VARIABLES
    kernels,    \* the kernel folders, and the options behind a kernel.json (history)
    proc,       \* the processes
    cut,        \* history: folders somebody was writing to when he stopped
    stale       \* history: folders written to in place of a deleted one

commandVars == <<kernels, proc, cut, stale>>

Place == {Path[i] : i \in DOMAIN Path} \X Folder
Nowhere == <<UserDir, "">>
NoOptions == Parse(<<>>)

Absent == [dir |-> FALSE, file |-> "none", argv |-> <<>>, meant |-> NoOptions]

\* Nothing of the deprecated argument is left after an upgrade.
UpgradesOnce(args) ==
    /\ args # <<>>
    /\ Deprecated(args) # 0 /\ ~LacksValue(args) =>
          Upgraded(args) # <<>> /\ Deprecated(Upgraded(args)) = 0

\* What an installation has written for these options, today's or the first
\* version's, whose argument ends in the command of the kernel.
WrittenFor(args, o) ==
    /\ Sayable(o)
    /\ \/ args = KernelArgs(o)
       \/ /\ \A n \in {"pre", "kernel"} : o[n] \in Seq({o[n][i] : i \in DOMAIN o[n]})
          /\ Len(o.kernel) = 1 /\ args \in FirstArgs(o)

\* The folders there are at the start are complete, and those of remote_kernel
\* are by an installation.  UpgradesOnce is asked of every file, those of other
\* programs included: from-spec upgrades whatever has a -c, and two processes
\* that upgrade one file must write the same.
ASSUME DisksAssumption ==
    \A d \in Disks :
        /\ d \in [Place -> {d[k] : k \in Place}]
        /\ \A k \in Place :
              \/ d[k] = Absent
              \/ /\ d[k] = [dir |-> TRUE, file |-> "whole", argv |-> d[k].argv, meant |-> d[k].meant]
                 /\ UpgradesOnce(d[k].argv)
                 /\ ~LacksValue(d[k].argv) /\ IsOurs(Upgraded(d[k].argv)) =>
                       WrittenFor(d[k].argv, d[k].meant)

\* mode is the parser, at the kernel folder, spec what has been read of it and
\* meant the options behind that; linked: the folder found, made or opened is
\* still the one at that place.
NewProcess ==
    [pc |-> "off", exit |-> "none", mode |-> "start", opts |-> NoOptions,
     at |-> Nowhere, linked |-> FALSE, spec |-> <<>>, meant |-> NoOptions]

Becomes(p, r) == proc' = [proc EXCEPT ![p] = r]

\* Mutant: main() returns nothing.
Unreported(r, code) == [r EXCEPT !.pc = "done"]

Ended(r, code) == [r EXCEPT !.pc = "done", !.exit = code]
Goto(p, label) == Becomes(p, [proc[p] EXCEPT !.pc = label])
At(p, label) == proc[p].pc = label
Here(p) == kernels[proc[p].at]
Put(k, f) == kernels' = [kernels EXCEPT ![k] = f]

\* Between making the folder, or emptying the file, and filling it.
Writing(p, k) ==
    proc[p].at = k /\ proc[p].linked /\ proc[p].pc \in {"open", "dump", "save"}

\* The end of a process that may be writing.
Leave(p, code) ==
    /\ Becomes(p, Ended(proc[p], code))
    /\ cut' = cut \cup {k \in Place : Writing(p, k)}
    /\ UNCHANGED <<kernels, stale>>

----------------------------------------------------------------------------
(* main()                                                                  *)

\* parse_args() of start and sync, which connect next; start reads the file
\* of --file before, see FileFails.  An error of argparse exits with 2, past
\* every handler of main().
HandOver(r, parser, args) ==
    IF Takes(parser, args)
    THEN Ended([r EXCEPT !.mode = parser, !.opts = Parse(args)], "connects")
    ELSE Ended(r, "2")

\* start opens and loads the file of --file before it connects.
FileFails(p) ==
    /\ At(p, "done") /\ proc[p].exit = "connects"
    /\ proc[p].mode = "start" /\ proc[p].opts.file # None
    /\ Leave(p, "1")

\* get_spec() takes one argument: the name of the kernel's folder, or the path
\* of its kernel.json, which is loaded without a search.
Lookup(parser, args) ==
    IF Len(args) # 1 \/ LooksLikeOption(args[1]) THEN Ended(NewProcess, "2")
    ELSE IF args[1].prefix = "/"
    THEN [NewProcess EXCEPT !.pc = "load", !.mode = parser, !.at = args[1].commands]
    ELSE [NewProcess EXCEPT !.pc = "search", !.mode = parser,
                            !.at = <<UserDir, args[1].commands[1]>>]

Install(args) ==
    IF Takes("install", args)
    THEN [NewProcess EXCEPT !.pc = "test", !.mode = "install", !.opts = Parse(args),
                            !.at = <<UserDir, FolderOf(Parse(args))>>]
    ELSE Ended(NewProcess, "2")

\* sync without an argument is an IndexError, which main() catches.
Dispatch(line) ==
    IF line \in {<<>>, <<Word("sync")>>} THEN Ended(NewProcess, "1")
    ELSE CASE LooksLikeOption(line[1])    -> HandOver(NewProcess, "start", line)
           [] line[1] = Word("install")   -> Install(Tail(line))
           [] line[1] = Word("from-spec") -> Lookup("start", Tail(line))
           [] line[1] = Word("sync")      ->
                 IF line[2] = Word("from-spec") THEN Lookup("sync", Tail(Tail(line)))
                 ELSE HandOver(NewProcess, "sync", Tail(line))
           [] OTHER                       -> Ended(NewProcess, "2")

Dispatched == {Dispatch(line) : line \in Lines}

\* A command line is a list of strings, and its names and paths are those of
\* kernel folders.
ASSUME LinesAssumption ==
    \A line \in Lines :
        /\ line \in Seq({line[i] : i \in DOMAIN line})
        /\ \A i \in DOMAIN line :
              /\ line[i] = Joined(line[i].prefix, line[i].commands)
              /\ line[i].commands # None
              /\ line[i].prefix = "/" => line[i].commands \in Place
        /\ Dispatch(line).pc # "done" => Dispatch(line).at \in Place

Run(p) ==
    /\ At(p, "off") /\ \E r \in Dispatched : Becomes(p, r)
    /\ UNCHANGED <<kernels, cut, stale>>

----------------------------------------------------------------------------
(* Writing kernel.json                                                     *)

\* open() with mode 'w': the folder must be there, the file is empty from now.
OpenFile(p, next) ==
    LET k == proc[p].at
    IN  /\ Here(p).dir
        /\ Put(k, [Here(p) EXCEPT !.file = "torn", !.argv = <<>>])
        /\ stale' = IF proc[p].linked THEN stale ELSE stale \cup {k}
        /\ Becomes(p, [proc[p] EXCEPT !.pc = next, !.linked = TRUE])
        /\ UNCHANGED cut

\* json.dump() and the end of the with statement: into the file that was opened,
\* over what another writer has put there since.
Dumped(p, args, options) ==
    LET k == proc[p].at
        whole == [Here(p) EXCEPT !.file = "whole", !.argv = args, !.meant = options]
        mixed == [Here(p) EXCEPT !.file = "torn", !.argv = <<>>]
    IN  IF ~proc[p].linked THEN UNCHANGED kernels
        ELSE \/ Put(k, whole)
             \/ Here(p).file = "whole" /\ Here(p).argv # args /\ Put(k, mixed)

----------------------------------------------------------------------------
(* install_kernel()                                                        *)

\* The connection, the kernel's --help-all, --dry-run and the check of the
\* remote folder.  A command that prints more than the channel holds before it
\* ends is waited for without being read.
Test(p) ==
    /\ At(p, "test")
    /\ \/ Leave(p, "2")
       \/ Leave(p, "1")
       \/ proc[p].opts.dry /\ Leave(p, "0")
       \/ /\ ~(proc[p].opts.skip /\ proc[p].opts.pre = None)
          /\ Goto(p, "stuck") /\ UNCHANGED <<kernels, cut, stale>>
       \/ ~proc[p].opts.dry /\ Goto(p, "look") /\ UNCHANGED <<kernels, cut, stale>>

\* Until the connection is lost.
TestBreaks(p) == At(p, "stuck") /\ Leave(p, "1")

Look(p) ==
    /\ At(p, "look")
    /\ IF Here(p).dir THEN Leave(p, "1")
       ELSE Goto(p, "mkdir") /\ UNCHANGED <<kernels, cut, stale>>

\* Mutant: os.makedirs(exist_ok=True).
ExistOk(k) == TRUE

CanMake(k) == ~kernels[k].dir

MakeDir(p) ==
    /\ At(p, "mkdir") /\ CanMake(proc[p].at)
    /\ Put(proc[p].at, [Here(p) EXCEPT !.dir = TRUE])
    /\ Becomes(p, [proc[p] EXCEPT !.pc = "open", !.linked = TRUE])
    /\ UNCHANGED <<cut, stale>>

OpenNew(p) == At(p, "open") /\ OpenFile(p, "dump")

Dump(p) ==
    /\ At(p, "dump") /\ Dumped(p, KernelArgs(proc[p].opts), proc[p].opts)
    /\ Goto(p, "logos") /\ UNCHANGED <<cut, stale>>

\* The logos, and the end of the connection; 2 when either raises.
CopyLogos(p) ==
    /\ At(p, "logos")
    /\ \/ Here(p).dir /\ Leave(p, "0")
       \/ Leave(p, "2")

\* The folder is there by now, or has gone, or the disk is full.
InstallRaises(p) ==
    /\ proc[p].pc \in {"mkdir", "open", "dump"} /\ Leave(p, "2")

----------------------------------------------------------------------------
(* get_spec() and _check_spec()                                            *)

\* The first folder of that name that holds the file; the assertion fails when
\* there is none.
Search(p) ==
    /\ At(p, "search")
    /\ LET name == proc[p].at[2]
           found == {i \in DOMAIN Path : kernels[<<Path[i], name>>].file # "none"}
       IN  IF found = {} THEN Leave(p, "1")
           ELSE /\ Becomes(p, [proc[p] EXCEPT !.pc = "load", !.at = <<Path[First(found)], name>>])
                /\ UNCHANGED <<kernels, cut, stale>>

\* What is left to do once the specification is up to date.
Started(r, args) ==
    IF IsOurs(args) THEN HandOver(r, r.mode, StartArgs(args)) ELSE Ended(r, "1")

Load(p) ==
    /\ At(p, "load")
    /\ LET args == Here(p).argv
           read == [proc[p] EXCEPT !.linked = TRUE, !.spec = args, !.meant = Here(p).meant]
       IN  IF Here(p).file # "whole" \/ LacksValue(args) THEN Leave(p, "1")
           ELSE /\ Becomes(p, IF Deprecated(args) = 0 THEN Started(read, args)
                              ELSE [read EXCEPT !.pc = "rewrite"])
                /\ UNCHANGED <<kernels, cut, stale>>

Rewrite(p) == At(p, "rewrite") /\ OpenFile(p, "save")

Save(p) ==
    /\ At(p, "save")
    /\ LET args == Upgraded(proc[p].spec)
       IN  /\ Dumped(p, args, proc[p].meant)
           /\ Becomes(p, Started(proc[p], args))
    /\ UNCHANGED <<cut, stale>>

RewriteRaises(p) == proc[p].pc \in {"rewrite", "save"} /\ Leave(p, "1")

----------------------------------------------------------------------------
(* The user, and the specification                                         *)

Kill(p) == proc[p].pc \notin {"off", "done"} /\ Leave(p, "killed")

Remove(k) ==
    /\ kernels[k].dir /\ Put(k, Absent)
    /\ proc' = [p \in Process |->
                  IF proc[p].at = k THEN [proc[p] EXCEPT !.linked = FALSE] ELSE proc[p]]
    /\ cut' = cut \ {k} /\ stale' = stale \ {k}

CommandsInit(disks) ==
    /\ kernels \in disks
    /\ proc = [p \in Process |-> NewProcess] /\ cut = {} /\ stale = {}

CommandStep(p) ==
    \/ Test(p) \/ TestBreaks(p) \/ Look(p) \/ MakeDir(p) \/ OpenNew(p)
    \/ Dump(p) \/ CopyLogos(p) \/ InstallRaises(p) \/ Search(p) \/ Load(p) \/ Rewrite(p)
    \/ Save(p) \/ RewriteRaises(p) \/ FileFails(p) \/ Kill(p)

----------------------------------------------------------------------------
(* Properties                                                              *)

CommandsTypeOK ==
    /\ \A k \in Place :
          /\ kernels[k].file = "whole" <=> kernels[k].argv # <<>>
          /\ ~kernels[k].dir => kernels[k] = Absent
    /\ \A p \in Process :
          /\ proc[p].exit \in {"none", "0", "1", "2", "killed", "connects"}
          /\ proc[p].pc = "done" <=> proc[p].exit # "none"
          /\ proc[p].pc \in {"off", "test", "stuck", "look", "mkdir", "open", "dump",
                             "logos", "search", "load", "rewrite", "save", "done"}
    /\ cut \subseteq Place /\ stale \subseteq Place

\* When an installation has reported success, the folder holds its kernel.json
\* until the user deletes it, however many installations and starts race for the
\* name: one of them wins (install.py:107, 148, __init__.py:181).  The exception
\* is a process that writes to a folder which has replaced the one it looked at.
InstalledIsLasting ==
    \A p \in Process :
        LET k == proc[p].at
        IN  /\ proc[p].pc = "done" /\ proc[p].mode = "install" /\ proc[p].exit = "0"
            /\ ~proc[p].opts.dry /\ proc[p].linked /\ k \notin stale
            => kernels[k].argv = KernelArgs(proc[p].opts)

\* A kernel folder whose specification cannot be read is being written to, or
\* was when somebody stopped: no race of installations and starts alone leaves
\* one (install.py:148-150, __init__.py:181-182).
TornOnlyByInterruption ==
    \A k \in Place :
        kernels[k].dir /\ kernels[k].file # "whole" =>
            k \in cut \cup stale \/ \E p \in Process : Writing(p, k)

\* What a kernel is started with: the name is not stored, the options of the
\* synchronisation count only with --synchronize, and the commands run in a row.
Effect(o) ==
    [commands |-> o.pre \o o.kernel, target |-> o.target, jump |-> o.jump,
     key |-> o.key, noFiles |-> o.noFiles, sync |-> o.sync,
     folders |-> IF o.sync THEN <<o.flat, o.both, o.local, o.remote>> ELSE <<>>]

\* A kernel is started with the options it was installed with, also from the
\* first version's kernel.json, and whoever else upgrades it at the same time
\* (install.py:112-140, __init__.py:115-127, 141-179).
StartsAsInstalled ==
    \A p \in Process :
        proc[p].exit = "connects" /\ proc[p].spec # <<>> =>
            Effect(proc[p].opts) = Effect(proc[p].meant)
=============================================================================
