----------------------------- MODULE CommandLine ----------------------------
(***************************************************************************)
(* The command line of remote_kernel: the options get_parser() declares,   *)
(* the command line install_kernel() stores in kernel.json, and what       *)
(* _check_spec() and get_spec() make of it when the kernel is started.     *)
(*                                                                         *)
(* A string is a record: the commands it joins with " && ", after a prefix *)
(* that counts, such as "-c=", or "/" of an absolute path.  Most strings   *)
(* have no prefix and are one command long.                                *)
(***************************************************************************)
EXTENDS Naturals, Sequences, FiniteSets

Joined(prefix, commands) == [prefix |-> prefix, commands |-> commands]
Command(commands) == Joined("", commands)
Word(s) == Command(<<s>>)
Words(S) == {Word(s) : s \in S}

None == <<>>        \* no value: a string holds one command at least

----------------------------------------------------------------------------
(* The parsers                                                             *)

\* The options with a value, and the switches.
Spellings ==
    [target |-> {"--target", "-t"}, jump |-> {"-J"}, key |-> {"-i"},
     kernel |-> {"--kernel", "-k"}, pre |-> {"--pre-command", "-pc"},
     name |-> {"--name", "-n"}, file |-> {"--file", "-f"},
     remote |-> {"--remote-folder", "-rf"}, local |-> {"--local-folder", "-lf"}]

Switches ==
    [noFiles |-> {"--no-remote-files"}, sync |-> {"--synchronize", "-s"},
     flat |-> {"--no-recursive", "-nr"}, both |-> {"--bi-directional", "-bd"},
     skip |-> {"--skip-kernel-test"}, dry |-> {"--dry-run"}]

Default ==
    [o \in DOMAIN Spellings |->
        CASE o = "kernel"            -> <<"python -m ipykernel">>
          [] o = "name"              -> <<"remote_kernel-%(user)s@%(host)s">>
          [] o \in {"remote", "local"} -> <<"remote_kernel_sync">>
          [] OTHER                   -> None]

\* The options of a parser: start takes --file, install the last two switches.
Common == (DOMAIN Spellings \cup DOMAIN Switches) \ {"file", "skip", "dry"}
OptionsOf ==
    [start |-> Common \cup {"file"}, sync |-> Common,
     install |-> Common \cup {"skip", "dry"}]

\* What argparse takes for an option: a string that begins with a dash.
Dashed ==
    Words(UNION ({Spellings[o] : o \in DOMAIN Spellings}
                 \cup {Switches[o] : o \in DOMAIN Switches} \cup {{"-c", "--command"}}))

LooksLikeOption(a) == a.prefix \notin {"", "/"} \/ a \in Dashed

Places(args, names) == {i \in DOMAIN args : args[i] \in Words(names)}

Takes(parser, args) ==
    LET known == OptionsOf[parser]
        valued == UNION {Places(args, Spellings[o]) : o \in known \cap DOMAIN Spellings}
        others == UNION {Places(args, Switches[o]) : o \in known \cap DOMAIN Switches}
    IN  /\ \A i \in DOMAIN args :
              IF LooksLikeOption(args[i]) THEN i \in valued \cup others
              ELSE i - 1 \in valued
        /\ \A i \in valued : i + 1 \in DOMAIN args /\ ~LooksLikeOption(args[i + 1])
        /\ Places(args, Spellings.target) # {}

\* The last value counts, but -J is a list.
ValueOf(args, o) ==
    LET at == Places(args, Spellings[o])
    IN  IF at = {} THEN Default[o]
        ELSE args[1 + CHOOSE i \in at : \A j \in at : j <= i].commands

\* The element of a set of numbers with k - 1 below it.
Nth(S, k) == CHOOSE i \in S : Cardinality({j \in S : j <= i}) = k

ValuesOf(args, o) ==
    LET at == Places(args, Spellings[o])
    IN  [k \in 1..Cardinality(at) |-> args[Nth(at, k) + 1].commands]

Parse(args) ==
    [o \in DOMAIN Spellings \cup DOMAIN Switches |->
        CASE o = "jump"              -> ValuesOf(args, o)
          [] o \in DOMAIN Switches   -> Places(args, Switches[o]) # {}
          [] OTHER                   -> ValueOf(args, o)]

----------------------------------------------------------------------------
(* kernel.json, from install_kernel()                                      *)

Given(option, value) ==
    IF value = None THEN <<>> ELSE <<Word(option), Command(value)>>
Changed(option, o, name) ==
    IF o[name] = Default[name] THEN <<>> ELSE Given(option, o[name])
Switch(option, on) == IF on THEN <<Word(option)>> ELSE <<>>

Connection == "{connection_file}"
Program == <<Word("python"), Word("-m"), Word("remote_kernel")>>

\* Each in turn, with its option before it.
JumpArgs(o) ==
    [i \in 1..2 * Len(o.jump) |->
        IF i % 2 = 1 THEN Word("-J") ELSE Command(o.jump[i \div 2])]

\* Mutant: the folders of the user are left out of the synchronisation.
SyncArgsOfDefault(o) ==
    <<Word("-s")>> \o Switch("--no-recursive", o.flat) \o Switch("--bi-directional", o.both)

SyncArgs(o) ==
    <<Word("-s")>> \o Switch("--no-recursive", o.flat) \o Switch("--bi-directional", o.both)
    \o Changed("--local-folder", o, "local") \o Changed("--remote-folder", o, "remote")

\* What stands before the commands, and behind them.
Opening(o) == Program \o Given("-t", o.target) \o JumpArgs(o) \o Given("-i", o.key)
Closing(o) ==
    Switch("--no-remote-files", o.noFiles) \o <<Word("-f"), Word(Connection)>>
    \o IF o.sync THEN SyncArgs(o) ELSE <<>>

KernelArgs(o) == Opening(o) \o Given("-pc", o.pre) \o Changed("-k", o, "kernel") \o Closing(o)

\* Options that a command line can give: each value is a text that is no option.
CanSay(value) == value # None /\ Command(value) \notin Dashed

Sayable(o) ==
    /\ \A n \in {"target", "key", "pre"} : o[n] = None \/ CanSay(o[n])
    /\ \A n \in {"kernel", "local", "remote"} : CanSay(o[n])
    /\ o.jump \in Seq({o.jump[i] : i \in DOMAIN o.jump})
    /\ \A i \in DOMAIN o.jump : CanSay(o.jump[i])
    /\ \A n \in {"noFiles", "sync", "flat", "both"} : o[n] \in BOOLEAN

\* The first version's: what runs before the kernel is in one text with it.
FirstForms(commands) ==
    {<<Word(option), Command(commands)>> : option \in {"--command", "-c"}}
    \cup {<<Joined(prefix, commands)>> : prefix \in {"-c=", "--command="}}

FirstArgs(o) == {Opening(o) \o form \o Closing(o) : form \in FirstForms(o.pre \o o.kernel)}

----------------------------------------------------------------------------
(* kernel.json, from the start of a kernel                                 *)

First(S) == CHOOSE i \in S : \A j \in S : i <= j

\* The deprecated argument, under the spelling that is looked for first; 0
\* when there is none.
Deprecated(args) ==
    LET long  == Places(args, {"--command"})
        short == Places(args, {"-c"})
        joint == {i \in DOMAIN args : args[i].prefix \in {"-c=", "--command="}}
    IN  IF long # {} THEN First(long)
        ELSE IF short # {} THEN First(short)
        ELSE IF joint # {} THEN First(joint) ELSE 0

\* An index beyond the end of the list.
LacksValue(args) ==
    LET at == Deprecated(args)
    IN  at # 0 /\ args[at].prefix = "" /\ at = Len(args)

\* The commands before the last are the pre-command, the last is the kernel.
SplitCommand(commands) ==
    LET n == Len(commands)
        kernel == <<commands[n]>>
    IN  Given("-pc", SubSeq(commands, 1, n - 1))
        \o IF kernel = Default.kernel THEN <<>> ELSE Given("-k", kernel)

Upgraded(args) ==
    LET at == Deprecated(args)
        value == IF args[at].prefix = "" THEN at + 1 ELSE at
    IN  IF at = 0 THEN args
        ELSE SubSeq(args, 1, at - 1) \o SplitCommand(args[value].commands)
             \o SubSeq(args, value + 1, Len(args))

IsOurs(args) == Len(args) >= 3 /\ SubSeq(args, 2, 3) = Tail(Program)

\* Jupyter's own argument goes, and the interpreter.
StartArgs(args) ==
    LET file == Places(args, {"-f"})
        joint == {i \in DOMAIN args : args[i] = Joined("-f=", <<Connection>>)}
        Without(i, j) == SubSeq(args, 4, i - 1) \o SubSeq(args, j + 1, Len(args))
    IN  IF file # {} /\ args[First(file) + 1] = Word(Connection)
        THEN Without(First(file), First(file) + 1)
        ELSE IF joint # {} THEN Without(First(joint), First(joint))
        ELSE SubSeq(args, 4, Len(args))
=============================================================================
