--------------------------- MODULE MCRemoteKernel ---------------------------
(* An instance of RemoteKernel for TLC.                                    *)
EXTENDS RemoteKernel, TLC

CONSTANTS p1, p2

MCPath == <<"here", "user">>
MCFolderOf(o) == "kernel"

\* Command lines: every command, every option, and what is left out.
Target(host) == <<Word("-t"), Word(host)>>
Line(cmd, args) == <<Word(cmd)>> \o args
Behind ==
    Target("ann@gpu")
    \o <<Word("-J"), Word("gate"), Word("-J"), Word("door"),
         Word("-pc"), Command(<<"cd work", "source env">>),
         Word("-s"), Word("-nr"), Word("-lf"), Word("notes")>>
Other ==
    Target("ann@cpu")
    \o <<Word("-k"), Word("ipython"), Word("--no-remote-files"), Word("-i"), Word("id")>>
MCLines ==
    {<<>>, Target("gpu") \o <<Word("-f"), Word("gpu.json")>>, <<Word("list")>>,
     Line("install", Behind), Line("install", Other), Line("install", <<Word("-t")>>),
     Line("install", Target("gpu") \o <<Word("--dry-run"), Word("--skip-kernel-test")>>),
     Line("from-spec", <<Word("kernel")>>), Line("from-spec", <<>>),
     Line("from-spec", <<Joined("/", <<"user", "kernel">>)>>),
     Line("sync", <<>>), Line("sync", <<Word("-s")>>),
     Line("sync", <<Word("from-spec"), Word("kernel")>>)}

\* Kernel folders: none, one of today, those of earlier versions with a command in
\* one text, one that lacks it, and a kernel of another program.
Kernel(argv, o) == [dir |-> TRUE, file |-> "whole", argv |-> argv, meant |-> o]
Far == Parse(Behind)
Near == [Parse(Target("gpu")) EXCEPT !.pre = <<"cd work">>]
Old(o, text) == CHOOSE args \in FirstArgs(o) : \E i \in DOMAIN args : args[i] = text
FarKernel == Kernel(Old(Far, Word("--command")), Far)
NearKernel == Kernel(Old(Near, Joined("-c=", Near.pre \o Near.kernel)), Near)
TodaysKernel == Kernel(KernelArgs(Near), Near)
Kernels ==
    {FarKernel, NearKernel, TodaysKernel,
     Kernel(Program \o Target("gpu") \o <<Word("-c")>>, NoOptions),
     Kernel(<<Word("bash"), Word("-c"), Word("kernel")>>, NoOptions)}
MCDisks ==
    {[k \in Place |-> IF k[1] = "user" THEN f ELSE Absent] : f \in Kernels \cup {Absent}}
    \cup {[k \in Place |-> IF k[1] = "here" THEN TodaysKernel ELSE FarKernel]}

\* Packages: one somewhere, checkouts to work in and to release from.
MCTag == <<"1.0", "2.0+cuda">>
Plain == [prefix |-> "", rest |-> "src"]
NoneDir == [prefix |-> "None", rest |-> "-1.0"]
Pack(job, where, parents, format, name) ==
    [task |-> job, tree |-> where, dirs |-> parents, style |-> format, branch |-> name]
Styles == {"default", "pep440-pre", "pep440-post", "pep440-old", "git-describe",
           "git-describe-long"}
MCPackages ==
    {Pack("use", "outside", <<Plain, Plain, Plain>>, "pep440-post", "master"),
     Pack("develop", "checkout", <<Plain, Plain, Plain>>, "pep440-post", "master"),
     Pack("release", "checkout", <<Plain, Plain, Plain>>, "pep440-post", "master"),
     Pack("release", "checkout", <<Plain, Plain, NoneDir>>, "pep440-post", "v2")}
    \cup {Pack("develop", "checkout", <<Plain, Plain, NoneDir>>, s, "v2") : s \in Styles}

Sym == Permutations(Process)
=============================================================================
