------------------------------- MODULE Version ------------------------------
(***************************************************************************)
(* remote_kernel/_version.py: what get_versions() reports when the package *)
(* is imported, from the keywords of an archive, from git, or from the     *)
(* name of a folder.  It asks git up to five times, and the developer goes *)
(* on working in between.                                                  *)
(*                                                                         *)
(* Commits are numbered along the history.  A version is a sequence of     *)
(* parts, each a text with a number where the code formats one.            *)
(***************************************************************************)
EXTENDS Naturals, Sequences

CONSTANTS
    Tag, PlusTag,   \* the tags, in the order of sorted(), and those with a "+"
    HasDigit,       \* the names of tags and branches with a digit
    Packages,       \* the packages that are imported: where they lie (tree), the
                    \* names of the folders around them, innermost first (dirs),
                    \* cfg.style, and the branch of the repository
    MaxCommit       \* bound on the history

TagSet == {Tag[i] : i \in DOMAIN Tag}
Commits == 1..MaxCommit

\* The texts in front of an abbreviated commit, all that the formats write beside
\* a tag, and the names of cfg.style.
HashTexts == {"", "g", ".g", "+g", "-g"}
FixedTexts ==
    HashTexts \cup
    {"distance", ".post", ".post.dev", "-", "0+untagged.", "0", ".", "+", ".dirty", ".dev0", "-dirty"}
StyleNames ==
    {"", "default", "pep440", "pep440-pre", "pep440-post", "pep440-old", "git-describe",
     "git-describe-long"}

\* No tag is listed twice, or taken for another part of a version.
ASSUME VersionAssumption ==
    /\ MaxCommit \in Nat \ {0}
    /\ Tag \in Seq(STRING) /\ TagSet \cap FixedTexts = {}
    /\ \A i, j \in DOMAIN Tag : Tag[i] = Tag[j] => i = j
    /\ \A k \in Packages : k.style \in StyleNames /\ k.tree \in {"checkout", "inside", "outside"}

VARIABLES
    \* The repository of the developer.
    top,        \* the number of its commits
    head,       \* the commit that is checked out
    tagged,     \* the commit of a tag, 0 before it is set
    dirty,      \* the work tree is edited
    branch,
    subst,      \* the commits whose .gitattributes has _version.py expanded in archives
    \* The package that is imported.
    tree,       \* the checkout, or a copy inside or outside of it
    code,       \* history: the commit it was made of, for a copy
    keywords,   \* the keywords of _version.py, NoKeywords when unexpanded
    dirs,
    style,
    \* get_versions().
    stage,      \* the call of git that is next
    pieces,     \* what git has said
    report,     \* the result
    moved,      \* history: the developer did something between two calls
    earlier     \* history: a report of before

repository == <<top, head, tagged, dirty, branch, subst>>
package == <<tree, code, keywords, dirs, style>>
import == <<stage, pieces, report, moved, earlier>>
versionVars == <<repository, package, import>>

NoKeywords == [refs |-> {}, full |-> 0]
NoPieces == [tag |-> "", distance |-> 0, short |-> 0, dirty |-> FALSE, long |-> 0, date |-> 0]

Part(text, n) == [text |-> text, n |-> n]
Text(text) == <<Part(text, 0)>>
Unknown == Text("0+unknown")

Report(version, full, isDirty, date) ==
    [version |-> version, full |-> full, dirty |-> isDirty, date |-> date]
NoReport == Report(<<>>, 0, FALSE, 0)

----------------------------------------------------------------------------
(* The formats, lines 311-477                                              *)

HasTag(p) == p.tag # ""
PlusOrDot(p) == IF p.tag \in PlusTag THEN "." ELSE "+"
Hash(text, p) == <<Part(text, p.short)>>
If(condition, parts) == IF condition THEN parts ELSE <<>>
\* Mutant: edits do not count at a tag.
AtTagEdited(p) == p.distance = 0

AtTag(p) == p.distance = 0 /\ ~p.dirty

RenderPep440(p) ==
    If(~HasTag(p), Text("0+untagged."))
    \o If(HasTag(p), Text(p.tag))
    \o If(HasTag(p) /\ ~AtTag(p), Text(PlusOrDot(p)))
    \o If(~HasTag(p) \/ ~AtTag(p), <<Part("distance", p.distance)>> \o Hash(".g", p))
    \o If(p.dirty, Text(".dirty"))

RenderPep440Pre(p) ==
    IF HasTag(p) THEN Text(p.tag) \o If(p.distance # 0, <<Part(".post.dev", p.distance)>>)
    ELSE Text("0") \o <<Part(".post.dev", p.distance)>>

RenderPep440Post(p) ==
    LET post == <<Part(".post", p.distance)>> \o If(p.dirty, Text(".dev0"))
    IN  IF HasTag(p)
        THEN Text(p.tag) \o If(~AtTag(p), post \o Text(PlusOrDot(p)) \o Hash("g", p))
        ELSE Text("0") \o post \o Hash("+g", p)

RenderPep440Old(p) ==
    LET post == <<Part(".post", p.distance)>> \o If(p.dirty, Text(".dev0"))
    IN  IF HasTag(p) THEN Text(p.tag) \o If(~AtTag(p), post) ELSE Text("0") \o post

Described(p, always) ==
    IF HasTag(p)
    THEN Text(p.tag) \o If(always \/ p.distance # 0, <<Part("-", p.distance)>> \o Hash("-g", p))
    ELSE Hash("", p)

RenderGitDescribe(p) == Described(p, FALSE) \o If(p.dirty, Text("-dirty"))
RenderGitDescribeLong(p) == Described(p, TRUE) \o If(p.dirty, Text("-dirty"))

Rendered(p) ==
    CASE style \in {"", "default", "pep440"} -> RenderPep440(p)
      [] style = "pep440-pre"               -> RenderPep440Pre(p)
      [] style = "pep440-post"              -> RenderPep440Post(p)
      [] style = "pep440-old"               -> RenderPep440Old(p)
      [] style = "git-describe"             -> RenderGitDescribe(p)
      [] style = "git-describe-long"        -> RenderGitDescribeLong(p)

----------------------------------------------------------------------------
(* Keywords and folder names                                               *)

\* The names git puts into an archive: tags, marked since git 1.8.3, the
\* branch and HEAD.
TagsAt(c) == {t \in TagSet : tagged[t] = c}
Ref(name, mark) == [name |-> name, mark |-> mark]
RefsAt(c, marks) ==
    {Ref(t, marks) : t \in TagsAt(c)} \cup {Ref("HEAD", FALSE), Ref(branch, FALSE)}

\* Marked names first; without any, what has a digit in it.
Candidates(refs) ==
    LET marked == {r.name : r \in {q \in refs : q.mark}}
    IN  IF marked # {} THEN marked
        ELSE {r.name : r \in refs} \cap HasDigit

\* Branches with a digit are sorted behind the tags.
FirstOf(names) ==
    LET tags == {i \in DOMAIN Tag : Tag[i] \in names}
    IN  IF tags # {} THEN Tag[CHOOSE i \in tags : \A j \in tags : i <= j]
        ELSE CHOOSE n \in names : TRUE

FromKeywords ==
    LET names == Candidates(keywords.refs)
    IN  IF names = {} THEN Report(Unknown, keywords.full, FALSE, 0)
        ELSE Report(Text(FirstOf(names)), keywords.full, FALSE, keywords.full)

\* cfg.parentdir_prefix is the text "None", which is true.
FromParentdir ==
    LET fit == {i \in DOMAIN dirs : dirs[i].prefix = "None"}
    IN  IF fit = {} THEN Report(Unknown, 0, FALSE, 0)
        ELSE Report(Text(dirs[CHOOSE i \in fit : \A j \in fit : i <= j].rest), 0, FALSE, 0)

----------------------------------------------------------------------------
(* get_versions()                                                          *)

Finish(r) == stage' = "done" /\ report' = r
Ask(label) == stage' = label /\ UNCHANGED report
Learn(p) == pieces' = p
Asking == {"gitdir", "describe", "revparse", "count", "show"}

\* Mutant: git is asked before the keywords.
NeverExpanded == FALSE

IsExpanded == keywords # NoKeywords

Begin ==
    /\ stage = "off" /\ moved' = FALSE
    /\ IF IsExpanded THEN Finish(FromKeywords) ELSE Ask("gitdir")
    /\ UNCHANGED <<repository, package, pieces, earlier>>

\* git looks for a repository in the folders around the package.
GitDir ==
    /\ stage = "gitdir" /\ tree # "outside" /\ Ask("describe")
    /\ UNCHANGED <<repository, package, pieces, moved, earlier>>

\* Whether the commit is edited, and with a tag before it: the nearest one, the
\* commits since and the commit.
Describe ==
    /\ stage = "describe" /\ Ask("revparse")
    /\ LET near == {t \in TagSet : tagged[t] \in 1..head}
       IN  IF near = {} THEN Learn([NoPieces EXCEPT !.dirty = dirty])
           ELSE \E t \in near :
                   /\ \A u \in near : tagged[u] <= tagged[t]
                   /\ Learn([NoPieces EXCEPT !.tag = t, !.distance = head - tagged[t],
                                             !.short = head, !.dirty = dirty])
    /\ UNCHANGED <<repository, package, moved, earlier>>

\* Without a tag the commit is abbreviated here.
RevParse ==
    /\ stage = "revparse" /\ Ask(IF HasTag(pieces) THEN "show" ELSE "count")
    /\ Learn([pieces EXCEPT !.long = head, !.short = IF HasTag(pieces) THEN @ ELSE head])
    /\ UNCHANGED <<repository, package, moved, earlier>>

\* Mutant: the distance without a tag is left at 0.
NotCounted == 0

CommitCount == head

Count ==
    /\ stage = "count" /\ Ask("show") /\ Learn([pieces EXCEPT !.distance = CommitCount])
    /\ UNCHANGED <<repository, package, moved, earlier>>

Show ==
    /\ stage = "show"
    /\ LET p == [pieces EXCEPT !.date = head]
       IN  Finish(Report(Rendered(p), p.long, p.dirty, p.date))
    /\ Learn(NoPieces)
    /\ UNCHANGED <<repository, package, moved, earlier>>

\* Mutant: NotThisMethod is not caught.
Uncaught(r) == Ask("raised")

NextMethod(r) == Finish(r)

\* NotThisMethod leads to the next method.
GitFails ==
    /\ stage \in {"gitdir", "describe", "revparse"} /\ NextMethod(FromParentdir)
    /\ Learn(NoPieces)
    /\ UNCHANGED <<repository, package, moved, earlier>>

\* int(None) and None.strip() are not NotThisMethod: the import raises.
GitFailsLate ==
    /\ stage \in {"count", "show"} /\ Ask("raised") /\ Learn(NoPieces)
    /\ UNCHANGED <<repository, package, moved, earlier>>

\* The next process imports the package.  One report is kept to compare with.
Again ==
    /\ stage \in {"done", "raised"} /\ stage' = "off" /\ report' = NoReport
    /\ moved' = FALSE
    /\ earlier' \in {earlier} \cup
          IF earlier = NoReport /\ stage = "done" /\ tree = "checkout" /\ ~moved
             /\ report.full # 0
          THEN {report} ELSE {}
    /\ UNCHANGED <<repository, package, pieces>>

----------------------------------------------------------------------------
(* The developer                                                           *)

\* Before an import, or once during it: not when its report is to be compared.
Works ==
    /\ stage = "off" \/ (stage \in Asking /\ ~moved /\ earlier = NoReport)
    /\ moved' = (stage \in Asking)
    /\ UNCHANGED <<package, stage, pieces, report, earlier>>

\* expands: .gitattributes of the commit names _version.py; edits may be left.
MakeCommit(expands, left) ==
    /\ head = top /\ top < MaxCommit /\ top' = top + 1 /\ head' = top + 1
    /\ subst' = IF expands THEN subst \cup {top + 1} ELSE subst
    /\ dirty' = left /\ Works /\ UNCHANGED <<tagged, branch>>

Checkout(c) ==
    /\ c <= top /\ c # head /\ ~dirty /\ head' = c
    /\ Works /\ UNCHANGED <<top, tagged, dirty, branch, subst>>

\* A commit has one tag, and later commits have later tags.
MakeTag(i) ==
    /\ tagged[Tag[i]] = 0 /\ TagsAt(head) = {}
    /\ \A j \in DOMAIN Tag :
          tagged[Tag[j]] # 0 => IF j < i THEN tagged[Tag[j]] < head ELSE tagged[Tag[j]] > head
    /\ tagged' = [tagged EXCEPT ![Tag[i]] = head]
    /\ Works /\ UNCHANGED <<top, head, dirty, branch, subst>>

Edit == dirty' = ~dirty /\ Works /\ UNCHANGED <<top, head, tagged, branch, subst>>

\* The package is imported from a copy from now on: from an archive of the
\* commit, or from where setup.py has installed it.
Copy(where, words) ==
    /\ stage = "off" /\ tree = "checkout" /\ earlier = NoReport
    /\ tree' = where /\ code' = head /\ keywords' = words
    /\ UNCHANGED <<repository, dirs, style, import>>

Archive(where, marks) ==
    Copy(where, IF head \in subst THEN [refs |-> RefsAt(head, marks), full |-> head]
                ELSE NoKeywords)

Installation(where) == ~dirty /\ Copy(where, keywords)

VersionInit(k) ==
    /\ top = 1 /\ head = 1 /\ tagged = [t \in TagSet |-> 0] /\ dirty = FALSE
    /\ subst = {} /\ branch = k.branch /\ tree = k.tree /\ code = 1 /\ keywords = NoKeywords
    /\ dirs = k.dirs /\ style = k.style
    /\ stage = "off" /\ pieces = NoPieces /\ report = NoReport
    /\ moved = FALSE /\ earlier = NoReport

Import == Begin \/ GitDir \/ Describe \/ RevParse \/ Count \/ Show \/ GitFails \/ GitFailsLate

Develop ==
    \/ Again \/ Edit \/ MakeCommit(FALSE, FALSE)
    \/ \E c \in Commits : Checkout(c)
    \/ \E i \in DOMAIN Tag : MakeTag(i)
    \/ \E where \in {"inside", "outside"} : Installation(where)

----------------------------------------------------------------------------
(* Properties                                                              *)

VersionTypeOK ==
    /\ head \in 1..top /\ subst \subseteq 1..top /\ top \in Commits /\ tagged \in [TagSet -> 0..MaxCommit]
    /\ dirty \in BOOLEAN /\ moved \in BOOLEAN
    /\ tree \in {"checkout", "inside", "outside"} /\ code \in 0..MaxCommit
    /\ stage \in Asking \cup {"off", "done", "raised"}
    /\ stage = "done" => report.version # <<>>
    /\ stage \in Asking => ~IsExpanded

\* The report is about the checkout, and nobody worked in it meanwhile.
Quiet == stage = "done" /\ tree = "checkout" /\ ~moved /\ report.full # 0

HashOf(version) == {version[i].n : i \in {j \in DOMAIN version : version[j].text \in HashTexts}}

\* A report is about one commit: of the checkout, when nobody works in it between
\* the calls of git; of an archive, and by a tag of it if git marks tags, also when
\* the archive lies inside of a repository.  An installation outside of one claims
\* nothing (_version.py:164-216, 219-308, 480-523).
ReportsOwnCode ==
    /\ Quiet => HashOf(report.version) \cup {report.full, report.date} = {report.full}
    /\ stage = "done" /\ tree # "checkout" /\ keywords # NoKeywords =>
          /\ report.full = code
          /\ (\E r \in keywords.refs : r.mark) =>
                \E t \in TagSet : tagged[t] = code /\ report.version = Text(t)
    /\ stage = "done" /\ tree = "outside" /\ keywords = NoKeywords => report.full = 0

\* Two reports that differ in the commit or in edits differ in the version, in the
\* styles that do not leave either out (_version.py:318-340, 359-383, 408-445).
DistinctVersions ==
    /\ Quiet /\ earlier # NoReport /\ report.version = earlier.version
    /\ style \in {"", "default", "pep440", "pep440-post", "git-describe", "git-describe-long"}
    => report.full = earlier.full /\ report.dirty = earlier.dirty

Base(version) ==
    LET i == {j \in DOMAIN Tag : version[1].text = Tag[j]}
    IN  IF i = {} THEN 0 ELSE CHOOSE j \in i : TRUE

Distance(version) ==
    LET i == {j \in DOMAIN version : version[j].text \in {"distance", ".post", ".post.dev"}}
    IN  IF i = {} THEN 0 ELSE version[CHOOSE j \in i : TRUE].n

\* A later commit has a higher version, whatever is tagged in between, so that an
\* upgrade is one: the number after the tag, or of all commits without one
\* (_version.py:290-301, 318-405).
LaterIsNewer ==
    /\ Quiet /\ earlier # NoReport /\ report.full > earlier.full
    /\ style \notin {"git-describe", "git-describe-long"}
    => \/ Base(earlier.version) < Base(report.version)
       \/ /\ Base(earlier.version) = Base(report.version)
          /\ Distance(earlier.version) < Distance(report.version)

\* A package that is installed outside of any repository, or that comes from an
\* expanded archive, can always be imported, whatever becomes of git: only in a
\* checkout do the last calls raise (_version.py:299-305, 490-519).
InstalledImports ==
    stage = "raised" => tree # "outside" /\ keywords = NoKeywords
=============================================================================
