------------------------- MODULE RemoteKernelProofs -------------------------
(***************************************************************************)
(* Theorems about RemoteKernel, for any packages, command lines, kernel    *)
(* folders and tags, and a history of any length.                          *)
(***************************************************************************)
EXTENDS RemoteKernel, WellFoundedInduction, TLAPS

----------------------------------------------------------------------------
(* What a run of setup has behind it at every step.                        *)

SnippetBehind == {"versioneer.py", "_version.py", "line", "add", "done"}

SetupInv ==
    /\ manifest \subseteq Includes /\ appended \in {0, 1}
    /\ step \in Running \cup {"off", "failed", "done"}
    /\ step \in {"snippet"} \cup SnippetBehind => versionFile = "whole"
    /\ step \in SnippetBehind => appended = 1
    /\ step \in SnippetBehind \ {"versioneer.py"} => "versioneer.py" \in manifest
    /\ step \in {"line", "add", "done"} => "_version.py" \in manifest
    /\ step \in {"add", "done"} => attributes = TRUE
    /\ attributes \in BOOLEAN /\ staged \in BOOLEAN /\ toAdd \in BOOLEAN /\ slipped \in BOOLEAN

\* The initial state has nothing behind it.
LEMMA InitSetup == Init => SetupInv
BY DEF Init, SetupInit, SetupInv, SnippetBehind, Running, Includes

\* A step of setup has its own part behind it afterwards.
LEMMA StepSetup ==
    ASSUME SetupInv, SetupStep \/ Configure \/ \E all \in BOOLEAN : Commit(all)
    PROVE  SetupInv'
<1> USE DEF SetupInv, SnippetBehind, Running, Includes, files
<1>1. CASE ReadConfig
  BY <1>1 DEF ReadConfig
<1>2. CASE OpenVersionFile
  BY <1>2 DEF OpenVersionFile, Touch
<1>3. CASE WriteVersionFile
  BY <1>3 DEF WriteVersionFile, Touch
<1>4. CASE AppendSnippet
  BY <1>4 DEF AppendSnippet, LacksSnippet, Touch
<1>5. CASE Include("versioneer.py", "_version.py")
  BY <1>5 DEF Include, Touch
<1>6. CASE Include("_version.py", "line")
  BY <1>6 DEF Include, Touch
<1>7. CASE AddLine
  BY <1>7 DEF AddLine, IsNew, Touch
<1>8. CASE GitAdd
  BY <1>8 DEF GitAdd
<1>9. CASE GitAddFails
  BY <1>9 DEF GitAddFails, Slip
<1>10. CASE SetupStops
  BY <1>10 DEF SetupStops, Slip
<1>11. CASE Configure
  BY <1>11 DEF Configure
<1>12. CASE \E all \in BOOLEAN : Commit(all)
  BY <1>12 DEF Commit
<1>13. QED
  BY <1>1, <1>2, <1>3, <1>4, <1>5, <1>6, <1>7, <1>8, <1>9, <1>10, <1>11, <1>12 DEF SetupStep

\* What setup leaves alone keeps what is behind it.
LEMMA KeepSetup ==
    ASSUME SetupInv, UNCHANGED setupVars
    PROVE  SetupInv'
BY DEF SetupInv, setupVars, files

\* The steps that touch the files of setup belong to a release.
LEMMA OtherSteps ==
    ASSUME [Next]_vars
    PROVE  \/ task = "release" /\ task' = task
              /\ (SetupStep \/ Configure \/ \E all \in BOOLEAN : Commit(all))
           \/ UNCHANGED <<setupVars, task>>
BY DEF Next, vars, Release

\* A run of setup that has come to its end leaves every file as one run leaves it,
\* however often it was stopped before (versioneer.py:1709-1772).
THEOREM SetupConverges == Spec => []SetupSettles
<1>1. Init => SetupInv
  BY InitSetup
<1>2. SetupInv /\ [Next]_vars => SetupInv'
  BY StepSetup, KeepSetup, OtherSteps
<1>3. SetupInv => SetupSettles
  BY DEF SetupInv, SetupSettles, SnippetBehind, Includes
<1>4. QED
  BY <1>1, <1>2, <1>3, PTL DEF Spec

----------------------------------------------------------------------------
(* From the line in .gitattributes to the report of an archive.            *)

\* The line is in the index, unless a run is about to add it or has slipped.
LineInv ==
    /\ attributes /\ ~staged => slipped \/ (step = "add" /\ toAdd)
    /\ staged => attributes
    /\ ripe \subseteq subst

\* The checkout is a commit there is, and so is what a copy was made of.
HistoryInv == top \in Nat \ {0} /\ head \in 1..top /\ code \in 1..top

\* The import asks git only when a copy has no keywords, and what is expanded
\* names the commit of the copy.
CopyInv ==
    /\ task # "release" => ripe = {}
    /\ tree # "checkout" /\ code \in ripe =>
          /\ keywords # NoKeywords /\ keywords.full = code
          /\ stage \in {"off", "done"}
          /\ stage = "done" => report.full = code

\* Beyond the first call git has found a repository.
ImportInv ==
    /\ stage \in Asking => keywords = NoKeywords
    /\ stage \in Asking \ {"gitdir"} => tree # "outside"
    /\ stage = "raised" => tree # "outside" /\ keywords = NoKeywords

ReleaseInv == SetupInv /\ LineInv /\ HistoryInv /\ CopyInv

\* The initial state is the first commit, without the line.
LEMMA InitRelease == Init => ReleaseInv
<1>1. Init => SetupInv
  BY InitSetup
<1>2. Init => LineInv /\ HistoryInv /\ CopyInv
  BY DEF Init, VersionInit, SetupInit, LineInv, HistoryInv, CopyInv
<1>3. QED
  BY <1>1, <1>2 DEF ReleaseInv

\* A step of setup does not touch the history, and adds the line or slips.
LEMMA StepLine ==
    ASSUME ReleaseInv, SetupStep \/ Configure
    PROVE  LineInv' /\ UNCHANGED <<top, head, subst, ripe, package, import>>
<1> USE DEF ReleaseInv, LineInv, SetupInv, Running, SnippetBehind, files, versionVars, repository
<1>1. CASE ReadConfig \/ Configure
  BY <1>1 DEF ReadConfig, Configure
<1>2. CASE OpenVersionFile \/ WriteVersionFile \/ AppendSnippet
  BY <1>2 DEF OpenVersionFile, WriteVersionFile, AppendSnippet, Touch
<1>3. CASE Include("versioneer.py", "_version.py") \/ Include("_version.py", "line")
  BY <1>3 DEF Include, Touch
<1>4. CASE AddLine
  BY <1>4 DEF AddLine, IsNew, Touch
<1>5. CASE GitAdd
  BY <1>5 DEF GitAdd
<1>6. CASE GitAddFails \/ SetupStops
  BY <1>6 DEF GitAddFails, SetupStops, Slip
<1>7. QED
  BY <1>1, <1>2, <1>3, <1>4, <1>5, <1>6 DEF SetupStep

\* A commit after a run that ended well has the line.
LEMMA StepCommit ==
    ASSUME ReleaseInv, task = "release", task' = task, NEW all \in BOOLEAN, Commit(all)
    PROVE  LineInv' /\ HistoryInv' /\ CopyInv'
<1> USE DEF ReleaseInv, Commit, MakeCommit, Works
<1>1. LineInv'
  <2>1. (attributes /\ ~staged => slipped \/ (step = "add" /\ toAdd))' /\ (staged => attributes)'
    BY DEF LineInv, SetupInv, Running
  <2>2. CASE step = "done" /\ ~slipped'
    <3>1. staged' = TRUE
      BY <2>2 DEF LineInv, SetupInv
    <3>2. QED
      BY <2>1, <2>2, <3>1 DEF LineInv
  <2>3. CASE ~(step = "done" /\ ~slipped')
    BY <2>1, <2>3 DEF LineInv
  <2>4. QED
    BY <2>2, <2>3
<1>2. HistoryInv'
  BY DEF HistoryInv, package
<1>3. CopyInv'
  <2>1. code # top + 1 /\ code' = code
    BY DEF HistoryInv, package
  <2>2. code' \in ripe' => code \in ripe
    BY <2>1
  <2>3. QED
    BY <2>1, <2>2 DEF CopyInv, package
<1>4. QED
  BY <1>1, <1>2, <1>3

\* An archive has the keywords of its commit when the commit has the line.
LEMMA StepArchive ==
    ASSUME ReleaseInv, task' = task, UNCHANGED setupVars,
           NEW where, NEW marks \in BOOLEAN, Archive(where, marks)
    PROVE  LineInv' /\ HistoryInv' /\ CopyInv'
<1> USE DEF ReleaseInv, Archive, Copy, repository, setupVars, files, import
<1>1. LineInv'
  BY DEF LineInv
<1>2. HistoryInv'
  BY DEF HistoryInv
<1>3. CopyInv'
  <2>1. head \in ripe => keywords' = [refs |-> RefsAt(head, marks), full |-> head]
    BY DEF LineInv
  <2>2. head # 0
    BY DEF HistoryInv
  <2>3. head \in ripe => keywords' # NoKeywords /\ keywords'.full = head
    BY <2>1, <2>2 DEF NoKeywords
  <2>4. QED
    BY <2>3 DEF CopyInv
<1>4. QED
  BY <1>1, <1>2, <1>3

\* An import of an expanded archive is over at once.
LEMMA StepImport ==
    ASSUME ReleaseInv, Import, UNCHANGED <<setupVars, task>>
    PROVE  LineInv' /\ HistoryInv' /\ CopyInv'
<1> USE DEF ReleaseInv, setupVars, files, repository, package
<1>1. UNCHANGED <<repository, package>>
  BY DEF Import, Begin, GitDir, Describe, RevParse, Count, Show, GitFails, GitFailsLate
<1>2. LineInv' /\ HistoryInv'
  BY <1>1 DEF LineInv, HistoryInv
<1>3. CopyInv'
  <2>1. CASE Begin
    <3>1. keywords # NoKeywords => stage' = "done" /\ report'.full = keywords.full
      BY <2>1 DEF Begin, IsExpanded, Finish, FromKeywords, Report
    <3>2. QED
      BY <1>1, <3>1 DEF CopyInv
  <2>2. CASE ~Begin
    <3>1. stage \in Asking
      BY <2>2 DEF Import, GitDir, Describe, RevParse, Count, Show, GitFails, GitFailsLate, Asking
    <3>2. QED
      BY <1>1, <3>1 DEF CopyInv, Asking
  <2>3. QED
    BY <2>1, <2>2
<1>4. QED
  BY <1>2, <1>3

\* The developer who works on the checkout has made no commit of a release.
LEMMA StepDevelop ==
    ASSUME ReleaseInv, task # "release", Develop, UNCHANGED <<setupVars, task>>
    PROVE  LineInv' /\ HistoryInv' /\ CopyInv'
<1> USE DEF ReleaseInv, setupVars, files, repository
<1>1. LineInv' /\ CopyInv'
  <2>1. ripe = {} /\ ripe' = {}
    BY DEF CopyInv
  <2>2. QED
    BY <2>1 DEF LineInv, CopyInv
<1>2. HistoryInv'
  <2>1. CASE Again \/ Edit
    BY <2>1 DEF Again, Edit, Works, package, HistoryInv
  <2>2. CASE MakeCommit(FALSE, FALSE)
    BY <2>2 DEF MakeCommit, Works, package, HistoryInv
  <2>3. CASE \E c \in Commits : Checkout(c)
    BY <2>3, VersionAssumption DEF Checkout, Works, package, HistoryInv, Commits
  <2>4. CASE \E i \in DOMAIN Tag : MakeTag(i)
    BY <2>4 DEF MakeTag, Works, package, HistoryInv
  <2>5. CASE \E where \in {"inside", "outside"} : Installation(where)
    BY <2>5 DEF Installation, Copy, HistoryInv
  <2>6. QED
    BY <2>1, <2>2, <2>3, <2>4, <2>5 DEF Develop
<1>3. QED
  BY <1>1, <1>2

\* Every step of the program keeps the invariant.
LEMMA StepRelease ==
    ASSUME ReleaseInv, [Next]_vars
    PROVE  ReleaseInv'
<1>1. SetupInv'
  BY StepSetup, KeepSetup, OtherSteps DEF ReleaseInv
<1>2. LineInv' /\ HistoryInv' /\ CopyInv'
  <2>1. CASE task = "release" /\ Release /\ UNCHANGED task
    <3>1. CASE SetupStep \/ Configure
      BY <2>1, <3>1, StepLine DEF ReleaseInv, HistoryInv, CopyInv, package, import
    <3>2. CASE \E all \in BOOLEAN : Commit(all)
      BY <2>1, <3>2, StepCommit
    <3>3. CASE \E i \in DOMAIN Tag : MakeTag(i) /\ UNCHANGED setupVars
      BY <2>1, <3>3 DEF MakeTag, Works, package, setupVars, files, ReleaseInv, LineInv,
                        HistoryInv, CopyInv
    <3>4. CASE \E where \in {"inside", "outside"}, marks \in BOOLEAN :
                  Archive(where, marks) /\ UNCHANGED setupVars
      BY <2>1, <3>4, StepArchive
    <3>5. QED
      BY <2>1, <3>1, <3>2, <3>3, <3>4 DEF Release
  <2>2. CASE Import /\ UNCHANGED <<setupVars, task>>
    BY <2>2, StepImport
  <2>3. CASE task = "develop" /\ Develop /\ UNCHANGED <<setupVars, task>>
    BY <2>3, StepDevelop
  <2>4. CASE UNCHANGED <<versionVars, setupVars, task>>
    BY <2>4 DEF ReleaseInv, LineInv, HistoryInv, CopyInv, versionVars, repository, package,
                import, setupVars, files
  <2>5. QED
    BY <2>1, <2>2, <2>3, <2>4 DEF Next, vars
<1>3. QED
  BY <1>1, <1>2 DEF ReleaseInv

\* An archive of a commit made after a run of setup that ended well reports that
\* commit (versioneer.py:1137-1152, _version.py:178-216).
THEOREM ArchivesKnowTheirCommit == Spec => []ArchiveReportsCommit
<1>1. Init => ReleaseInv
  BY InitRelease
<1>2. ReleaseInv /\ [Next]_vars => ReleaseInv'
  BY StepRelease
<1>3. ReleaseInv => ArchiveReportsCommit
  BY DEF ReleaseInv, CopyInv, ArchiveReportsCommit
<1>4. QED
  BY <1>1, <1>2, <1>3, PTL DEF Spec

----------------------------------------------------------------------------
(* Imports that cannot fail.                                               *)

\* A step of the import asks on only where git has found a repository.
LEMMA StepOfImport ==
    ASSUME ImportInv, Import
    PROVE  ImportInv'
<1> USE DEF ImportInv, package, Ask, Finish, Asking
<1>1. CASE Begin \/ GitDir
  BY <1>1 DEF Begin, GitDir, IsExpanded
<1>2. CASE Describe \/ RevParse \/ Count \/ Show
  BY <1>2 DEF Describe, RevParse, Count, Show
<1>3. CASE GitFails \/ GitFailsLate
  BY <1>3 DEF GitFails, GitFailsLate, NextMethod
<1>4. QED
  BY <1>1, <1>2, <1>3 DEF Import

\* Copies are made before an import, and nothing else changes where the package
\* lies or what it holds.
LEMMA StepBeside ==
    ASSUME ImportInv,
           \/ Develop
           \/ Release
           \/ UNCHANGED versionVars
    PROVE  ImportInv'
<1> USE DEF ImportInv, versionVars, package, import, Asking
<1>1. CASE Again \/ Edit
  BY <1>1 DEF Again, Edit, Works
<1>2. CASE \E expands, left : MakeCommit(expands, left)
  BY <1>2 DEF MakeCommit, Works
<1>3. CASE \E c : Checkout(c)
  BY <1>3 DEF Checkout, Works
<1>4. CASE \E i : MakeTag(i)
  BY <1>4 DEF MakeTag, Works
<1>5. CASE \E where, words : Copy(where, words)
  BY <1>5 DEF Copy
<1>6. CASE SetupStep \/ Configure
  BY <1>6 DEF SetupStep, Configure, ReadConfig, OpenVersionFile, WriteVersionFile, AppendSnippet,
              Include, AddLine, GitAdd, GitAddFails, SetupStops, Touch
<1>7. CASE UNCHANGED versionVars
  BY <1>7
<1>8. Develop => Again \/ Edit \/ MakeCommit(FALSE, FALSE) \/ (\E c : Checkout(c))
                 \/ (\E i : MakeTag(i)) \/ \E where, words : Copy(where, words)
  BY DEF Develop, Installation
<1>9. Release => SetupStep \/ Configure \/ (\E expands, left : MakeCommit(expands, left))
                 \/ (\E i : MakeTag(i)) \/ \E where, words : Copy(where, words)
  BY DEF Release, Commit, Archive
<1>10. QED
  BY <1>1, <1>2, <1>3, <1>4, <1>5, <1>6, <1>7, <1>8, <1>9

\* An installed package outside of a repository, and an expanded archive, are
\* imported whatever git does (_version.py:299-305, 490-519).
THEOREM InstallationImports == Spec => []InstalledImports
<1>1. Init => ImportInv
  BY DEF Init, VersionInit, ImportInv, Asking
<1>2. ImportInv /\ [Next]_vars => ImportInv'
  BY StepOfImport, StepBeside DEF Next, vars
<1>3. ImportInv => InstalledImports
  BY DEF ImportInv, InstalledImports
<1>4. QED
  BY <1>1, <1>2, <1>3, PTL DEF Spec

----------------------------------------------------------------------------
(* Whose commit a report is about.                                         *)

Pieces ==
    [tag : TagSet \cup {""}, distance : Nat, short : Nat, dirty : BOOLEAN, long : Nat, date : Nat]

\* The parts that count commits, and those that mark an edit (_version.py:311-477).
DistanceTexts == {"distance", ".post", ".post.dev"}
EditTexts == {".dirty", ".dev0", "-dirty"}

\* The parts a version of these pieces may have: it names their commit and no other,
\* has their distance, and no mark without an edit.
PartsOf(p) ==
    {x \in [text : TagSet \cup FixedTexts, n : Nat] :
        /\ x.text \in HashTexts => x.n = p.short
        /\ x.text \in DistanceTexts => x.n = p.distance
        /\ x.text \in EditTexts => p.dirty}

\* The import is about the commit that is checked out, as far as it has come.
AskedInv ==
    /\ pieces \in Pieces /\ style \in StyleNames
    /\ tree = "checkout" => keywords = NoKeywords
    /\ stage \in {"count", "show"} /\ ~moved => pieces.short = head
    /\ stage = "revparse" /\ HasTag(pieces) /\ ~moved => pieces.short = head
    /\ stage \in {"count", "show"} /\ ~moved => pieces.long = head

\* What is expanded in an archive are the tags of its commit.
KeywordsInv ==
    /\ tagged \in [TagSet -> Nat] /\ dirty \in BOOLEAN
    /\ keywords # NoKeywords =>
          /\ keywords.full = code
          /\ \A r \in keywords.refs : r.mark => r.name \in TagSet /\ tagged[r.name] = code

\* Where a report has come from.
SourceInv ==
    stage = "done" =>
        /\ keywords # NoKeywords => report = FromKeywords
        /\ keywords = NoKeywords /\ tree = "outside" => report.full = 0
        /\ keywords = NoKeywords /\ ~moved /\ report.full # 0 =>
              HashOf(report.version) \subseteq {report.full} /\ report.date = report.full

ReportInv == AskedInv /\ KeywordsInv /\ SourceInv

\* A sequence of one element.
LEMMA OneElement ==
    ASSUME NEW S, NEW x \in S
    PROVE  <<x>> \in Seq(S)
OBVIOUS

\* A part fits when its text does.
LEMMA PartFits ==
    ASSUME NEW p \in Pieces, NEW text \in TagSet \cup FixedTexts, NEW n \in Nat,
           text \in HashTexts => n = p.short,
           text \in DistanceTexts => n = p.distance,
           text \in EditTexts => p.dirty
    PROVE  <<Part(text, n)>> \in Seq(PartsOf(p))
<1>1. Part(text, n) \in [text : TagSet \cup FixedTexts, n : Nat]
      /\ Part(text, n).text = text /\ Part(text, n).n = n
  BY DEF Part
<1>2. Part(text, n) \in PartsOf(p)
  BY <1>1 DEF PartsOf
<1>3. QED
  BY <1>2, OneElement

\* The parts of every format.
LEMMA PartsOfFormats ==
    ASSUME NEW p \in Pieces
    PROVE  /\ \A text \in DistanceTexts \cup {"-"} : <<Part(text, p.distance)>> \in Seq(PartsOf(p))
           /\ \A text \in {"0+untagged.", "0", ".", "+"} : Text(text) \in Seq(PartsOf(p))
           /\ \A text \in EditTexts : p.dirty => Text(text) \in Seq(PartsOf(p))
           /\ HasTag(p) => Text(p.tag) \in Seq(PartsOf(p))
           /\ \A text \in HashTexts : Hash(text, p) \in Seq(PartsOf(p))
           /\ Text(PlusOrDot(p)) \in Seq(PartsOf(p))
<1>1. p.short \in Nat /\ p.distance \in Nat /\ p.tag \in TagSet \cup {""}
  BY DEF Pieces
<1>2. \A text \in DistanceTexts \cup {"-"} :
          text \in FixedTexts /\ text \notin HashTexts /\ text \notin EditTexts
          /\ (text = "-" => text \notin DistanceTexts)
  BY DEF HashTexts, FixedTexts, DistanceTexts, EditTexts
<1>3. \A text \in DistanceTexts \cup {"-"} : <<Part(text, p.distance)>> \in Seq(PartsOf(p))
  BY <1>1, <1>2, PartFits
<1>4. \A text \in {"0+untagged.", "0", ".", "+"} :
          text \in FixedTexts /\ text \notin HashTexts \cup EditTexts \cup DistanceTexts
  BY DEF HashTexts, FixedTexts, DistanceTexts, EditTexts
<1>5. \A text \in {"0+untagged.", "0", ".", "+"} : Text(text) \in Seq(PartsOf(p))
  BY <1>4, PartFits DEF Text
<1>6. \A text \in EditTexts : text \in FixedTexts /\ text \notin HashTexts \cup DistanceTexts
  BY DEF HashTexts, FixedTexts, DistanceTexts, EditTexts
<1>7. \A text \in EditTexts : p.dirty => Text(text) \in Seq(PartsOf(p))
  BY <1>6, PartFits DEF Text
<1>8. HasTag(p) => Text(p.tag) \in Seq(PartsOf(p))
  <2>1. HasTag(p) => p.tag \in TagSet /\ p.tag \notin FixedTexts
    BY <1>1, VersionAssumption DEF HasTag
  <2>2. HashTexts \cup EditTexts \cup DistanceTexts \subseteq FixedTexts
    BY <1>2, <1>6 DEF FixedTexts
  <2>3. QED
    BY <2>1, <2>2, PartFits DEF Text
<1>9. \A text \in HashTexts : text \in FixedTexts /\ text \notin EditTexts \cup DistanceTexts
  BY <1>2, <1>6 DEF FixedTexts
<1>10. \A text \in HashTexts : Hash(text, p) \in Seq(PartsOf(p))
  BY <1>1, <1>9, PartFits DEF Hash
<1>11. Text(PlusOrDot(p)) \in Seq(PartsOf(p))
  BY <1>5 DEF PlusOrDot
<1>12. QED
  BY <1>3, <1>5, <1>7, <1>8, <1>10, <1>11

\* One of the texts is in the version; and what it begins with.
Says(v, T) == \E i \in DOMAIN v : v[i].text \in T
Begins(v, text) == v # <<>> /\ v[1].text = text

\* What one part says.
LEMMA PartSays ==
    ASSUME NEW text, NEW n
    PROVE  /\ \A T : text \in T => Says(<<Part(text, n)>>, T)
           /\ Begins(<<Part(text, n)>>, text)
<1>1. DOMAIN <<Part(text, n)>> = {1} /\ <<Part(text, n)>>[1] = Part(text, n)
      /\ <<Part(text, n)>> # <<>> /\ Part(text, n).text = text
  BY DEF Part
<1>2. QED
  BY <1>1 DEF Says, Begins

\* Versions are put together of parts.
LEMMA PutTogether ==
    ASSUME NEW S, NEW s \in Seq(S), NEW t \in Seq(S)
    PROVE  /\ s \o t \in Seq(S)
           /\ \A T : Says(s, T) \/ Says(t, T) => Says(s \o t, T)
           /\ \A text : Begins(s, text) => Begins(s \o t, text)
           /\ s = <<>> => s \o t = t
<1>1. /\ s \o t \in Seq(S) /\ Len(s) \in Nat /\ Len(t) \in Nat
      /\ DOMAIN s = 1..Len(s) /\ DOMAIN t = 1..Len(t) /\ DOMAIN (s \o t) = 1..(Len(s) + Len(t))
      /\ \A i \in 1..Len(s) : (s \o t)[i] = s[i]
      /\ \A i \in 1..Len(t) : (s \o t)[Len(s) + i] = t[i]
  OBVIOUS
<1>2. /\ \A m, n \in Nat : \A i \in 1..m : i \in 1..(m + n)
      /\ \A m, n \in Nat : \A i \in 1..n : m + i \in 1..(m + n)
  OBVIOUS
<1>3. ASSUME NEW T, Says(s, T) PROVE Says(s \o t, T)
  <2>1. PICK i \in 1..Len(s) : s[i].text \in T
    BY <1>1, <1>3 DEF Says
  <2>2. i \in DOMAIN (s \o t) /\ (s \o t)[i].text \in T
    BY <1>1, <1>2, <2>1
  <2>3. QED
    BY <2>2 DEF Says
<1>4. ASSUME NEW T, Says(t, T) PROVE Says(s \o t, T)
  <2>1. PICK i \in 1..Len(t) : t[i].text \in T
    BY <1>1, <1>4 DEF Says
  <2>2. Len(s) + i \in DOMAIN (s \o t) /\ (s \o t)[Len(s) + i].text \in T
    BY <1>1, <1>2, <2>1
  <2>3. QED
    BY <2>2 DEF Says
<1>5. ASSUME NEW text, Begins(s, text) PROVE Begins(s \o t, text)
  <2>1. Len(s) # 0
    BY <1>5 DEF Begins
  <2>2. 1 \in 1..Len(s) /\ 1 \in 1..(Len(s) + Len(t))
    BY <1>1, <2>1
  <2>3. s \o t # <<>> /\ (s \o t)[1] = s[1]
    BY <1>1, <2>2
  <2>4. QED
    BY <1>5, <2>3 DEF Begins
<1>6. s = <<>> => s \o t = t
  OBVIOUS
<1>7. QED
  BY <1>1, <1>3, <1>4, <1>5, <1>6

\* Parts that are there on a condition.
LEMMA SomeParts ==
    ASSUME NEW S, NEW b \in BOOLEAN, NEW s, b => s \in Seq(S)
    PROVE  If(b, s) \in Seq(S) /\ (b => If(b, s) = s) /\ (~b => If(b, s) = <<>>)
BY DEF If

\* What is said of every version, and of most: that it has the distance, names the
\* commit where the tag does not, and is marked when edited.
Fits(v, p) ==
    /\ v \in Seq(PartsOf(p))
    /\ HasTag(p) => Begins(v, p.tag)
    /\ ~HasTag(p) => \E text \in FixedTexts : Begins(v, text)
Counts(v, p) == p.distance # 0 => Says(v, DistanceTexts)
Names(v, p) == ~(HasTag(p) /\ p.distance = 0) => Says(v, HashTexts)
Marks(v, p) == p.dirty => Says(v, EditTexts)

\* The tag stands in front.
LEMMA TagInFront ==
    ASSUME NEW p \in Pieces
    PROVE  /\ HasTag(p) => Begins(Text(p.tag), p.tag)
           /\ \A text : Begins(Text(text), text)
           /\ \A text : Begins(Hash(text, p), text)
BY PartSays DEF Text, Hash

\* pep440: the tag, the distance and the commit unless it is at the tag, and an edit.
LEMMA Pep440Says ==
    ASSUME NEW p \in Pieces, NEW v, v = RenderPep440(p)
    PROVE  Fits(v, p) /\ Counts(v, p) /\ Names(v, p) /\ Marks(v, p)
<1> DEFINE W == Seq(PartsOf(p))
<1>0. p.distance \in Nat /\ p.dirty \in BOOLEAN /\ HasTag(p) \in BOOLEAN /\ AtTag(p) \in BOOLEAN
      /\ (AtTag(p) <=> p.distance = 0 /\ ~p.dirty)
  BY DEF Pieces, HasTag, AtTag
<1>1. PICK a : a = If(~HasTag(p), Text("0+untagged."))
  OBVIOUS
<1>2. PICK b : b = If(HasTag(p), Text(p.tag))
  OBVIOUS
<1>3. PICK c : c = If(HasTag(p) /\ ~AtTag(p), Text(PlusOrDot(p)))
  OBVIOUS
<1>4. PICK r : r = <<Part("distance", p.distance)>> \o Hash(".g", p)
  OBVIOUS
<1>5. PICK d : d = If(~HasTag(p) \/ ~AtTag(p), r)
  OBVIOUS
<1>6. PICK e : e = If(p.dirty, Text(".dirty"))
  OBVIOUS
<1>7. a \in W /\ (~HasTag(p) => Begins(a, "0+untagged.")) /\ (HasTag(p) => a = <<>>)
  <2>1. Text("0+untagged.") \in W
    BY PartsOfFormats
  <2>2. QED
    BY <2>1, <1>0, <1>1, SomeParts, TagInFront
<1>8. b \in W /\ (HasTag(p) => Begins(b, p.tag))
  BY <1>0, <1>2, PartsOfFormats, SomeParts, TagInFront
<1>9. c \in W
  BY <1>0, <1>3, PartsOfFormats, SomeParts
<1>10. r \in W /\ Says(r, DistanceTexts) /\ Says(r, HashTexts)
  <2>1. <<Part("distance", p.distance)>> \in W /\ Says(<<Part("distance", p.distance)>>, DistanceTexts)
    <3>1. "distance" \in DistanceTexts
      BY DEF DistanceTexts
    <3>2. QED
      BY <3>1, PartsOfFormats, PartSays
  <2>2. Hash(".g", p) \in W /\ Says(Hash(".g", p), HashTexts)
    <3>1. ".g" \in HashTexts
      BY DEF HashTexts
    <3>2. QED
      BY <3>1, PartsOfFormats, PartSays DEF Hash
  <2>3. QED
    BY <1>4, <2>1, <2>2, PutTogether
<1>11. d \in W /\ (~HasTag(p) \/ ~AtTag(p) => Says(d, DistanceTexts) /\ Says(d, HashTexts))
  <2>1. CASE ~HasTag(p) \/ ~AtTag(p)
    BY <2>1, <1>5, <1>10 DEF If
  <2>2. CASE ~(~HasTag(p) \/ ~AtTag(p))
    BY <2>2, <1>5 DEF If
  <2>3. QED
    BY <2>1, <2>2
<1>12. e \in W /\ (p.dirty => Says(e, EditTexts))
  <2>1. ".dirty" \in EditTexts
    BY DEF EditTexts
  <2>2. Says(Text(".dirty"), EditTexts) /\ (p.dirty => Text(".dirty") \in W)
    BY <2>1, PartsOfFormats, PartSays DEF Text
  <2>3. QED
    BY <1>0, <1>6, <2>2, SomeParts
<1>13. PICK f, g, h : f = a \o b /\ g = f \o c /\ h = g \o d /\ v = h \o e
  BY ONLY <1>1, <1>2, <1>3, <1>4, <1>5, <1>6, v = RenderPep440(p) DEF RenderPep440
<1>14. f \in W /\ (HasTag(p) => Begins(f, p.tag)) /\ (~HasTag(p) => Begins(f, "0+untagged."))
  <2>1. HasTag(p) => f = b
    BY <1>7, <1>8, <1>13, PutTogether
  <2>2. f \in W /\ (~HasTag(p) => Begins(f, "0+untagged."))
    BY <1>7, <1>8, <1>13, PutTogether
  <2>3. QED
    BY <1>8, <2>1, <2>2
<1>15. g \in W /\ (\A text : Begins(f, text) => Begins(g, text))
  BY <1>9, <1>13, <1>14, PutTogether
<1>16. h \in W /\ (\A text : Begins(f, text) => Begins(h, text))
       /\ (~HasTag(p) \/ ~AtTag(p) => Says(h, DistanceTexts) /\ Says(h, HashTexts))
  BY <1>11, <1>13, <1>15, PutTogether
<1>17. /\ v \in W /\ (\A text : Begins(h, text) => Begins(v, text))
       /\ \A T : Says(h, T) \/ Says(e, T) => Says(v, T)
  <2>1. h \in W /\ e \in W /\ v = h \o e
    BY <1>12, <1>13, <1>16
  <2>2. QED
    BY ONLY <2>1, PutTogether
<1>18. QED
  BY <1>0, <1>12, <1>14, <1>16, <1>17 DEF Fits, Counts, Names, Marks, FixedTexts

\* The number behind ".post", with the mark of an edit.
LEMMA PostSays ==
    ASSUME NEW p \in Pieces, NEW r,
           r = <<Part(".post", p.distance)>> \o If(p.dirty, Text(".dev0"))
    PROVE  r \in Seq(PartsOf(p)) /\ Says(r, DistanceTexts) /\ (p.dirty => Says(r, EditTexts))
<1>1. ".post" \in DistanceTexts /\ ".dev0" \in EditTexts /\ p.dirty \in BOOLEAN
  BY DEF DistanceTexts, EditTexts, Pieces
<1>2. <<Part(".post", p.distance)>> \in Seq(PartsOf(p))
      /\ Says(<<Part(".post", p.distance)>>, DistanceTexts)
  BY <1>1, PartsOfFormats, PartSays
<1>3. PICK e : e = If(p.dirty, Text(".dev0"))
  OBVIOUS
<1>4. Says(Text(".dev0"), EditTexts) /\ (p.dirty => Text(".dev0") \in Seq(PartsOf(p)))
  BY <1>1, PartsOfFormats, PartSays DEF Text
<1>5. e \in Seq(PartsOf(p)) /\ (p.dirty => Says(e, EditTexts))
  BY <1>1, <1>3, <1>4, SomeParts
<1>6. PICK c : c = <<Part(".post", p.distance)>>
  OBVIOUS
<1>7. c \in Seq(PartsOf(p)) /\ Says(c, DistanceTexts) /\ r = c \o e
  BY <1>2, <1>3, <1>6
<1>8. QED
  BY ONLY <1>5, <1>7, PutTogether

\* A tag, or a text in place of one, and what follows it.
LEMMA InFront ==
    ASSUME NEW p \in Pieces, NEW s, NEW r \in Seq(PartsOf(p)), NEW v, v = s \o r,
           \/ HasTag(p) /\ s = Text(p.tag)
           \/ ~HasTag(p) /\ \E text \in {"0", "0+untagged."} : s = Text(text)
    PROVE  Fits(v, p) /\ (\A T : Says(r, T) => Says(v, T))
<1>1. s \in Seq(PartsOf(p))
  BY PartsOfFormats
<1>2. v \in Seq(PartsOf(p)) /\ (\A T : Says(r, T) => Says(v, T))
      /\ (\A text : Begins(s, text) => Begins(v, text))
  BY <1>1, PutTogether
<1>3. (HasTag(p) => Begins(s, p.tag)) /\ (~HasTag(p) => \E text \in FixedTexts : Begins(s, text))
  BY TagInFront DEF FixedTexts
<1>4. QED
  BY <1>2, <1>3 DEF Fits

\* pep440-pre and pep440-old: the tag and the distance.
LEMMA ShortSays ==
    ASSUME NEW p \in Pieces, NEW v, v = RenderPep440Pre(p) \/ v = RenderPep440Old(p)
    PROVE  Fits(v, p) /\ Counts(v, p)
<1>1. p.distance \in Nat /\ p.dirty \in BOOLEAN /\ AtTag(p) \in BOOLEAN
      /\ (AtTag(p) <=> p.distance = 0 /\ ~p.dirty)
  BY DEF Pieces, AtTag
<1>2. PICK r : r = <<Part(".post", p.distance)>> \o If(p.dirty, Text(".dev0"))
  OBVIOUS
<1>3. PICK q : q = <<Part(".post.dev", p.distance)>>
  OBVIOUS
<1>4. ".post.dev" \in DistanceTexts
  BY DEF DistanceTexts
<1>5. r \in Seq(PartsOf(p)) /\ Says(r, DistanceTexts)
  BY <1>2, PostSays
<1>6. q \in Seq(PartsOf(p)) /\ Says(q, DistanceTexts)
  BY <1>3, <1>4, PartsOfFormats, PartSays
<1>7. CASE ~HasTag(p)
  <2>1. PICK t \in {q, r} : v = Text("0") \o t
    BY ONLY <1>7, <1>2, <1>3, v = RenderPep440Pre(p) \/ v = RenderPep440Old(p)
       DEF RenderPep440Pre, RenderPep440Old
  <2>2. QED
    BY <1>5, <1>6, <1>7, <2>1, InFront DEF Counts
<1>8. CASE HasTag(p)
  <2>1. PICK t : /\ v = Text(p.tag) \o t
                 /\ t = If(p.distance # 0, q) \/ t = If(~AtTag(p), r)
    BY ONLY <1>8, <1>2, <1>3, v = RenderPep440Pre(p) \/ v = RenderPep440Old(p)
       DEF RenderPep440Pre, RenderPep440Old
  <2>2. t \in Seq(PartsOf(p)) /\ (p.distance # 0 => Says(t, DistanceTexts))
    <3>1. CASE t = If(p.distance # 0, q)
      BY <1>6, <3>1, SomeParts
    <3>2. CASE t = If(~AtTag(p), r)
      BY <1>1, <1>5, <3>2, SomeParts
    <3>3. QED
      BY <2>1, <3>1, <3>2
  <2>3. QED
    BY <1>8, <2>1, <2>2, InFront DEF Counts
<1>9. QED
  BY <1>7, <1>8

\* pep440-post: the same and the commit.
LEMMA Pep440PostSays ==
    ASSUME NEW p \in Pieces, NEW v, v = RenderPep440Post(p)
    PROVE  Fits(v, p) /\ Counts(v, p) /\ Names(v, p) /\ Marks(v, p)
<1>1. p.distance \in Nat /\ p.dirty \in BOOLEAN /\ AtTag(p) \in BOOLEAN
      /\ (AtTag(p) <=> p.distance = 0 /\ ~p.dirty)
  BY DEF Pieces, AtTag
<1>2. PICK r : r = <<Part(".post", p.distance)>> \o If(p.dirty, Text(".dev0"))
  OBVIOUS
<1>3. r \in Seq(PartsOf(p)) /\ Says(r, DistanceTexts) /\ (p.dirty => Says(r, EditTexts))
  BY <1>2, PostSays
<1>4. "g" \in HashTexts /\ "+g" \in HashTexts
  BY DEF HashTexts
<1>5. \A text \in {"g", "+g"} : Hash(text, p) \in Seq(PartsOf(p)) /\ Says(Hash(text, p), HashTexts)
  BY <1>4, PartsOfFormats, PartSays DEF Hash
<1>6. CASE ~HasTag(p)
  <2>1. PICK s, t : s = Text("0") \o r /\ t = Hash("+g", p) /\ v = s \o t
    BY ONLY <1>6, <1>2, v = RenderPep440Post(p) DEF RenderPep440Post
  <2>2. Fits(s, p) /\ Says(s, DistanceTexts) /\ (p.dirty => Says(s, EditTexts))
    BY <1>3, <1>6, <2>1, InFront
  <2>3. t \in Seq(PartsOf(p)) /\ Says(t, HashTexts)
    BY <1>5, <2>1
  <2>4. /\ v \in Seq(PartsOf(p)) /\ (\A T : Says(s, T) \/ Says(t, T) => Says(v, T))
        /\ \A text : Begins(s, text) => Begins(v, text)
    <3>1. s \in Seq(PartsOf(p)) /\ v = s \o t
      BY <2>1, <2>2 DEF Fits
    <3>2. QED
      BY ONLY <2>3, <3>1, PutTogether
  <2>5. QED
    BY <1>6, <2>2, <2>3, <2>4 DEF Fits, Counts, Names, Marks
<1>7. CASE HasTag(p)
  <2>1. PICK c, d, f, g, t :
            /\ c = Text(PlusOrDot(p)) /\ d = Hash("g", p) /\ f = r \o c /\ g = f \o d
            /\ t = If(~AtTag(p), g) /\ v = Text(p.tag) \o t
    BY ONLY <1>7, <1>2, v = RenderPep440Post(p) DEF RenderPep440Post
  <2>2. c \in Seq(PartsOf(p)) /\ d \in Seq(PartsOf(p)) /\ Says(d, HashTexts)
    BY <1>5, <2>1, PartsOfFormats
  <2>3. f \in Seq(PartsOf(p)) /\ Says(f, DistanceTexts) /\ (p.dirty => Says(f, EditTexts))
    BY <1>3, <2>1, <2>2, PutTogether
  <2>4. /\ g \in Seq(PartsOf(p)) /\ Says(g, DistanceTexts) /\ Says(g, HashTexts)
        /\ p.dirty => Says(g, EditTexts)
    BY <2>1, <2>2, <2>3, PutTogether
  <2>5. t \in Seq(PartsOf(p)) /\ (~AtTag(p) => t = g)
    BY <1>1, <2>1, <2>4, SomeParts
  <2>6. Fits(v, p) /\ (\A T : Says(t, T) => Says(v, T))
    BY <1>7, <2>1, <2>5, InFront
  <2>7. ~AtTag(p) => /\ Says(v, DistanceTexts) /\ Says(v, HashTexts)
                     /\ p.dirty => Says(v, EditTexts)
    BY <2>4, <2>5, <2>6
  <2>a. p.distance # 0 => ~AtTag(p)
    BY <1>1
  <2>8. Counts(v, p) /\ Names(v, p)
    BY <1>7, <2>a, <2>7 DEF Counts, Names
  <2>9. Marks(v, p)
    BY <1>1, <2>7 DEF Marks
  <2>10. QED
    BY <2>6, <2>8, <2>9
<1>8. QED
  BY <1>6, <1>7

\* git-describe and git-describe-long: the tag and the commit, or the commit.
LEMMA DescribeSays ==
    ASSUME NEW p \in Pieces, NEW v, v = RenderGitDescribe(p) \/ v = RenderGitDescribeLong(p)
    PROVE  Fits(v, p) /\ Names(v, p) /\ Marks(v, p)
<1>1. p.distance \in Nat /\ p.dirty \in BOOLEAN
  BY DEF Pieces
<1>2. "-g" \in HashTexts /\ "" \in HashTexts /\ "-dirty" \in EditTexts /\ "" \in FixedTexts
  BY DEF HashTexts, EditTexts, FixedTexts
<1>a. PICK always \in BOOLEAN : v = Described(p, always) \o If(p.dirty, Text("-dirty"))
  BY DEF RenderGitDescribe, RenderGitDescribeLong
<1>3. PICK s, e : s = Described(p, always) /\ e = If(p.dirty, Text("-dirty")) /\ v = s \o e
  BY <1>a
<1>4. e \in Seq(PartsOf(p)) /\ (p.dirty => Says(e, EditTexts))
  <2>1. Says(Text("-dirty"), EditTexts) /\ (p.dirty => Text("-dirty") \in Seq(PartsOf(p)))
    BY <1>2, PartsOfFormats, PartSays DEF Text
  <2>2. QED
    BY <1>1, <1>3, <2>1, SomeParts
<1>5. Fits(s, p) /\ Names(s, p)
  <2>1. CASE ~HasTag(p)
    <3>1. s = Hash("", p)
      BY <1>3, <2>1 DEF Described
    <3>2. s \in Seq(PartsOf(p)) /\ Begins(s, "") /\ Says(s, HashTexts)
      BY <1>2, <3>1, PartsOfFormats, PartSays DEF Hash
    <3>3. QED
      BY <1>2, <2>1, <3>2 DEF Fits, Names
  <2>2. CASE HasTag(p)
    <3>1. PICK c, d, g, t :
              /\ c = <<Part("-", p.distance)>> /\ d = Hash("-g", p) /\ g = c \o d
              /\ t = If(always \/ p.distance # 0, g) /\ s = Text(p.tag) \o t
      BY ONLY <1>3, <2>2 DEF Described
    <3>2. c \in Seq(PartsOf(p)) /\ d \in Seq(PartsOf(p)) /\ Says(d, HashTexts)
      BY <1>2, <3>1, PartsOfFormats, PartSays DEF Hash
    <3>3. g \in Seq(PartsOf(p)) /\ Says(g, HashTexts)
      BY <3>1, <3>2, PutTogether
    <3>4. t \in Seq(PartsOf(p)) /\ (p.distance # 0 => t = g)
      BY <3>1, <3>3, SomeParts
    <3>5. Fits(s, p) /\ (\A T : Says(t, T) => Says(s, T))
      <4>1. t \in Seq(PartsOf(p)) /\ s = Text(p.tag) \o t
        BY <3>1, <3>4
      <4>2. PICK w : w = Text(p.tag)
        OBVIOUS
      <4>3. HasTag(p) /\ s = w \o t
        BY <2>2, <4>1, <4>2
      <4>4. QED
        BY ONLY p \in Pieces, <4>1, <4>2, <4>3, InFront
    <3>6. QED
      BY <2>2, <3>3, <3>4, <3>5 DEF Names
  <2>3. QED
    BY <2>1, <2>2
<1>6. /\ v \in Seq(PartsOf(p)) /\ (\A T : Says(s, T) \/ Says(e, T) => Says(v, T))
      /\ \A text : Begins(s, text) => Begins(v, text)
  BY <1>3, <1>4, <1>5, PutTogether DEF Fits
<1>7. QED
  BY <1>4, <1>5, <1>6 DEF Fits, Names, Marks

\* What every version says, in the styles that say it.
LEMMA VersionSays ==
    ASSUME NEW p \in Pieces, style \in StyleNames, NEW v, v = Rendered(p)
    PROVE  /\ Fits(v, p)
           /\ style \notin {"git-describe", "git-describe-long"} => Counts(v, p)
           /\ style \notin {"pep440-pre", "pep440-old"} => Names(v, p) /\ Marks(v, p)
<1>1. CASE style \in {"", "default", "pep440"}
  BY <1>1, Pep440Says DEF Rendered
<1>2. CASE style \in {"pep440-pre", "pep440-old"}
  BY <1>2, ShortSays DEF Rendered
<1>3. CASE style = "pep440-post"
  BY <1>3, Pep440PostSays DEF Rendered
<1>4. CASE style \in {"git-describe", "git-describe-long"}
  BY <1>4, DescribeSays DEF Rendered
<1>5. QED
  BY <1>1, <1>2, <1>3, <1>4 DEF StyleNames

\* What is read in such a version is what it was made of.
LEMMA ReadBack ==
    ASSUME NEW p \in Pieces, NEW v, Fits(v, p)
    PROVE  /\ HashOf(v) \subseteq {p.short}
           /\ Names(v, p) /\ ~(HasTag(p) /\ p.distance = 0) => HashOf(v) = {p.short}
           /\ Counts(v, p) => Distance(v) = p.distance
           /\ Marks(v, p) => (p.dirty <=> Says(v, EditTexts))
           /\ HasTag(p) => Base(v) \in DOMAIN Tag /\ Tag[Base(v)] = p.tag
           /\ ~HasTag(p) => Base(v) = 0
<1>1. \A i \in DOMAIN v : /\ v[i].text \in HashTexts => v[i].n = p.short
                          /\ v[i].text \in DistanceTexts => v[i].n = p.distance
                          /\ v[i].text \in EditTexts => p.dirty
  <2>1. \A i \in DOMAIN v : v[i] \in PartsOf(p)
    BY DEF Fits
  <2>2. QED
    BY <2>1 DEF PartsOf
<1>2. HashOf(v) \subseteq {p.short}
  BY <1>1 DEF HashOf
<1>3. Names(v, p) /\ ~(HasTag(p) /\ p.distance = 0) => HashOf(v) = {p.short}
  <2>1. Says(v, HashTexts) => HashOf(v) # {}
    BY DEF Says, HashOf
  <2>2. QED
    BY <1>2, <2>1 DEF Names
<1>4. Counts(v, p) => Distance(v) = p.distance
  <2>1. PICK I : I = {j \in DOMAIN v : v[j].text \in {"distance", ".post", ".post.dev"}}
    OBVIOUS
  <2>2. Distance(v) = IF I = {} THEN 0 ELSE v[CHOOSE j \in I : TRUE].n
    BY <2>1 DEF Distance
  <2>3. \A j \in I : v[j].n = p.distance
    BY <1>1, <2>1 DEF DistanceTexts
  <2>4. Counts(v, p) /\ I = {} => p.distance = 0
    BY <2>1 DEF Counts, Says, DistanceTexts
  <2>5. QED
    BY <2>2, <2>3, <2>4
<1>5. Marks(v, p) => (p.dirty <=> Says(v, EditTexts))
  <2>1. p.dirty \in BOOLEAN
    BY DEF Pieces
  <2>2. QED
    BY <1>1, <2>1 DEF Marks, Says
<1>6. PICK J : J = {j \in DOMAIN Tag : v[1].text = Tag[j]}
  OBVIOUS
<1>7. Base(v) = IF J = {} THEN 0 ELSE CHOOSE j \in J : TRUE
  BY <1>6 DEF Base
<1>8. HasTag(p) => Base(v) \in DOMAIN Tag /\ Tag[Base(v)] = p.tag
  <2>1. HasTag(p) => p.tag \in TagSet /\ v[1].text = p.tag
    BY DEF HasTag, Pieces, Fits, Begins
  <2>2. HasTag(p) => J # {} /\ \A j \in J : j \in DOMAIN Tag /\ Tag[j] = p.tag
    BY <1>6, <2>1 DEF TagSet
  <2>3. QED
    BY <1>7, <2>2
<1>9. ~HasTag(p) => Base(v) = 0
  <2>1. ~HasTag(p) => v[1].text \notin TagSet
    BY VersionAssumption DEF Fits, Begins
  <2>2. ~HasTag(p) => J = {}
    BY <1>6, <2>1 DEF TagSet
  <2>3. QED
    BY <1>7, <2>2
<1>10. QED
  BY <1>2, <1>3, <1>4, <1>5, <1>8, <1>9

\* What git has said first, about a commit without a tag before it.
LEMMA FirstPieces ==
    ASSUME NEW d \in BOOLEAN
    PROVE  /\ [NoPieces EXCEPT !.dirty = d] \in Pieces
           /\ ~HasTag([NoPieces EXCEPT !.dirty = d])
BY DEF Pieces, NoPieces, HasTag

\* And about a commit with one.
LEMMA TaggedPieces ==
    ASSUME NEW c \in Nat, NEW d \in BOOLEAN, NEW t \in TagSet, NEW n \in Nat, NEW p,
           p = [tag |-> t, distance |-> n, short |-> c, dirty |-> d, long |-> 0, date |-> 0]
    PROVE  p \in Pieces /\ p.short = c
<1>1. [tag |-> t, distance |-> n, short |-> c, dirty |-> d, long |-> 0, date |-> 0] \in Pieces
  BY DEF Pieces
<1>2. [tag |-> t, distance |-> n, short |-> c, dirty |-> d, long |-> 0, date |-> 0].short = c
  OBVIOUS
<1>3. QED
  BY <1>1, <1>2

\* What git says next is put beside it.
LEMMA MorePieces ==
    ASSUME NEW p \in Pieces, NEW n \in Nat
    PROVE  /\ LET q == [p EXCEPT !.long = n]
              IN  q \in Pieces /\ q.long = n /\ q.short = p.short
           /\ LET q == [p EXCEPT !.distance = n]
              IN  q \in Pieces /\ q.long = p.long /\ q.short = p.short
           /\ LET q == [p EXCEPT !.date = n]
              IN  q \in Pieces /\ q.date = n /\ q.long = p.long /\ q.short = p.short
BY DEF Pieces

\* The steps of git: each has the commit that is checked out, if nobody moved.
LEMMA AskedSteps ==
    ASSUME ReportInv, HistoryInv, GitDir \/ Describe \/ RevParse \/ Count
    PROVE  ReportInv'
<1> USE DEF ReportInv, AskedInv, KeywordsInv, SourceInv, HistoryInv, repository, package, Ask,
            Learn, Finish
<1>1. CASE GitDir
  BY <1>1 DEF GitDir
<1>2. CASE Describe
  <2>1. head \in Nat /\ dirty \in BOOLEAN
    OBVIOUS
  <2>2. pieces' \in Pieces /\ (HasTag(pieces') => pieces'.short = head)
    <3>1. CASE {t \in TagSet : tagged[t] \in 1..head} = {}
      <4>1. pieces' = [NoPieces EXCEPT !.dirty = dirty]
        BY <1>2, <3>1 DEF Describe
      <4>2. QED
        BY <2>1, <4>1, FirstPieces
    <3>2. CASE {t \in TagSet : tagged[t] \in 1..head} # {}
      <4>1. PICK t \in TagSet : tagged[t] \in 1..head
               /\ pieces' = [NoPieces EXCEPT !.tag = t, !.distance = head - tagged[t],
                                             !.short = head, !.dirty = dirty]
        BY <1>2, <3>2 DEF Describe
      <4>2. head - tagged[t] \in Nat
        BY <2>1, <4>1
      <4>3. PICK n \in Nat : n = head - tagged[t]
        BY <4>2
      <4>4. pieces' = [tag |-> t, distance |-> n, short |-> head, dirty |-> dirty, long |-> 0,
                       date |-> 0]
        BY <4>1, <4>3 DEF NoPieces
      <4>5. QED
        BY <2>1, <4>4, TaggedPieces
    <3>3. QED
      BY <3>1, <3>2
  <2>3. UNCHANGED <<repository, package, moved, report>> /\ stage' = "revparse"
    BY <1>2 DEF Describe
  <2>4. HasTag(pieces)' = HasTag(pieces')
    BY DEF HasTag
  <2>5. QED
    BY <2>2, <2>3, <2>4
<1>3. CASE RevParse
  <2>1. /\ pieces' = [pieces EXCEPT !.long = head, !.short = IF HasTag(pieces) THEN @ ELSE head]
        /\ stage' \in {"count", "show"} /\ stage = "revparse"
        /\ UNCHANGED <<repository, package, moved, report>>
    BY <1>3 DEF RevParse
  <2>2. /\ pieces' \in Pieces /\ pieces'.long = head
        /\ pieces'.short = IF HasTag(pieces) THEN pieces.short ELSE head
    <3>1. pieces \in Pieces /\ head \in Nat
      OBVIOUS
    <3>2. QED
      BY <2>1, <3>1 DEF Pieces
  <2>3. QED
    BY <2>1, <2>2
<1>4. CASE Count
  <2>1. pieces' = [pieces EXCEPT !.distance = head] /\ stage' = "show" /\ stage = "count"
        /\ UNCHANGED <<repository, package, moved, report>>
    BY <1>4 DEF Count, CommitCount
  <2>2. pieces' \in Pieces /\ pieces'.short = pieces.short /\ pieces'.long = pieces.long
    <3>1. pieces \in Pieces /\ head \in Nat
      OBVIOUS
    <3>2. QED
      BY <2>1, <3>1, MorePieces
  <2>3. QED
    BY <2>1, <2>2
<1>5. QED
  BY <1>1, <1>2, <1>3, <1>4

\* The steps that end an import: a report is of keywords, of git or of a name.
LEMMA EndingSteps ==
    ASSUME ReportInv, HistoryInv, ImportInv, Begin \/ Show \/ GitFails \/ GitFailsLate
    PROVE  ReportInv'
<1> USE DEF ReportInv, AskedInv, KeywordsInv, HistoryInv, repository, package, Ask, Learn, Finish
<1>0. NoPieces \in Pieces
  BY DEF Pieces, NoPieces
<1>1. CASE Begin
  <2>1. SourceInv'
    BY <1>1 DEF Begin, SourceInv, IsExpanded, FromKeywords
  <2>2. QED
    BY <1>1, <2>1 DEF Begin
<1>2. CASE Show
  <2>0. pieces \in Pieces /\ head \in Nat
    OBVIOUS
  <2>1. PICK p \in Pieces : p = [pieces EXCEPT !.date = head]
    BY <2>0, MorePieces
  <2>2. p.short = pieces.short /\ p.long = pieces.long /\ p.date = head
    BY <2>0, <2>1, MorePieces
  <2>3. report' = Report(Rendered(p), p.long, p.dirty, p.date) /\ stage' = "done" /\ stage = "show"
        /\ UNCHANGED <<repository, package, moved>> /\ pieces' = NoPieces
    BY <1>2, <2>1 DEF Show
  <2>4. keywords = NoKeywords /\ tree # "outside"
    BY <2>3 DEF ImportInv, Asking
  <2>5. p.short \in Nat /\ HashOf(Rendered(p)) \subseteq {p.short}
    BY VersionSays, ReadBack DEF Pieces
  <2>6. ~moved => HashOf(report'.version) \subseteq {head} /\ report'.full = head /\ report'.date = head
    BY <2>2, <2>3, <2>5 DEF Report
  <2>7. (HashOf(report.version))' = HashOf(report'.version)
    BY DEF HashOf
  <2>8. SourceInv'
    BY <2>3, <2>4, <2>6, <2>7 DEF SourceInv
  <2>9. QED
    BY <2>3, <2>8, <1>0
<1>3. CASE GitFails
  <2>1. stage \in Asking /\ stage' = "done" /\ report'.full = 0
        /\ UNCHANGED <<repository, package, moved>> /\ pieces' = NoPieces
    BY <1>3 DEF GitFails, NextMethod, FromParentdir, Report, Asking
  <2>2. SourceInv'
    BY <2>1 DEF SourceInv, ImportInv
  <2>3. QED
    BY <2>1, <2>2, <1>0
<1>4. CASE GitFailsLate
  BY <1>0, <1>4 DEF GitFailsLate, SourceInv
<1>5. QED
  BY <1>1, <1>2, <1>3, <1>4

\* The developer moves on, or a copy is made, not in the middle of a report.
LEMMA BesideSteps ==
    ASSUME ReportInv, HistoryInv, Develop \/ Release \/ UNCHANGED versionVars
    PROVE  ReportInv'
<1> USE DEF ReportInv, AskedInv, KeywordsInv, SourceInv, HistoryInv, versionVars, repository,
            package, import, FromKeywords, Asking
<1>1. CASE Again
  BY <1>1 DEF Again
<1>2. CASE Edit \/ \E expands : \E left \in BOOLEAN : MakeCommit(expands, left)
  BY <1>2 DEF Edit, MakeCommit, Works
<1>3. CASE \E c : Checkout(c)
  BY <1>3 DEF Checkout, Works
<1>4. CASE \E i \in DOMAIN Tag : MakeTag(i)
  <2>1. PICK i \in DOMAIN Tag : MakeTag(i)
    BY <1>4
  <2>2. tagged' \in [TagSet -> Nat] /\ \A t \in TagSet : tagged[t] # 0 => tagged'[t] = tagged[t]
    BY <2>1 DEF MakeTag, TagSet
  <2>3. KeywordsInv'
    BY <2>1, <2>2 DEF MakeTag, Works
  <2>4. AskedInv' /\ SourceInv'
    BY <2>1 DEF MakeTag, Works
  <2>5. QED
    BY <2>3, <2>4
<1>5. CASE \E where \in {"inside", "outside"} : Installation(where)
  BY <1>5 DEF Installation, Copy
<1>6. CASE \E where \in {"inside", "outside"}, marks \in BOOLEAN : Archive(where, marks)
  <2>1. PICK where \in {"inside", "outside"}, marks \in BOOLEAN : Archive(where, marks)
    BY <1>6
  <2>2. \A r \in RefsAt(head, marks) : r.mark => r.name \in TagSet /\ tagged[r.name] = head
    BY DEF RefsAt, Ref, TagsAt
  <2>3. KeywordsInv'
    BY <2>1, <2>2 DEF Archive, Copy
  <2>4. AskedInv' /\ SourceInv'
    BY <2>1 DEF Archive, Copy
  <2>5. QED
    BY <2>3, <2>4
<1>7. CASE SetupStep \/ Configure
  BY <1>7 DEF SetupStep, Configure, ReadConfig, OpenVersionFile, WriteVersionFile, AppendSnippet,
              Include, AddLine, GitAdd, GitAddFails, SetupStops, Touch
<1>8. CASE UNCHANGED versionVars
  BY <1>8
<1>9. Develop => Again \/ Edit \/ MakeCommit(FALSE, FALSE) \/ (\E c : Checkout(c))
                 \/ (\E i \in DOMAIN Tag : MakeTag(i))
                 \/ \E where \in {"inside", "outside"} : Installation(where)
  BY DEF Develop
<1>10. Release => SetupStep \/ Configure \/ (\E expands : \E left \in BOOLEAN : MakeCommit(expands, left))
                 \/ (\E i \in DOMAIN Tag : MakeTag(i))
                 \/ \E where \in {"inside", "outside"}, marks \in BOOLEAN : Archive(where, marks)
  BY DEF Release, Commit
<1>11. QED
  BY <1>1, <1>2, <1>3, <1>4, <1>5, <1>6, <1>7, <1>8, <1>9, <1>10

\* The order of the numbers is well-founded: the library's fact, with its relation
\* written out.
LEMMA NumbersAreOrdered == IsWellFoundedOn({ss \in Nat \X Nat : ss[1] < ss[2]}, Nat)
BY NatLessThanWellFounded DEF OpToRel

\* A set of numbers has a least one.
LEMMA LeastNumber ==
    ASSUME NEW T, T \subseteq Nat, T # {}
    PROVE  \E i \in T : \A j \in T : i <= j
<1>1. PICK R : R = {ss \in Nat \X Nat : ss[1] < ss[2]}
  OBVIOUS
<1>2. IsWellFoundedOn(R, Nat)
  BY NumbersAreOrdered, <1>1
<1>3. PICK i \in T : \A j \in T : ~ (<<j, i>> \in R)
  BY <1>2, WFMin
<1>4. \A m, n \in Nat : m < n => <<m, n>> \in R
  <2>1. ASSUME NEW m \in Nat, NEW n \in Nat, m < n PROVE <<m, n>> \in R
    <3>1. PICK ss \in Nat \X Nat : ss = <<m, n>>
      OBVIOUS
    <3>2. ss[1] < ss[2]
      BY <3>1, <2>1
    <3>3. QED
      BY <3>1, <3>2, <1>1
  <2>2. QED
    BY <2>1
<1>5. ASSUME NEW j \in T PROVE i <= j
  <2>1. i \in Nat /\ j \in Nat /\ ~(<<j, i>> \in R)
    BY <1>3
  <2>2. ~(j < i)
    BY <2>1, <1>4
  <2>3. QED
    BY <2>1, <2>2
<1>6. QED
  BY <1>5

\* The first tag of several is one of them.
LEMMA FirstIsOne ==
    ASSUME NEW names, names # {}
    PROVE  FirstOf(names) \in names
<1> DEFINE tags == {i \in DOMAIN Tag : Tag[i] \in names}
<1>1. CASE tags # {}
  <2>1. tags \subseteq Nat
    BY VersionAssumption
  <2>2. \E i \in tags : \A j \in tags : i <= j
    BY <1>1, <2>1, LeastNumber
  <2>3. (CHOOSE i \in tags : \A j \in tags : i <= j) \in tags
    BY <2>2
  <2>4. QED
    BY <1>1, <2>3 DEF FirstOf
<1>2. CASE tags = {}
  BY <1>2 DEF FirstOf
<1>3. QED
  BY <1>1, <1>2

\* The initial state has no report.
LEMMA InitReports == Init => ImportInv /\ ReportInv
<1> SUFFICES ASSUME Init PROVE ImportInv /\ ReportInv
  OBVIOUS
<1>1. PICK k \in Packages : VersionInit(k)
  BY DEF Init
<1>2. NoPieces \in Pieces /\ k.style \in StyleNames
  BY VersionAssumption DEF Pieces, NoPieces
<1>3. AskedInv /\ ImportInv
  BY <1>1, <1>2 DEF VersionInit, AskedInv, ImportInv, Asking
<1>4. KeywordsInv /\ SourceInv
  BY <1>1 DEF VersionInit, KeywordsInv, SourceInv
<1>5. QED
  BY <1>3, <1>4 DEF ReportInv

\* Every step keeps what is known of the report.
LEMMA StepReports ==
    ASSUME ReleaseInv, ImportInv, ReportInv, [Next]_vars
    PROVE  ReleaseInv' /\ ImportInv' /\ ReportInv'
<1>1. ReleaseInv'
  BY StepRelease
<1>2. ImportInv'
  BY StepOfImport, StepBeside DEF Next, vars
<1>3. [Next]_vars => Import \/ Develop \/ Release \/ UNCHANGED versionVars
  BY DEF Next, vars
<1>4. ReportInv'
  BY <1>3, AskedSteps, EndingSteps, BesideSteps DEF Import, ReleaseInv
<1>5. QED
  BY <1>1, <1>2, <1>4

\* An import in a checkout is about one commit, if nobody works there meanwhile; that
\* of an expanded archive is about its own, under a tag of it; that of an installation
\* outside of a repository claims nothing (_version.py:164-216, 219-308, 480-523).
THEOREM ReportsAreOwn == Spec => []ReportsOwnCode
<1> DEFINE IInv == ReleaseInv /\ ImportInv /\ ReportInv
<1>1. Init => IInv
  BY InitRelease, InitReports
<1>2. IInv /\ [Next]_vars => IInv'
  BY StepReports
<1>3. IInv => ReportsOwnCode
  <2> SUFFICES ASSUME IInv PROVE ReportsOwnCode
    OBVIOUS
  <2> USE DEF ReportInv, AskedInv, KeywordsInv, SourceInv
  <2>1. Quiet => HashOf(report.version) \cup {report.full, report.date} = {report.full}
    BY DEF Quiet
  <2>2. ASSUME stage = "done", keywords # NoKeywords
        PROVE  /\ report.full = code
               /\ (\E r \in keywords.refs : r.mark) =>
                     \E t \in TagSet : tagged[t] = code /\ report.version = Text(t)
    <3>1. report.full = code
      BY <2>2 DEF FromKeywords, Report
    <3>2. ASSUME \E r \in keywords.refs : r.mark
          PROVE  \E t \in TagSet : tagged[t] = code /\ report.version = Text(t)
      <4>1. PICK names : names = {r.name : r \in {q \in keywords.refs : q.mark}}
        OBVIOUS
      <4>2. names # {} /\ Candidates(keywords.refs) = names
        BY <3>2, <4>1 DEF Candidates
      <4>3. FirstOf(names) \in names
        BY <4>2, FirstIsOne
      <4>4. \A t \in names : t \in TagSet /\ tagged[t] = code
        BY <2>2, <4>1
      <4>5. report.version = Text(FirstOf(names))
        BY <2>2, <4>2 DEF FromKeywords, Report
      <4>6. QED
        BY <4>3, <4>4, <4>5
    <3>3. QED
      BY <3>1, <3>2
  <2>3. stage = "done" /\ tree = "outside" /\ keywords = NoKeywords => report.full = 0
    OBVIOUS
  <2>4. QED
    BY <2>1, <2>2, <2>3 DEF ReportsOwnCode
<1>4. QED
  BY <1>1, <1>2, <1>3, PTL DEF Spec

----------------------------------------------------------------------------
(* Versions of one history.                                                *)

\* Later commits have later tags.
TagInv ==
    /\ tagged \in [TagSet -> Nat]
    /\ \A i, j \in DOMAIN Tag :
          i < j /\ tagged[Tag[i]] # 0 /\ tagged[Tag[j]] # 0 => tagged[Tag[i]] < tagged[Tag[j]]

\* The pieces of a version count from their tag, or from the first commit.
Counted(p) ==
    IF HasTag(p) THEN tagged[p.tag] \in 1..p.short /\ p.distance = p.short - tagged[p.tag]
    ELSE p.distance = p.short

\* There is no tag between that one and their commit.
Nearest(p) ==
    \A t \in TagSet : tagged[t] \in 1..p.short => HasTag(p) /\ tagged[t] <= tagged[p.tag]

\* The report r has the version of the pieces p.
IsVersionOf(r, p) == r.version = Rendered(p) /\ r.full = p.short /\ r.dirty = p.dirty

\* The import has asked for the nearest tag, and counts the commits if there is none.
AskedPieces ==
    stage \in {"revparse", "count", "show"} /\ ~moved =>
        /\ stage = "revparse" /\ ~HasTag(pieces) => \A t \in TagSet : tagged[t] \notin 1..head
        /\ stage # "revparse" \/ HasTag(pieces) => Nearest(pieces)
        /\ HasTag(pieces) => Counted(pieces)
        /\ stage = "count" => ~HasTag(pieces)
        /\ stage = "show" => Counted(pieces)

\* What is reported is of such pieces, and so was an earlier report: a tag may since
\* have come nearer to it.
ReportPieces == Quiet => \E p \in Pieces : IsVersionOf(report, p) /\ Nearest(p) /\ Counted(p)
EarlierPieces == earlier # NoReport => \E p \in Pieces : IsVersionOf(earlier, p) /\ Counted(p)

CompareInv == TagInv /\ AskedPieces /\ ReportPieces /\ EarlierPieces

\* A step takes no tag away and keeps the style.
TagsStay ==
    /\ style' = style
    /\ \A t \in TagSet : tagged[t] # 0 => tagged'[t] = tagged[t]

\* The steps of the program keep the tags in order.
LEMMA StepTags ==
    ASSUME TagInv, HistoryInv, Import \/ Develop \/ Release \/ UNCHANGED versionVars
    PROVE  TagInv' /\ TagsStay
<1>1. CASE UNCHANGED <<tagged, style>>
  BY <1>1 DEF TagInv, TagsStay
<1>2. CASE \E i \in DOMAIN Tag : MakeTag(i)
  <2>1. PICK i \in DOMAIN Tag : MakeTag(i)
    BY <1>2
  <2>2. /\ tagged[Tag[i]] = 0 /\ tagged' = [tagged EXCEPT ![Tag[i]] = head] /\ style' = style
        /\ \A j \in DOMAIN Tag :
              tagged[Tag[j]] # 0 => IF j < i THEN tagged[Tag[j]] < head ELSE tagged[Tag[j]] > head
    BY <2>1 DEF MakeTag, Works, package
  <2>3. head \in Nat /\ \A j \in DOMAIN Tag : Tag[j] \in TagSet
    BY DEF HistoryInv, TagSet
  <2>4. /\ tagged' \in [TagSet -> Nat] /\ tagged'[Tag[i]] = head
        /\ \A t \in TagSet : t # Tag[i] => tagged'[t] = tagged[t]
    BY <2>2, <2>3 DEF TagInv
  <2>5. TagsStay
    BY <2>2, <2>4 DEF TagsStay
  <2>6. DOMAIN Tag \subseteq Nat
    BY VersionAssumption
  <2>7. ASSUME NEW j \in DOMAIN Tag, NEW k \in DOMAIN Tag, j < k,
               tagged'[Tag[j]] # 0, tagged'[Tag[k]] # 0
        PROVE  tagged'[Tag[j]] < tagged'[Tag[k]]
    <3>1. (Tag[j] = Tag[i] => j = i) /\ (Tag[k] = Tag[i] => k = i)
      BY VersionAssumption
    <3>2. CASE j = i
      <4>1. tagged'[Tag[j]] = head /\ tagged'[Tag[k]] = tagged[Tag[k]] /\ ~(k < i)
        BY <2>3, <2>4, <2>6, <2>7, <3>1, <3>2
      <4>2. tagged[Tag[k]] \in Nat
        BY <2>3 DEF TagInv
      <4>3. QED
        BY <2>2, <2>3, <2>7, <4>1, <4>2
    <3>3. CASE k = i
      <4>1. tagged'[Tag[k]] = head /\ tagged'[Tag[j]] = tagged[Tag[j]] /\ j < i
        BY <2>3, <2>4, <2>6, <2>7, <3>1, <3>3
      <4>2. QED
        BY <2>2, <2>7, <4>1
    <3>4. CASE j # i /\ k # i
      BY <2>3, <2>4, <2>7, <3>1, <3>4 DEF TagInv
    <3>5. QED
      BY <3>2, <3>3, <3>4
  <2>8. QED
    BY <2>4, <2>5, <2>7 DEF TagInv
<1>3. Import => UNCHANGED <<tagged, style>>
  BY DEF Import, Begin, GitDir, Describe, RevParse, Count, Show, GitFails, GitFailsLate,
         repository, package
<1>4. Develop => UNCHANGED <<tagged, style>> \/ \E i \in DOMAIN Tag : MakeTag(i)
  BY DEF Develop, Again, Edit, MakeCommit, Checkout, Installation, Copy, Works, repository, package
<1>5. SetupStep \/ Configure => UNCHANGED <<tagged, style>>
  BY DEF SetupStep, Configure, ReadConfig, OpenVersionFile, WriteVersionFile, AppendSnippet,
         Include, AddLine, GitAdd, GitAddFails, SetupStops, Touch, versionVars, repository, package
<1>6. Release => UNCHANGED <<tagged, style>> \/ \E i \in DOMAIN Tag : MakeTag(i)
  BY <1>5 DEF Release, Commit, Archive, MakeCommit, Copy, Works, repository, package
<1>7. QED
  BY <1>1, <1>2, <1>3, <1>4, <1>6 DEF versionVars, repository, package

\* A version stays what it was made of.
LEMMA VersionStays ==
    ASSUME TagsStay, NEW p \in Pieces
    PROVE  Rendered(p)' = Rendered(p) /\ (Counted(p) => Counted(p)')
<1>1. Rendered(p)' = Rendered(p)
  BY DEF TagsStay, Rendered
<1>2. ASSUME Counted(p) PROVE Counted(p)'
  <2>1. CASE HasTag(p)
    <3>0. p.short \in Nat /\ p.tag \in TagSet
      BY <2>1 DEF HasTag, Pieces
    <3>a. tagged[p.tag] \in 1..p.short
      BY <1>2, <2>1 DEF Counted
    <3>1. p.tag \in TagSet /\ tagged[p.tag] # 0
      BY <3>0, <3>a
    <3>2. tagged'[p.tag] = tagged[p.tag]
      BY <3>1 DEF TagsStay
    <3>3. QED
      BY <1>2, <3>2 DEF Counted
  <2>2. CASE ~HasTag(p)
    BY <1>2, <2>2 DEF Counted
  <2>3. QED
    BY <2>1, <2>2
<1>3. QED
  BY <1>1, <1>2

\* An earlier report stays what it was.
LEMMA EarlierStays ==
    ASSUME EarlierPieces, TagsStay, earlier' = earlier
    PROVE  EarlierPieces'
<1>1. SUFFICES ASSUME earlier # NoReport PROVE \E p \in Pieces : (IsVersionOf(earlier, p) /\ Counted(p))'
  BY DEF EarlierPieces
<1>2. PICK p \in Pieces : IsVersionOf(earlier, p) /\ Counted(p)
  BY <1>1 DEF EarlierPieces
<1>3. QED
  BY <1>2, VersionStays DEF IsVersionOf

\* Of two versions of a history, the later is the newer one.
LEMMA LaterPieces ==
    ASSUME TagInv, NEW p \in Pieces, Nearest(p), Counted(p), NEW q \in Pieces, Counted(q),
           p.short > q.short, NEW v, Fits(v, p), Counts(v, p), NEW w, Fits(w, q), Counts(w, q)
    PROVE  Base(w) < Base(v) \/ (Base(w) = Base(v) /\ Distance(w) < Distance(v))
<1>1. p.short \in Nat /\ q.short \in Nat /\ p.distance \in Nat /\ q.distance \in Nat
  BY DEF Pieces
<1>a. DOMAIN Tag \subseteq Nat \ {0}
  BY VersionAssumption
<1>2. Distance(v) = p.distance /\ Distance(w) = q.distance
  BY ReadBack
<1>3. CASE HasTag(q)
  <2>1. q.tag \in TagSet /\ tagged[q.tag] \in 1..q.short /\ q.distance = q.short - tagged[q.tag]
    BY <1>3 DEF Counted, HasTag, Pieces
  <2>2. tagged[q.tag] \in Nat \ {0} /\ tagged[q.tag] \in 1..p.short
    BY <1>1, <2>1
  <2>3. HasTag(p) /\ tagged[q.tag] <= tagged[p.tag]
    BY <2>1, <2>2 DEF Nearest
  <2>4. p.tag \in TagSet /\ tagged[p.tag] \in 1..p.short /\ p.distance = p.short - tagged[p.tag]
    BY <2>3 DEF Counted, HasTag, Pieces
  <2>5. /\ Base(v) \in DOMAIN Tag /\ Tag[Base(v)] = p.tag
        /\ Base(w) \in DOMAIN Tag /\ Tag[Base(w)] = q.tag
    BY <1>3, <2>3, ReadBack
  <2>6. tagged[p.tag] \in Nat \ {0}
    BY <1>1, <2>4
  <2>7. ~(Base(v) < Base(w))
    BY <2>2, <2>3, <2>5, <2>6 DEF TagInv
  <2>8. Base(v) \in Nat /\ Base(w) \in Nat
    BY <1>a, <2>5
  <2>9. CASE Base(v) = Base(w)
    <3>1. p.tag = q.tag
      BY <2>5, <2>9
    <3>2. q.distance < p.distance
      BY <1>1, <2>1, <2>2, <2>4, <3>1
    <3>3. QED
      BY <1>2, <2>9, <3>2
  <2>10. QED
    BY <2>7, <2>8, <2>9
<1>4. CASE ~HasTag(q)
  <2>1. Base(w) = 0 /\ q.distance = q.short
    BY <1>4, ReadBack DEF Counted
  <2>2. CASE HasTag(p)
    BY <1>1, <1>a, <2>1, <2>2, ReadBack
  <2>3. CASE ~HasTag(p)
    <3>1. Base(v) = 0 /\ p.distance = p.short
      BY <2>3, ReadBack DEF Counted
    <3>2. QED
      BY <1>1, <1>2, <2>1, <3>1
  <2>4. QED
    BY <2>2, <2>3
<1>5. QED
  BY <1>3, <1>4

\* Two that are the same are of one commit, edited or not.
LEMMA SamePieces ==
    ASSUME NEW p \in Pieces, Counted(p), NEW q \in Pieces, Counted(q), NEW v,
           Fits(v, p), Names(v, p), Marks(v, p), Fits(v, q), Names(v, q), Marks(v, q),
           tagged \in [TagSet -> Nat]
    PROVE  p.short = q.short /\ p.dirty = q.dirty
<1>1. p.short \in Nat /\ q.short \in Nat /\ p.distance \in Nat /\ q.distance \in Nat
  BY DEF Pieces
<1>2. p.dirty = q.dirty
  <2>1. p.dirty \in BOOLEAN /\ q.dirty \in BOOLEAN
    BY DEF Pieces
  <2>2. (p.dirty <=> Says(v, EditTexts)) /\ (q.dirty <=> Says(v, EditTexts))
    BY ReadBack
  <2>3. QED
    BY <2>1, <2>2
<1>3. CASE HashOf(v) # {}
  <2>1. HashOf(v) \subseteq {p.short} /\ HashOf(v) \subseteq {q.short}
    BY ReadBack
  <2>2. QED
    BY <1>2, <1>3, <2>1
<1>4. CASE HashOf(v) = {}
  <2>1. HasTag(p) /\ p.distance = 0 /\ HasTag(q) /\ q.distance = 0
    BY <1>4, ReadBack
  <2>2. p.tag = q.tag
    BY <2>1, ReadBack
  <2>3. p.tag \in TagSet /\ tagged[p.tag] \in Nat
    BY <2>1 DEF HasTag, Pieces
  <2>4. p.distance = p.short - tagged[p.tag] /\ q.distance = q.short - tagged[p.tag]
    BY <2>1, <2>2 DEF Counted
  <2>5. QED
    BY <1>1, <1>2, <2>1, <2>3, <2>4
<1>5. QED
  BY <1>3, <1>4

\* What git says next: the nearest tag with the distance from it, and without one the
\* number of all commits.
LEMMA AskedCompare ==
    ASSUME CompareInv, ReportInv, HistoryInv, GitDir \/ Describe \/ RevParse \/ Count
    PROVE  AskedPieces' /\ ReportPieces'
<1>0. TagInv /\ AskedPieces /\ head \in Nat
  BY DEF CompareInv, HistoryInv
<1>1. ReportPieces' /\ UNCHANGED <<tagged, moved>>
  BY DEF GitDir, Describe, RevParse, Count, Ask, ReportPieces, Quiet, repository
<1>2. CASE GitDir
  <2>1. stage' = "describe"
    BY <1>2 DEF GitDir, Ask
  <2>2. QED
    BY <1>1, <2>1 DEF AskedPieces
<1>3. CASE Describe
  <2>1. stage' = "revparse"
    BY <1>3 DEF Describe, Ask
  <2>2. CASE {t \in TagSet : tagged[t] \in 1..head} = {}
    <3>1. pieces' = [NoPieces EXCEPT !.dirty = dirty] /\ head' = head
      BY <1>3, <2>2 DEF Describe, Learn, repository
    <3>2. pieces'.tag = ""
      BY <3>1 DEF NoPieces
    <3>3. QED
      BY <1>1, <2>1, <2>2, <3>1, <3>2 DEF AskedPieces, HasTag
  <2>3. CASE {t \in TagSet : tagged[t] \in 1..head} # {}
    <3>1. PICK t \in TagSet :
             /\ tagged[t] \in 1..head
             /\ \A u \in TagSet : tagged[u] \in 1..head => tagged[u] <= tagged[t]
             /\ pieces' = [NoPieces EXCEPT !.tag = t, !.distance = head - tagged[t],
                                           !.short = head, !.dirty = dirty]
      BY <1>3, <2>3 DEF Describe, Learn
    <3>2. pieces'.short = head /\ pieces'.tag = t /\ pieces'.distance = head - tagged[t]
      BY <3>1 DEF NoPieces
    <3>3. t # ""
      BY VersionAssumption DEF FixedTexts, HashTexts
    <3>4. QED
      BY <1>1, <2>1, <3>1, <3>2, <3>3 DEF AskedPieces, Nearest, Counted, HasTag
  <2>4. QED
    BY <2>2, <2>3
<1>4. CASE RevParse
  <2>1. /\ stage = "revparse" /\ stage' = IF HasTag(pieces) THEN "show" ELSE "count"
        /\ pieces' = [pieces EXCEPT !.long = head, !.short = IF HasTag(pieces) THEN @ ELSE head]
        /\ pieces \in Pieces
    BY <1>4 DEF RevParse, Ask, Learn, ReportInv, AskedInv
  <2>2. /\ pieces'.short = IF HasTag(pieces) THEN pieces.short ELSE head
        /\ pieces'.tag = pieces.tag /\ pieces'.distance = pieces.distance
    BY <2>1 DEF Pieces
  <2>3. ~moved => IF HasTag(pieces) THEN Nearest(pieces) /\ Counted(pieces)
                  ELSE \A t \in TagSet : tagged[t] \notin 1..head
    BY <1>0, <2>1 DEF AskedPieces
  <2>4. QED
    BY <1>1, <2>1, <2>2, <2>3 DEF AskedPieces, Nearest, Counted, HasTag
<1>5. CASE Count
  <2>1. /\ stage = "count" /\ stage' = "show" /\ pieces \in Pieces
        /\ pieces' = [pieces EXCEPT !.distance = head] /\ (~moved => pieces.short = head)
    BY <1>5 DEF Count, CommitCount, Ask, Learn, ReportInv, AskedInv
  <2>2. pieces'.short = pieces.short /\ pieces'.tag = pieces.tag /\ pieces'.distance = head
    BY <2>1 DEF Pieces
  <2>3. ~moved => Nearest(pieces) /\ ~HasTag(pieces)
    BY <1>0, <2>1 DEF AskedPieces
  <2>4. QED
    BY <1>1, <2>1, <2>2, <2>3 DEF AskedPieces, Nearest, Counted, HasTag
<1>6. QED
  BY <1>2, <1>3, <1>4, <1>5

\* The report is of what git has said, unless it is of keywords or of a name.
LEMMA EndingCompare ==
    ASSUME CompareInv, ReportInv, HistoryInv, ImportInv, Begin \/ Show \/ GitFails \/ GitFailsLate
    PROVE  AskedPieces' /\ ReportPieces'
<1>1. AskedPieces'
  BY DEF Begin, Show, GitFails, GitFailsLate, NextMethod, Finish, Ask, AskedPieces
<1>2. CASE Begin
  <2>1. ~Quiet'
    BY <1>2 DEF Begin, Ask, Quiet, IsExpanded, ReportInv, AskedInv, package
  <2>2. QED
    BY <1>1, <2>1 DEF ReportPieces
<1>3. CASE Show
  <2>0. pieces \in Pieces /\ head \in Nat /\ stage = "show"
    BY <1>3 DEF Show, ReportInv, AskedInv, HistoryInv
  <2>1. PICK p \in Pieces : p = [pieces EXCEPT !.date = head]
    BY <2>0, MorePieces
  <2>2. /\ p.tag = pieces.tag /\ p.distance = pieces.distance /\ p.short = pieces.short
        /\ p.long = pieces.long
    BY <2>0, <2>1 DEF Pieces
  <2>3. /\ report' = Report(Rendered(p), p.long, p.dirty, p.date)
        /\ UNCHANGED <<tagged, style, moved>>
    BY <1>3, <2>1 DEF Show, Finish, repository, package
  <2>4. ~moved => p.long = p.short /\ Nearest(p) /\ Counted(p)
    BY <2>0, <2>2 DEF CompareInv, AskedPieces, ReportInv, AskedInv, Nearest, Counted, HasTag
  <2>5. report'.version = Rendered(p) /\ report'.full = p.long /\ report'.dirty = p.dirty
    BY <2>3 DEF Report
  <2>6. Rendered(p)' = Rendered(p)
    BY <2>3 DEF Rendered
  <2>7. ~moved => (IsVersionOf(report, p) /\ Nearest(p) /\ Counted(p))'
    BY <2>3, <2>4, <2>5, <2>6 DEF IsVersionOf, Nearest, Counted
  <2>8. ReportPieces'
    BY <2>3, <2>7 DEF ReportPieces, Quiet
  <2>9. QED
    BY <1>1, <2>8
<1>4. CASE GitFails \/ GitFailsLate
  <2>1. ~Quiet'
    BY <1>4 DEF GitFails, GitFailsLate, NextMethod, Finish, Ask, FromParentdir, Report, Quiet
  <2>2. QED
    BY <1>1, <2>1 DEF ReportPieces
<1>5. QED
  BY <1>2, <1>3, <1>4

\* Beside an import only the end of a process touches a report, which is kept if it is
\* about the checkout; and whoever moves during an import is noticed.
LEMMA BesideCompare ==
    ASSUME CompareInv, ReportInv, HistoryInv, Develop \/ Release \/ UNCHANGED versionVars
    PROVE  AskedPieces' /\ ReportPieces' /\ (earlier' = earlier \/ Again)
<1>1. CASE Again
  BY <1>1 DEF Again, AskedPieces, ReportPieces, Quiet
<1>2. CASE UNCHANGED <<head, tagged, style, import, tree>>
  <2>1. AskedPieces' /\ earlier' = earlier
    BY <1>2 DEF CompareInv, AskedPieces, Nearest, Counted, HasTag, import
  <2>2. ReportPieces'
    <3>1. SUFFICES ASSUME Quiet'
                   PROVE  \E p \in Pieces : (IsVersionOf(report, p) /\ Nearest(p) /\ Counted(p))'
      BY DEF ReportPieces
    <3>2. Quiet
      BY <1>2, <3>1 DEF Quiet, import
    <3>3. PICK p \in Pieces : IsVersionOf(report, p) /\ Nearest(p) /\ Counted(p)
      BY <3>2 DEF CompareInv, ReportPieces
    <3>4. Rendered(p)' = Rendered(p)
      BY <1>2 DEF Rendered
    <3>5. QED
      BY <1>2, <3>3, <3>4 DEF IsVersionOf, Nearest, Counted, import
  <2>3. QED
    BY <2>1, <2>2
<1>3. CASE Works \/ (stage = "off" /\ UNCHANGED import)
  <2>1. stage' = stage /\ earlier' = earlier /\ (stage = "off" \/ (stage \in Asking /\ moved' = TRUE))
    BY <1>3 DEF Works, import
  <2>2. QED
    BY <2>1 DEF AskedPieces, ReportPieces, Quiet, Asking
<1>4. SetupStep \/ Configure => UNCHANGED <<head, tagged, style, import, tree>>
  BY DEF SetupStep, Configure, ReadConfig, OpenVersionFile, WriteVersionFile, AppendSnippet,
         Include, AddLine, GitAdd, GitAddFails, SetupStops, Touch, versionVars, repository, package
<1>5. Develop => Again \/ Works \/ (stage = "off" /\ UNCHANGED import)
  BY DEF Develop, Edit, MakeCommit, Checkout, MakeTag, Installation, Copy
<1>6. Release => SetupStep \/ Configure \/ Works \/ (stage = "off" /\ UNCHANGED import)
  BY DEF Release, Commit, MakeCommit, MakeTag, Archive, Copy
<1>7. QED
  BY <1>1, <1>2, <1>3, <1>4, <1>5, <1>6 DEF versionVars, repository, package

\* Every step keeps what the versions were made of.
LEMMA StepCompare ==
    ASSUME CompareInv, ReportInv, HistoryInv, ImportInv, [Next]_vars
    PROVE  CompareInv'
<1>1. Import \/ Develop \/ Release \/ UNCHANGED versionVars
  BY DEF Next, vars
<1>2. TagInv' /\ TagsStay
  BY <1>1, StepTags DEF CompareInv
<1>3. AskedPieces' /\ ReportPieces'
  BY <1>1, AskedCompare, EndingCompare, BesideCompare DEF Import
<1>4. CASE earlier' = earlier
  BY <1>2, <1>3, <1>4, EarlierStays DEF CompareInv
<1>5. CASE Again
  <2>1. CASE earlier' = report /\ Quiet
    <3>1. PICK p \in Pieces : IsVersionOf(report, p) /\ Counted(p)
      BY <2>1 DEF CompareInv, ReportPieces
    <3>2. (IsVersionOf(earlier, p) /\ Counted(p))'
      BY <1>2, <2>1, <3>1, VersionStays DEF IsVersionOf
    <3>3. QED
      BY <1>2, <1>3, <3>2 DEF CompareInv, EarlierPieces
  <2>2. QED
    BY <1>4, <1>5, <2>1 DEF Again, Quiet
<1>6. Import => earlier' = earlier
  BY DEF Import, Begin, GitDir, Describe, RevParse, Count, Show, GitFails, GitFailsLate
<1>7. QED
  BY <1>1, <1>4, <1>5, <1>6, BesideCompare

\* Both reports are versions of pieces that count from the same history.
LEMMA ReportsOfPieces == Spec => [](CompareInv /\ AskedInv)
<1> DEFINE IInv == ReleaseInv /\ ImportInv /\ ReportInv /\ CompareInv
<1>1. Init => IInv
  <2>1. Init => ReleaseInv /\ ImportInv /\ ReportInv
    BY InitRelease, InitReports
  <2>2. ASSUME Init PROVE CompareInv
    <3>1. PICK k \in Packages : VersionInit(k)
      BY <2>2 DEF Init
    <3>2. TagInv
      <4>1. tagged = [t \in TagSet |-> 0] /\ \A i \in DOMAIN Tag : Tag[i] \in TagSet
        BY <3>1 DEF VersionInit, TagSet
      <4>2. QED
        BY <4>1 DEF TagInv
    <3>3. AskedPieces /\ ReportPieces /\ EarlierPieces
      BY <3>1 DEF VersionInit, AskedPieces, ReportPieces, EarlierPieces, Quiet
    <3>4. QED
      BY <3>2, <3>3 DEF CompareInv
  <2>3. QED
    BY <2>1, <2>2
<1>2. IInv /\ [Next]_vars => IInv'
  <2>1. IInv /\ [Next]_vars => ReleaseInv' /\ ImportInv' /\ ReportInv'
    BY StepReports
  <2>2. IInv /\ [Next]_vars => CompareInv'
    BY StepCompare DEF ReleaseInv
  <2>3. QED
    BY <2>1, <2>2
<1>3. IInv => CompareInv /\ AskedInv
  BY DEF ReportInv
<1>4. QED
  BY <1>1, <1>2, <1>3, PTL DEF Spec

\* Of two versions that a checkout reports, that of the later commit is the higher one,
\* whatever was tagged in between (_version.py:290-301, 318-405).
THEOREM UpgradesAreNewer == Spec => []LaterIsNewer
<1>1. CompareInv /\ AskedInv => LaterIsNewer
  <2> SUFFICES ASSUME CompareInv, AskedInv, Quiet, earlier # NoReport, report.full > earlier.full,
                      style \notin {"git-describe", "git-describe-long"}
               PROVE  \/ Base(earlier.version) < Base(report.version)
                      \/ /\ Base(earlier.version) = Base(report.version)
                         /\ Distance(earlier.version) < Distance(report.version)
    BY DEF LaterIsNewer
  <2>1. PICK p \in Pieces : IsVersionOf(report, p) /\ Nearest(p) /\ Counted(p)
    BY DEF CompareInv, ReportPieces
  <2>2. PICK q \in Pieces : IsVersionOf(earlier, q) /\ Counted(q)
    BY DEF CompareInv, EarlierPieces
  <2>3. p.short > q.short
    BY <2>1, <2>2 DEF IsVersionOf
  <2>4. Fits(report.version, p) /\ Counts(report.version, p)
    BY <2>1, VersionSays DEF IsVersionOf, AskedInv
  <2>5. Fits(earlier.version, q) /\ Counts(earlier.version, q)
    BY <2>2, VersionSays DEF IsVersionOf, AskedInv
  <2>6. TagInv
    BY DEF CompareInv
  <2>7. QED
    BY <2>1, <2>2, <2>3, <2>4, <2>5, <2>6, LaterPieces
<1>2. QED
  BY <1>1, ReportsOfPieces, PTL

\* Two versions that a checkout reports differ when the commits or the edits do, in the
\* styles that leave neither out (_version.py:318-340, 359-383, 408-445).
THEOREM VersionsDiffer == Spec => []DistinctVersions
<1>1. CompareInv /\ AskedInv => DistinctVersions
  <2> SUFFICES ASSUME CompareInv, AskedInv, Quiet, earlier # NoReport,
                      report.version = earlier.version,
                      style \in {"", "default", "pep440", "pep440-post", "git-describe",
                                 "git-describe-long"}
               PROVE  report.full = earlier.full /\ report.dirty = earlier.dirty
    BY DEF DistinctVersions
  <2>1. PICK p \in Pieces : IsVersionOf(report, p) /\ Counted(p)
    BY DEF CompareInv, ReportPieces
  <2>2. PICK q \in Pieces : IsVersionOf(earlier, q) /\ Counted(q)
    BY DEF CompareInv, EarlierPieces
  <2>3. PICK v : v = report.version
    OBVIOUS
  <2>4. Fits(v, p) /\ Names(v, p) /\ Marks(v, p)
    BY <2>1, <2>3, VersionSays DEF IsVersionOf, AskedInv
  <2>5. Fits(v, q) /\ Names(v, q) /\ Marks(v, q)
    BY <2>2, <2>3, VersionSays DEF IsVersionOf, AskedInv
  <2>6. tagged \in [TagSet -> Nat]
    BY DEF CompareInv, TagInv
  <2>7. p.short = q.short /\ p.dirty = q.dirty
    BY <2>1, <2>2, <2>4, <2>5, <2>6, SamePieces
  <2>8. QED
    BY <2>1, <2>2, <2>7 DEF IsVersionOf
<1>2. QED
  BY <1>1, ReportsOfPieces, PTL
=============================================================================
