----------------------------- MODULE Packaging ------------------------------
(***************************************************************************)
(* versioneer.py setup: what prepares a checkout so that archives of it    *)
(* know their version.  It writes _version.py, appends to __init__.py,     *)
(* MANIFEST.in and .gitattributes and adds the files to git; it may be     *)
(* stopped anywhere and is run again, and the developer commits.           *)
(***************************************************************************)
EXTENDS Version

VARIABLES
    config,         \* setup.cfg: without the section, with the sample, or "ok"
    versionFile,    \* _version.py: "torn" or "whole"
    appended,       \* how often the snippet was appended to __init__.py
    manifest,       \* the files that MANIFEST.in includes
    attributes,     \* .gitattributes has the line for _version.py
    staged,         \* the index of git has it
    step,           \* where do_setup() stands
    toAdd,          \* .gitattributes is one of the files to add
    slipped,        \* history: a run left the line out of the index
    ripe            \* history: the commits after a run that ended and did not slip

files == <<versionFile, appended, manifest>>
setupVars == <<config, files, attributes, staged, step, toAdd, slipped, ripe>>

Includes == {"versioneer.py", "_version.py"}
Running == {"open", "write", "snippet", "versioneer.py", "_version.py", "line", "add"}

\* A missing section is appended as a sample, in which every line is a comment:
\* the next run finds no option in it.
ReadConfig ==
    /\ step \notin Running /\ stage = "off" /\ tree = "checkout"
    /\ IF config = "ok" THEN step' = "open" /\ UNCHANGED config
       ELSE step' = "failed" /\ config' = "sample"
    /\ UNCHANGED <<files, attributes, staged, toAdd, slipped, ripe, versionVars>>

Configure ==
    /\ config = "sample" /\ step \notin Running /\ config' = "ok"
    /\ UNCHANGED <<files, attributes, staged, step, toAdd, slipped, ripe, versionVars>>

\* A file of the work tree is written.
Touch(label) ==
    /\ step' = label /\ dirty' = TRUE
    /\ UNCHANGED <<config, staged, slipped, ripe, top, head, tagged, branch, subst, package, import>>

\* open() with mode 'w' and then the text.
OpenVersionFile ==
    /\ step = "open" /\ versionFile' = "torn" /\ Touch("write")
    /\ UNCHANGED <<appended, manifest, attributes, toAdd>>

WriteVersionFile ==
    /\ step = "write" /\ versionFile' = "whole" /\ Touch("snippet")
    /\ UNCHANGED <<appended, manifest, attributes, toAdd>>

\* Mutant: the snippet is compared with the wrong text.
NotFound == TRUE

\* The import in this repository's __init__.py has a comment behind it, which makes
\* it another text than the snippet.
LacksSnippet == appended = 0

AppendSnippet ==
    /\ step = "snippet" /\ Touch("versioneer.py")
    /\ appended' = IF LacksSnippet THEN appended + 1 ELSE appended
    /\ UNCHANGED <<versionFile, manifest, attributes, toAdd>>

Include(file, label) ==
    /\ step = file /\ Touch(label) /\ manifest' = manifest \cup {file}
    /\ UNCHANGED <<versionFile, appended, attributes, toAdd>>

\* Mutant: .gitattributes is forgotten.
Forgotten == FALSE

IsNew == ~attributes

\* A line that is there is taken to be known to git.
AddLine ==
    /\ step = "line" /\ Touch("add") /\ attributes' = TRUE /\ toAdd' = IsNew
    /\ UNCHANGED files

\* The line is in the work tree only.
Slip == slipped' = (slipped \/ (attributes /\ ~staged))

GitAdd ==
    /\ step = "add" /\ step' = "done" /\ staged' = (staged \/ toAdd) /\ toAdd' = FALSE
    /\ UNCHANGED <<config, files, attributes, slipped, ripe, versionVars>>

\* Nobody looks at the result of git add.
GitAddFails ==
    /\ step = "add" /\ step' = "done" /\ toAdd' = FALSE /\ Slip
    /\ UNCHANGED <<config, files, attributes, staged, ripe, versionVars>>

SetupStops ==
    /\ step \in Running /\ step' = "failed" /\ toAdd' = FALSE /\ Slip
    /\ UNCHANGED <<config, files, attributes, staged, ripe, versionVars>>

\* git commit, with -a or of the index.  Nobody commits a package that cannot be
\* imported.
Commit(all) ==
    /\ step \notin Running /\ versionFile = "whole"
    /\ staged' = IF all THEN attributes ELSE staged
    /\ MakeCommit(staged', staged' # attributes)
    /\ slipped' = (slipped /\ ~all)
    /\ ripe' = IF step = "done" /\ ~slipped' THEN ripe \cup {top + 1} ELSE ripe
    /\ UNCHANGED <<config, files, attributes, step, toAdd>>

SetupInit ==
    /\ config \in {"none", "ok"} /\ versionFile = "whole" /\ appended = 0 /\ manifest = {}
    /\ attributes = FALSE /\ staged = FALSE /\ step = "off" /\ toAdd = FALSE
    /\ slipped = FALSE /\ ripe = {}

SetupStep ==
    \/ ReadConfig \/ OpenVersionFile \/ WriteVersionFile \/ AppendSnippet
    \/ Include("versioneer.py", "_version.py") \/ Include("_version.py", "line")
    \/ AddLine \/ GitAdd \/ GitAddFails \/ SetupStops

Release ==
    \/ SetupStep \/ Configure
    \/ \E all \in BOOLEAN : Commit(all)
    \/ \E i \in DOMAIN Tag : MakeTag(i) /\ UNCHANGED setupVars
    \/ \E where \in {"inside", "outside"}, marks \in BOOLEAN :
          Archive(where, marks) /\ UNCHANGED setupVars

----------------------------------------------------------------------------
(* Properties                                                              *)

PackagingTypeOK ==
    /\ config \in {"none", "sample", "ok"} /\ versionFile \in {"torn", "whole"}
    /\ manifest \subseteq Includes /\ step \in Running \cup {"off", "failed", "done"}
    /\ ripe \subseteq Commits /\ staged => attributes
    /\ step \in Running => config = "ok"

\* However often setup was stopped and run again, the run that ends leaves every
\* file as one run leaves it: _version.py whole, the snippet once in __init__.py,
\* both files in MANIFEST.in and the line in .gitattributes
\* (versioneer.py:1709-1772, 1137-1152).
SetupSettles ==
    /\ appended \in {0, 1}
    /\ step = "done" =>
          versionFile = "whole" /\ appended = 1 /\ manifest = Includes /\ attributes

\* An archive of a commit made after a run that ended well reports that commit,
\* wherever it lies, unless git add failed or a run was stopped after the line was
\* written: the next run takes the line for known and does not add it
\* (versioneer.py:1137-1152, _version.py:178-216).
ArchiveReportsCommit ==
    stage = "done" /\ tree # "checkout" /\ code \in ripe => report.full = code
=============================================================================
