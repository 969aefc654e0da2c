-------------------------- MODULE SubfolderProofs ---------------------------
(***************************************************************************)
(* Theorems about Subfolder, for any number of processes, local folders,   *)
(* servers and kernel names.                                               *)
(***************************************************************************)
EXTENDS Subfolder, TLAPS

----------------------------------------------------------------------------
(* Type correctness.                                                       *)

\* NoEntry is an entry, and no id and server are NoEntry.
LEMMA EntryFacts ==
    /\ NoEntry \in Entry /\ NoEntries \in Contents
    /\ \A i \in Id, h \in Host :
          [id |-> i, host |-> h] \in Entry /\ [id |-> i, host |-> h] # NoEntry
    /\ \A e \in Entry : e # NoEntry => e.id \in Id /\ e.host \in Host
BY ConstantAssumption DEF Entry, Contents, NoEntry, NoEntries, Id

\* The initial values have their types.
LEMMA InitType == Init => TypeOK
BY EntryFacts DEF Init, TypeOK, Labels, Chosen

\* Leaving a step with other values of the variables of one process.
LEMMA ExitType ==
    ASSUME TypeOK, NEW p \in Process, Exit(p), UNCHANGED disks
    PROVE  TypeOK'
BY EntryFacts DEF TypeOK, Exit, Goto, disks, Labels, Chosen

\* A process that runs has been started with arguments.
LEMMA ArgsType ==
    ASSUME TypeOK, NEW p \in Process, pc[p] # "off"
    PROVE  args[p] \in Host \X Name /\ HostOf(p) \in Host /\ NameOf(p) \in Name
BY DEF TypeOK, HostOf, NameOf

\* A step of a process keeps the types, action by action.
LEMMA StepType ==
    ASSUME TypeOK, NEW p \in Process, Step(p)
    PROVE  TypeOK'
<1> USE DEF disks, Goto, Labels, Chosen
<1>0. LocalOf[p] \in Local
  BY ConstantAssumption
<1>1. CASE Start(p)
  <2>1. \A a \in Args[p] : a \in (Host \X Name) /\ a # NoArgs
    BY ConstantAssumption DEF NoArgs
  <2>2. QED
    BY <1>1, <2>1 DEF Start, TypeOK
<1>2. CASE ReadConfig(p)
  <2>1. NameOf(p) \in Name /\ args[p] # NoArgs
    BY <1>2, ArgsType DEF ReadConfig, TypeOK
  <2>2. entries[LocalOf[p]] \in Contents /\ entries[LocalOf[p]][NameOf(p)] \in Entry
    BY <1>0, <2>1 DEF TypeOK, Contents
  <2>3. QED
    BY <1>2, <2>1, <2>2 DEF ReadConfig, TypeOK, Known
<1>3. CASE ReadFails(p) \/ MakeFails(p) \/ Stop(p)
  BY <1>3, ExitType DEF ReadFails, MakeFails, Stop
<1>4. CASE CheckLocal(p) \/ MakeLocal(p)
  BY <1>0, <1>4 DEF CheckLocal, MakeLocal, TypeOK
<1>5. CASE CheckRoot(p) \/ MakeRoot(p)
  <2>1. HostOf(p) \in Host
    BY <1>5, ArgsType DEF CheckRoot, MakeRoot
  <2>2. QED
    BY <1>5, <2>1 DEF CheckRoot, MakeRoot, TypeOK
<1>6. ASSUME NEW i \in Id, ListFolders(p, i) PROVE TypeOK'
  <2>1. HostOf(p) \in Host
    BY <1>6, ArgsType DEF ListFolders
  <2>2. [id |-> i, host |-> HostOf(p)] \in Entry
        /\ [id |-> i, host |-> HostOf(p)] # NoEntry
    BY <2>1, EntryFacts
  <2>3. QED
    BY <1>6, <2>2 DEF ListFolders, TypeOK
<1>7. ASSUME MakeFolder(p), pc[p] \in {"makesub", "again", "remake"}
      PROVE  made' \in [Host -> [Id -> Local \cup {Nobody}]]
  <2>1. HostOf(p) \in Host /\ sub[p].id \in Id
    BY <1>7, ArgsType, EntryFacts DEF TypeOK
  <2>2. QED
    BY <1>0, <1>7, <2>1 DEF MakeFolder, TypeOK
<1>8. CASE MakeSub(p)
  <2>1. NameOf(p) \in Name
    BY <1>8, ArgsType DEF MakeSub
  <2>2. mine' \in [Process -> Contents]
    BY <1>8, <2>1 DEF MakeSub, TypeOK, Contents
  <2>3. QED
    BY <1>7, <1>8, <2>2 DEF MakeSub, TypeOK
<1>9. CASE OpenConfig(p)
  BY <1>0, <1>9, EntryFacts DEF OpenConfig, WriteFile, TypeOK
<1>10. CASE Dump(p)
  BY <1>0, <1>10, EntryFacts DEF Dump, WriteFile, TypeOK
<1>11. CASE CheckSub(p) \/ ChangeDir(p)
  BY <1>11 DEF CheckSub, ChangeDir, TypeOK
<1>12. CASE MakeSubAgain(p)
  BY <1>7, <1>12 DEF MakeSubAgain, TypeOK
<1>13. CASE CheckFails(p)
  <2>1. CASE Exit(p)
    BY <1>13, <2>1, ExitType DEF CheckFails
  <2>2. CASE ~Exit(p)
    BY <1>13, <2>2 DEF CheckFails, TypeOK
  <2>3. QED
    BY <2>1, <2>2
<1>14. QED
  BY <1>1, <1>2, <1>3, <1>4, <1>5, <1>6, <1>8, <1>9, <1>10, <1>11, <1>12,
     <1>13 DEF Step

\* So does every step.
LEMMA TypeInductive == TypeOK /\ [Next]_vars => TypeOK'
<1>1. TypeOK /\ UNCHANGED vars => TypeOK'
  BY DEF vars, disks, TypeOK
<1>2. QED
  BY <1>1, StepType DEF Next

\* Every variable keeps its type, and a process that makes, saves or uses a
\* sub-folder has chosen one (sync.py:130-152).
THEOREM TypeCorrect == Spec => []TypeOK
BY InitType, TypeInductive, PTL DEF Spec

----------------------------------------------------------------------------
(* Every entry leads to a sub-folder of its own local folder.              *)

Owned(e, l) == e # NoEntry => made[e.host][e.id] = l

\* What the processes have in memory is as good as what is in the files, and
\* the sub-folder exists before anybody saves or uses its entry.
OwnInv ==
    /\ \A l \in Local, n \in Name : Owned(entries[l][n], l)
    /\ \A p \in Process, n \in Name : Owned(mine[p][n], LocalOf[p])
    /\ \A p \in Process :
          /\ pc[p] \in {"open", "dump"} \cup Chosen
                => Owned(sub[p], LocalOf[p])
          /\ pc[p] = "makesub" => sub[p].host = HostOf(p)

\* Sub-folders are not taken away from the local folder they were made for.
LEMMA MadeStays ==
    ASSUME TypeOK, NEW p \in Process, Step(p),
           NEW l \in Local, NEW e \in Entry, Owned(e, l)
    PROVE  Owned(e, l)'
<1>1. \A h \in Host, i \in Id :
         made'[h][i] = made[h][i] \/ made[h][i] = Nobody
  <2>1. made' = made \/ (MakeFolder(p) /\ pc[p] \in {"makesub", "again", "remake"})
    BY DEF Step, Start, ReadConfig, ReadFails, CheckLocal, MakeLocal,
       CheckRoot, MakeRoot, ListFolders, MakeSub, MakeFails, OpenConfig,
       Dump, CheckSub, MakeSubAgain, CheckFails, ChangeDir, Stop, disks
  <2>2. ASSUME MakeFolder(p), pc[p] \in {"makesub", "again", "remake"},
               NEW h \in Host, NEW i \in Id
        PROVE  made'[h][i] = made[h][i] \/ made[h][i] = Nobody
    <3>1. HostOf(p) \in Host /\ sub[p].id \in Id
      BY <2>2, ArgsType, EntryFacts DEF TypeOK, Chosen
    <3>2. QED
      BY <2>2, <3>1 DEF MakeFolder, Exists, TypeOK
  <2>3. QED
    BY <2>1, <2>2
<1>2. l # Nobody
  BY ConstantAssumption
<1>3. e # NoEntry => e.id \in Id /\ e.host \in Host
  BY EntryFacts
<1>4. QED
  BY <1>1, <1>2, <1>3 DEF Owned

\* The entries of contents are entries.
LEMMA ContentsType ==
    ASSUME TypeOK
    PROVE  /\ \A l \in Local, n \in Name : entries[l][n] \in Entry
           /\ \A p \in Process, n \in Name : mine[p][n] \in Entry
           /\ \A p \in Process : sub[p] \in Entry /\ LocalOf[p] \in Local
BY ConstantAssumption DEF TypeOK, Contents

\* OwnInv survives a step whose process has only owned entries afterwards.
LEMMA OwnStep ==
    ASSUME TypeOK, OwnInv, NEW p \in Process, Step(p),
           \A q \in Process : q # p =>
               /\ pc'[q] = pc[q] /\ args'[q] = args[q]
               /\ mine'[q] = mine[q] /\ sub'[q] = sub[q],
           \A n \in Name : Owned(mine[p][n], LocalOf[p])',
           pc'[p] \in {"open", "dump"} \cup Chosen
               => Owned(sub[p], LocalOf[p])',
           pc'[p] = "makesub" => sub'[p].host = args'[p][1],
           \A l \in Local, n \in Name :
               Owned(entries[l][n], l)' \/ entries'[l][n] = entries[l][n]
    PROVE  OwnInv'
<1>1. \A l \in Local, n \in Name : Owned(entries[l][n], l)'
  BY MadeStays, ContentsType DEF OwnInv, Owned
<1>2. \A q \in Process, n \in Name : Owned(mine[q][n], LocalOf[q])'
  BY MadeStays, ContentsType DEF OwnInv, Owned
<1>3. ASSUME NEW q \in Process,
             pc'[q] \in {"open", "dump"} \cup Chosen
      PROVE  Owned(sub[q], LocalOf[q])'
  BY <1>3, MadeStays, ContentsType DEF OwnInv, Owned
<1>4. ASSUME NEW q \in Process, pc'[q] = "makesub"
      PROVE  sub'[q].host = args'[q][1]
  BY <1>4 DEF OwnInv, HostOf
<1>5. QED
  BY <1>1, <1>2, <1>3, <1>4 DEF OwnInv, HostOf

\* Sub-folders come before entries: a process remembers a sub-folder when it
\* has made it, and saves what it remembers.
LEMMA OwnSync ==
    ASSUME TypeOK, OwnInv, NEW p \in Process, Step(p)
    PROVE  OwnInv'
<1> USE DEF Goto, disks, Chosen
<1>0. /\ LocalOf[p] \in Local
      /\ pc \in [Process -> Labels] /\ args \in [Process -> (Host \X Name) \cup {NoArgs}]
      /\ mine \in [Process -> Contents] /\ sub \in [Process -> Entry]
      /\ entries \in [Local -> Contents]
  BY ConstantAssumption DEF TypeOK
<1>1. \A q \in Process : q # p =>
         /\ pc'[q] = pc[q] /\ args'[q] = args[q]
         /\ mine'[q] = mine[q] /\ sub'[q] = sub[q]
  BY <1>0 DEF Step, Start, ReadConfig, ReadFails, CheckLocal, MakeLocal,
     CheckRoot, MakeRoot, ListFolders, MakeSub, MakeFails, OpenConfig, Dump,
     CheckSub, MakeSubAgain, CheckFails, ChangeDir, Stop, Exit
<1>2. \A n \in Name : Owned(NoEntries[n], LocalOf[p])'
  BY DEF NoEntries, Owned
<1>3. \A n \in Name : Owned(mine[p][n], LocalOf[p])'
                      \/ mine'[p][n] # mine[p][n]
  BY <1>0, MadeStays, ContentsType DEF OwnInv, Owned
<1>4. Owned(sub[p], LocalOf[p]) => (sub'[p] = sub[p] => Owned(sub[p], LocalOf[p])')
  BY <1>0, MadeStays, ContentsType DEF Owned
<1>5. CASE Exit(p) /\ UNCHANGED disks
  <2>1. mine'[p] = NoEntries /\ pc'[p] = "off"
    BY <1>0, <1>5 DEF Exit
  <2>2. \A n \in Name : Owned(mine[p][n], LocalOf[p])'
    BY <1>2, <2>1 DEF Owned
  <2>3. QED
    BY <1>1, <1>5, <2>1, <2>2, OwnStep
<1>6. CASE \/ Start(p) \/ CheckLocal(p) \/ MakeLocal(p) \/ CheckRoot(p)
           \/ MakeRoot(p)
  <2>1. mine' = mine /\ entries' = entries
        /\ pc'[p] \in {"read", "makelocal", "root", "makeroot", "list"}
    BY <1>0, <1>6 DEF Start, CheckLocal, MakeLocal, CheckRoot, MakeRoot
  <2>2. QED
    BY <1>1, <1>3, <2>1, OwnStep
<1>7. CASE ReadConfig(p)
  <2>1. NameOf(p) \in Name
    BY <1>7, ArgsType DEF ReadConfig
  <2>2. /\ entries' = entries /\ made' = made
        /\ \/ pc'[p] = "local" /\ mine'[p] = entries[LocalOf[p]]
           \/ pc'[p] = "check" /\ mine'[p] = mine[p]
        /\ sub'[p] = entries[LocalOf[p]][NameOf(p)]
    BY <1>0, <1>7 DEF ReadConfig
  <2>3. \A n \in Name : Owned(mine[p][n], LocalOf[p])'
    BY <1>0, <1>3, <2>2 DEF OwnInv, Owned
  <2>4. Owned(sub[p], LocalOf[p])'
    BY <1>0, <2>1, <2>2 DEF OwnInv, Owned
  <2>5. QED
    BY <1>1, <2>2, <2>3, <2>4, OwnStep
<1>8. ASSUME NEW i \in Id, ListFolders(p, i) PROVE OwnInv'
  <2>1. /\ mine' = mine /\ entries' = entries /\ pc'[p] = "makesub"
        /\ sub'[p].host = args'[p][1]
    BY <1>0, <1>8 DEF ListFolders, HostOf
  <2>2. QED
    BY <1>1, <1>3, <2>1, OwnStep
<1>9. CASE MakeSub(p)
  <2>1. HostOf(p) \in Host /\ NameOf(p) \in Name /\ sub[p].id \in Id
    BY <1>9, ArgsType, EntryFacts DEF MakeSub, TypeOK
  <2>2. sub[p].host = HostOf(p)
    BY <1>9 DEF MakeSub, OwnInv
  <2>3. made'[HostOf(p)][sub[p].id] = LocalOf[p]
    BY <1>9, <2>1 DEF MakeSub, MakeFolder, TypeOK
  <2>4. /\ entries' = entries /\ pc'[p] = "open" /\ sub'[p] = sub[p]
        /\ \A n \in Name : mine'[p][n] \in {mine[p][n], sub[p]}
    BY <1>0, <1>9, <2>1 DEF MakeSub, Contents
  <2>5. Owned(sub[p], LocalOf[p])'
    BY <2>2, <2>3, <2>4 DEF Owned
  <2>6. \A n \in Name : Owned(mine[p][n], LocalOf[p])'
    BY <1>3, <2>4, <2>5 DEF Owned
  <2>7. QED
    BY <1>1, <2>4, <2>5, <2>6, OwnStep
<1>10. CASE OpenConfig(p)
  <2>1. /\ mine' = mine /\ made' = made /\ sub' = sub
        /\ pc[p] = "open" /\ pc'[p] = "dump"
        /\ \A l \in Local : entries'[l] \in {entries[l], NoEntries}
    BY <1>0, <1>10 DEF OpenConfig, WriteFile
  <2>2. Owned(sub[p], LocalOf[p])'
    BY <1>4, <2>1 DEF OwnInv
  <2>3. \A l \in Local, n \in Name :
           Owned(entries[l][n], l)' \/ entries'[l][n] = entries[l][n]
    BY <2>1 DEF Owned, NoEntries
  <2>4. QED
    BY <1>1, <1>3, <2>1, <2>2, <2>3, OwnStep
<1>11. CASE Dump(p)
  <2>1. /\ made' = made /\ sub' = sub
        /\ pc[p] = "dump" /\ pc'[p] = "ready" /\ mine'[p] = NoEntries
        /\ \A l \in Local :
              \/ entries'[l] \in {entries[l], NoEntries}
              \/ l = LocalOf[p] /\ entries'[l] = mine[p]
    BY <1>0, <1>11 DEF Dump, WriteFile
  <2>2. Owned(sub[p], LocalOf[p])'
    BY <1>4, <2>1 DEF OwnInv
  <2>3. \A l \in Local, n \in Name :
           Owned(entries[l][n], l)' \/ entries'[l][n] = entries[l][n]
    BY <2>1 DEF Owned, NoEntries, OwnInv
  <2>4. \A n \in Name : Owned(mine[p][n], LocalOf[p])'
    BY <1>2, <2>1 DEF Owned
  <2>5. QED
    BY <1>1, <2>1, <2>2, <2>3, <2>4, OwnStep
<1>12. CASE \/ CheckSub(p) \/ MakeSubAgain(p) \/ ChangeDir(p)
            \/ CheckFails(p) /\ ~Exit(p)
  <2>1. /\ mine' = mine /\ sub' = sub /\ entries' = entries
        /\ pc[p] \in Chosen /\ pc'[p] # "makesub"
    BY <1>0, <1>12 DEF CheckSub, MakeSubAgain, CheckFails, ChangeDir
  <2>2. Owned(sub[p], LocalOf[p])'
    BY <1>4, <2>1 DEF OwnInv
  <2>3. QED
    BY <1>1, <1>3, <2>1, <2>2, OwnStep
<1>13. CASE ReadFails(p) \/ MakeFails(p) \/ Stop(p) \/ (CheckFails(p) /\ Exit(p))
  BY <1>5, <1>13 DEF ReadFails, MakeFails, Stop, CheckFails
<1>14. QED
  BY <1>6, <1>7, <1>8, <1>9, <1>10, <1>11, <1>12, <1>13 DEF Step

\* OwnInv is inductive.
LEMMA OwnInductive == TypeOK /\ OwnInv /\ [Next]_vars => OwnInv'
<1>1. TypeOK /\ OwnInv /\ UNCHANGED vars => OwnInv'
  BY DEF vars, disks, OwnInv, Owned, HostOf
<1>2. QED
  BY <1>1, OwnSync DEF Next

\* At first nobody has an entry.
LEMMA OwnInit == Init => OwnInv
BY ConstantAssumption DEF Init, OwnInv, Owned, NoEntries, NoEntry

\* The configuration file of a local folder never names a sub-folder that was
\* made for another one, or was never made (sync.py:147-150).
THEOREM EntriesLeadHome == Spec => []EntriesOwned
<1>1. OwnInv => EntriesOwned
  BY DEF OwnInv, EntriesOwned, Owned
<1>2. QED
  BY <1>1, OwnInit, OwnInductive, TypeCorrect, PTL DEF Spec

----------------------------------------------------------------------------
(* Subfolder implements Allocation.                                        *)

\* A step concerns one process.
LEMMA OthersUse ==
    ASSUME TypeOK, NEW p \in Process, Step(p), NEW q \in Process, q # p
    PROVE  uses'[q] = uses[q]
<1>1. /\ pc \in [Process -> Labels]
      /\ args \in [Process -> (Host \X Name) \cup {NoArgs}]
      /\ sub \in [Process -> Entry]
  BY DEF TypeOK
<1>2. pc'[q] = pc[q] /\ args'[q] = args[q] /\ sub'[q] = sub[q]
  BY <1>1 DEF Step, Start, ReadConfig, ReadFails, CheckLocal, MakeLocal,
     CheckRoot, MakeRoot, ListFolders, MakeSub, MakeFails, OpenConfig, Dump,
     CheckSub, MakeSubAgain, CheckFails, ChangeDir, Stop, Exit, Goto
<1>3. QED
  BY <1>2 DEF uses, AtHome, HostOf

\* The sub-folder of a process at home is one of its own local folder.
InOwn(p) ==
    uses[p] \in Folder /\ uses[p] # Nothing /\ owner[uses[p]] = LocalOf[p]

LEMMA HomeOwned ==
    TypeOK /\ OwnInv => \A p \in Process : AtHome(p) => InOwn(p)
<1> SUFFICES ASSUME TypeOK, OwnInv, NEW p \in Process, AtHome(p)
             PROVE  InOwn(p)
  OBVIOUS
<1>1. HostOf(p) \in Host /\ sub[p].id \in Id /\ sub[p] # NoEntry
  BY ArgsType, EntryFacts DEF AtHome, TypeOK, Chosen
<1>2. made[HostOf(p)][sub[p].id] = LocalOf[p]
  BY <1>1 DEF AtHome, OwnInv, Owned, Chosen
<1>3. QED
  BY <1>1, <1>2, ConstantAssumption
  DEF InOwn, uses, owner, Folder, Nothing, NoArgs

\* This holds in the next state too.
LEMMA HomeOwnedNext ==
    (TypeOK /\ OwnInv)' => (\A p \in Process : AtHome(p) => InOwn(p))'
BY HomeOwned, PTL

\* mkdir() claims a sub-folder nobody had.
LEMMA MakeClaims ==
    ASSUME TypeOK, NEW p \in Process, MakeFolder(p),
           pc[p] \in {"makesub", "again", "remake"}, uses' = uses
    PROVE  Promise!Next
<1> DEFINE f == <<HostOf(p), sub[p].id>>
<1>1. HostOf(p) \in Host /\ sub[p].id \in Id
  BY ArgsType, EntryFacts DEF TypeOK, Chosen
<1>2. f \in Folder /\ owner[f] = Nobody
  BY <1>1 DEF MakeFolder, Exists, owner, Folder
<1>3. ASSUME NEW g \in Folder
      PROVE  owner'[g] = IF g = f THEN LocalOf[p] ELSE owner[g]
  <2>1. g[1] \in Host /\ g[2] \in Id /\ g = <<g[1], g[2]>>
    BY DEF Folder
  <2>2. made'[g[1]][g[2]] = IF g[1] = HostOf(p) /\ g[2] = sub[p].id
                            THEN LocalOf[p] ELSE made[g[1]][g[2]]
    BY <1>1, <2>1 DEF MakeFolder, TypeOK
  <2>3. QED
    BY <2>1, <2>2 DEF owner
<1>4. owner' = [owner EXCEPT ![f] = LocalOf[p]]
  BY <1>3 DEF owner
<1>5. QED
  BY <1>2, <1>4 DEF Promise!Next, Promise!Claim

\* Every step is a step of Allocation or none.
LEMMA StepImplements ==
    ASSUME TypeOK, OwnInv, TypeOK', OwnInv', NEW p \in Process, Step(p)
    PROVE  Promise!Next \/ UNCHANGED <<owner, uses>>
<1>0. pc \in [Process -> Labels] /\ LocalOf[p] # Nobody
  BY ConstantAssumption DEF TypeOK
<1>1. uses' = [uses EXCEPT ![p] = uses'[p]]
  BY OthersUse DEF uses
<1>2. CASE AtHome(p)
  <2>1. pc[p] = "ready"
    BY <1>2 DEF AtHome
  <2>2. Stop(p)
    BY <2>1 DEF Step, Start, ReadConfig, ReadFails, CheckLocal, MakeLocal,
       CheckRoot, MakeRoot, ListFolders, MakeSub, MakeFails, OpenConfig, Dump,
       CheckSub, MakeSubAgain, CheckFails, ChangeDir
  <2>3. pc'[p] = "off" /\ made' = made
    BY <1>0, <2>2 DEF Stop, Exit, Goto, disks
  <2>4. uses'[p] = Nothing /\ owner' = owner
    BY <2>3 DEF uses, owner, AtHome, Nothing
  <2>5. QED
    BY <1>1, <1>2, <2>4, HomeOwned DEF InOwn, Promise!Next, Promise!Leave
<1>3. CASE ~AtHome(p) /\ AtHome(p)'
  <2>1. pc[p] # "ready" /\ pc'[p] = "ready"
    BY <1>0, <1>3 DEF Step, Start, ReadConfig, ReadFails, CheckLocal,
       MakeLocal, CheckRoot, MakeRoot, ListFolders, MakeSub, MakeFails,
       OpenConfig, Dump, CheckSub, MakeSubAgain, CheckFails, ChangeDir, Stop,
       Exit, Goto, AtHome
  <2>2. Dump(p) \/ CheckSub(p) \/ ChangeDir(p) \/ MakeSubAgain(p)
    BY <1>0, <2>1 DEF Step, Start, ReadConfig, ReadFails, CheckLocal,
       MakeLocal, CheckRoot, MakeRoot, ListFolders, MakeSub, MakeFails,
       OpenConfig, CheckFails, Stop, Exit, Goto
  <2>3. CASE MakeSubAgain(p)
    <3>1. sub'[p] = sub[p] /\ args' = args
      BY <2>3 DEF MakeSubAgain
    <3>2. sub[p].host = HostOf(p) /\ sub[p] # NoEntry
      BY <1>3, <2>3, <3>1 DEF AtHome, HostOf, MakeSubAgain, TypeOK, Chosen
    <3>3. made[HostOf(p)][sub[p].id] = LocalOf[p]
      BY <2>3, <3>2 DEF MakeSubAgain, OwnInv, Owned, Chosen
    <3>4. QED
      BY <1>0, <2>3, <3>3 DEF MakeSubAgain, MakeFolder, Exists
  <2>4. CASE Dump(p) \/ CheckSub(p) \/ ChangeDir(p)
    <3>1. made' = made
      BY <2>4 DEF Dump, CheckSub, ChangeDir, disks
    <3>2. owner' = owner
      BY <3>1 DEF owner
    <3>3. (\A q \in Process : AtHome(q) => InOwn(q))'
      BY HomeOwnedNext
    <3>4. uses[p] = Nothing
      BY <1>3 DEF uses
    <3>5. QED
      BY <1>1, <1>3, <3>2, <3>3, <3>4 DEF InOwn, Promise!Next, Promise!Enter
  <2>5. QED
    BY <2>2, <2>3, <2>4
<1>4. CASE ~AtHome(p) /\ ~AtHome(p)'
  <2>1. uses' = uses
    BY <1>1, <1>4 DEF uses
  <2>2. made' = made \/ (MakeFolder(p) /\ pc[p] \in {"makesub", "again", "remake"})
    BY DEF Step, Start, ReadConfig, ReadFails, CheckLocal, MakeLocal,
       CheckRoot, MakeRoot, ListFolders, MakeSub, MakeFails, OpenConfig,
       Dump, CheckSub, MakeSubAgain, CheckFails, ChangeDir, Stop, disks
  <2>3. made' = made => owner' = owner
    BY DEF owner
  <2>4. QED
    BY <2>1, <2>2, <2>3, MakeClaims
<1>5. QED
  BY <1>2, <1>3, <1>4

\* Processes that work on the server their entry was made for only work in
\* sub-folders of their own local folder, and every one of these belongs to
\* one local folder (sync.py:130-152).
THEOREM Implements == Spec => ImplementsAllocation
<1>1. Init => Promise!Init
  BY DEF Init, Promise!Init, owner, uses, AtHome, Folder
<1>2. /\ TypeOK /\ OwnInv /\ TypeOK' /\ OwnInv' /\ [Next]_vars
      => [Promise!Next]_<<owner, uses>>
  <2>1. UNCHANGED vars => UNCHANGED <<owner, uses>>
    BY DEF vars, disks, owner, uses, AtHome, HostOf
  <2>2. QED
    BY <2>1, StepImplements DEF Next
<1>3. QED
  BY <1>1, <1>2, OwnInit, OwnInductive, TypeCorrect, PTL
  DEF Spec, ImplementsAllocation, Promise!Spec
=============================================================================
