------------------------------- MODULE PartMet -------------------------------
(***************************************************************************)
(* The .part.met files of the temp directory: CPartFile::SavePartFile,     *)
(* which replaces NNN.part.met by writing NNN.part.met.tmp and renaming    *)
(* twice, CPartFile::CreatePartFile, which picks the number NNN, and       *)
(* CDownloadQueue::LoadMetFiles, which reads the directory at the start.   *)
(*                                                                         *)
(* A .met is abstracted to the download it describes, the version of that  *)
(* download's state it holds and whether it is whole.  The program may     *)
(* crash between any two operations on files; what was written stays, so   *)
(* this is the death of the process, not a power failure.  Removing a file *)
(* succeeds: the code logs a failure and goes on.                          *)
(***************************************************************************)
EXTENDS Naturals

CONSTANTS
  Files,            \* downloads, each created at most once
  NSlots,           \* numbers NNN available
  Absent,           \* the content of a file that does not exist
  MaxVersion,       \* bound: changes of a download's state
  MaxCrashes,       \* bound: crashes
  MaxWriteErrors,   \* bound: failing or empty writes of a .tmp
  MaxRenameErrors   \* bound: failing renames

Slots == 1..NSlots

ASSUME PartMetConstants ==
  /\ NSlots \in Nat
  /\ MaxVersion \in Nat /\ MaxCrashes \in Nat
  /\ MaxWriteErrors \in Nat /\ MaxRenameErrors \in Nat
  /\ Absent \notin Files
  /\ Absent \notin Slots
  /\ Absent \notin [file : Files, version : Nat, whole : BOOLEAN]

VARIABLES
  met, bak, tmp,    \* what NNN.part.met, .bak and .tmp hold
  part,             \* whose data NNN.part holds
  home,             \* the number a download was given (m_fullname), until
                    \* Delete() has removed all its files
  live,             \* the downloads in memory
  version,          \* the state of each download in memory
  m_metDirty,       \* downloads changed since their last save
  saved,            \* history: the version SavePartFile last returned true for
  installed,        \* history: downloads that ever had a .part.met
  removed,          \* downloads the user deleted
  pc, saver,        \* where SavePartFile is, and for which download
  crashes, writeErrors, renameErrors

dirVars   == <<met, bak, tmp, part>>
boundVars == <<crashes, writeErrors, renameErrors>>
vars == <<dirVars, home, live, version, m_metDirty, saved, installed, removed,
          pc, saver, boundVars>>

Copies == [file : Files, version : Nat, whole : BOOLEAN]

Init ==
  /\ met = [s \in Slots |-> Absent]
  /\ bak = [s \in Slots |-> Absent]
  /\ tmp = [s \in Slots |-> Absent]
  /\ part = [s \in Slots |-> Absent]
  /\ home = [f \in Files |-> Absent]
  /\ live = {}
  /\ version = [f \in Files |-> 0]
  /\ m_metDirty = {}
  /\ saved = [f \in Files |-> 0]
  /\ installed = {}
  /\ removed = {}
  /\ pc = "idle"
  /\ saver \in Files
  /\ crashes = 0 /\ writeErrors = 0 /\ renameErrors = 0

------------------------------------------------------------------------------
\* Mutant: the first number, taken or not.
FirstNumber(s) == s = 1

\* The lowest number without a .part.met.
LowestFree(s) ==
  met[s] = Absent /\ \A r \in Slots : met[r] = Absent => s <= r

\* CreatePartFile: the .part file is created, over whatever was there, and
\* the .met saved for the first time.
CreatePartFile(f) ==
  /\ pc = "idle"
  /\ home[f] = Absent /\ f \notin removed
  /\ \E s \in Slots :
       /\ LowestFree(s)
       /\ home' = [home EXCEPT ![f] = s]
       /\ part' = [part EXCEPT ![s] = f]
  /\ live' = live \cup {f}
  /\ version' = [version EXCEPT ![f] = 1]
  /\ pc' = "open" /\ saver' = f
  /\ UNCHANGED <<met, bak, tmp, m_metDirty, saved, installed, removed, boundVars>>

\* MarkMetDirty with a change of the gap list, the priority, ...
Change(f) ==
  /\ pc = "idle" /\ f \in live
  /\ version[f] < MaxVersion
  /\ version' = [version EXCEPT ![f] = @ + 1]
  /\ m_metDirty' = m_metDirty \cup {f}
  /\ UNCHANGED <<dirVars, home, live, saved, installed, removed, pc, saver, boundVars>>

\* FlushBuffer saves a dirty download.
SavePartFile(f) ==
  /\ pc = "idle" /\ f \in live /\ f \in m_metDirty
  /\ pc' = "open" /\ saver' = f
  /\ UNCHANGED <<dirVars, home, live, version, m_metDirty, saved, installed, removed,
                 boundVars>>

Home == home[saver]

\* Opening the .tmp empties it.
SaveOpen ==
  /\ pc = "open" /\ part[Home] # Absent
  /\ tmp' = [tmp EXCEPT ![Home] =
               [file |-> saver, version |-> version[saver], whole |-> FALSE]]
  /\ pc' = "write"
  /\ UNCHANGED <<met, bak, part, home, live, version, m_metDirty, saved,
                 installed, removed, saver, boundVars>>

SaveWrite ==
  /\ pc = "write"
  /\ tmp' = [tmp EXCEPT ![Home] =
               [file |-> saver, version |-> version[saver], whole |-> TRUE]]
  /\ pc' = "backup"
  /\ UNCHANGED <<met, bak, part, home, live, version, m_metDirty, saved,
                 installed, removed, saver, boundVars>>

\* Mutant: no look at the length of what was written.
InstallAnyway == pc' = "backup" /\ UNCHANGED tmp

\* No .part file, an exception, or a .tmp of no length: remove the .tmp and
\* give up.
Abandon == pc' = "idle" /\ tmp' = [tmp EXCEPT ![Home] = Absent]

SaveFails ==
  /\ pc \in {"open", "write"}
  /\ \/ part[Home] = Absent /\ UNCHANGED writeErrors
     \/ writeErrors < MaxWriteErrors /\ writeErrors' = writeErrors + 1
  /\ Abandon
  /\ UNCHANGED <<met, bak, part, home, live, version, m_metDirty, saved,
                 installed, removed, saver, crashes, renameErrors>>

\* The outcome of a rename is not looked at.
RenameFails == renameErrors < MaxRenameErrors /\ renameErrors' = renameErrors + 1

\* Mutant: the old .met is deleted rather than renamed.
DropOld ==
  met' = [met EXCEPT ![Home] = Absent] /\ bak' = [bak EXCEPT ![Home] = Absent]

\* rename(.part.met, .part.met.bak)
Promote ==
  met' = [met EXCEPT ![Home] = Absent] /\ bak' = [bak EXCEPT ![Home] = met[Home]]

SaveBackup ==
  /\ pc = "backup"
  /\ \/ met[Home] # Absent /\ Promote /\ UNCHANGED renameErrors
     \/ met[Home] = Absent /\ UNCHANGED <<met, bak, renameErrors>>
     \/ met[Home] # Absent /\ RenameFails /\ UNCHANGED <<met, bak>>
  /\ pc' = "install"
  /\ UNCHANGED <<tmp, part, home, live, version, m_metDirty, saved, installed, removed,
                 saver, crashes, writeErrors>>

\* rename(.part.met.tmp, .part.met); SavePartFile returns true.
SaveInstall ==
  /\ pc = "install"
  /\ \/ /\ met' = [met EXCEPT ![Home] = tmp[Home]]
        /\ tmp' = [tmp EXCEPT ![Home] = Absent]
        /\ installed' = installed \cup {saver}
        /\ UNCHANGED renameErrors
     \/ RenameFails /\ UNCHANGED <<met, tmp, installed>>
  /\ m_metDirty' = m_metDirty \ {saver}
  /\ saved' = [saved EXCEPT ![saver] = version[saver]]
  /\ pc' = "idle"
  /\ UNCHANGED <<bak, part, home, live, version, removed, saver, crashes,
                 writeErrors>>

\* Delete(): the download leaves the queue, then the .met, the .part and the
\* .bak go, one after the other.
Delete(f) ==
  /\ pc = "idle" /\ f \in live
  /\ live' = live \ {f}
  /\ m_metDirty' = m_metDirty \ {f}
  /\ pc' = "delMet" /\ saver' = f
  /\ UNCHANGED <<dirVars, home, version, saved, installed, removed, boundVars>>

DeleteMet ==
  /\ pc = "delMet"
  /\ met' = [met EXCEPT ![Home] = Absent]
  /\ removed' = removed \cup {saver}
  /\ pc' = "delPart"
  /\ UNCHANGED <<bak, tmp, part, home, live, version, m_metDirty, saved,
                 installed, saver, boundVars>>

DeletePart ==
  /\ pc = "delPart"
  /\ part' = [part EXCEPT ![Home] = Absent]
  /\ pc' = "delBak"
  /\ UNCHANGED <<met, bak, tmp, home, live, version, m_metDirty, saved,
                 installed, removed, saver, boundVars>>

DeleteBak ==
  /\ pc = "delBak"
  /\ bak' = [bak EXCEPT ![Home] = Absent]
  /\ home' = [home EXCEPT ![saver] = Absent]
  /\ pc' = "idle"
  /\ UNCHANGED <<met, tmp, part, live, version, m_metDirty, saved, installed,
                 removed, saver, boundVars>>

\* The process dies.
Crash ==
  /\ pc # "down"
  /\ crashes < MaxCrashes /\ crashes' = crashes + 1
  /\ live' = {} /\ m_metDirty' = {}
  /\ pc' = "down"
  /\ UNCHANGED <<dirVars, home, version, saved, installed, removed, saver,
                 writeErrors, renameErrors>>

\* Mutant: the backup comes first.
BackupFirst(s) == IF bak[s] # Absent THEN bak[s] ELSE met[s]

\* What LoadMetFiles reads for a number: only a *.part.met is looked for; if
\* it cannot be read its backup is.  Neither loads without the .part file.
MetContent(s) ==
  IF met[s] = Absent THEN Absent
  ELSE IF met[s].whole THEN met[s]
  ELSE IF bak[s] # Absent THEN (IF bak[s].whole THEN bak[s] ELSE Absent)
  ELSE Absent

FoundIn(f, s) ==
  part[s] # Absent /\ MetContent(s) # Absent /\ MetContent(s).file = f

\* LoadMetFiles, in the order of the numbers; of two .mets for one download
\* the second is skipped.
LoadMetFiles ==
  /\ pc = "down"
  /\ live' = {f \in Files : \E s \in Slots : FoundIn(f, s)}
  /\ \E pick \in [live' -> Slots] :
       /\ \A f \in live' :
            FoundIn(f, pick[f]) /\ \A s \in Slots : FoundIn(f, s) => pick[f] <= s
       /\ home' = [f \in Files |-> IF f \in live' THEN pick[f] ELSE home[f]]
       /\ version' = [f \in Files |->
                        IF f \in live' THEN MetContent(pick[f]).version
                        ELSE version[f]]
  /\ pc' = "idle"
  /\ UNCHANGED <<dirVars, m_metDirty, saved, installed, removed, saver, boundVars>>

Save == SaveOpen \/ SaveWrite \/ SaveFails \/ SaveBackup \/ SaveInstall

DeleteFiles == DeleteMet \/ DeletePart \/ DeleteBak

Next ==
  \/ \E f \in Files :
       CreatePartFile(f) \/ Change(f) \/ SavePartFile(f) \/ Delete(f)
  \/ Save \/ DeleteFiles
  \/ Crash \/ LoadMetFiles

Spec == Init /\ [][Next]_vars

------------------------------------------------------------------------------
TypeOK ==
  /\ met \in [Slots -> Copies \cup {Absent}]
  /\ bak \in [Slots -> Copies \cup {Absent}]
  /\ tmp \in [Slots -> Copies \cup {Absent}]
  /\ part \in [Slots -> Files \cup {Absent}]
  /\ home \in [Files -> Slots \cup {Absent}]
  /\ live \subseteq Files
  /\ version \in [Files -> Nat]
  /\ m_metDirty \subseteq Files
  /\ saved \in [Files -> Nat]
  /\ installed \subseteq Files
  /\ removed \subseteq Files
  /\ pc \in {"idle", "open", "write", "backup", "install", "delMet",
             "delPart", "delBak", "down"}
  /\ saver \in Files
  /\ crashes \in 0..MaxCrashes
  /\ writeErrors \in 0..MaxWriteErrors
  /\ renameErrors \in 0..MaxRenameErrors

\* Neither a crash in the middle of a save nor a failing write ever leaves a
\* .part.met, or a .bak, that is not whole.
MetNeverPartial ==
  \A s \in Slots :
    /\ met[s] # Absent => met[s].whole
    /\ bak[s] # Absent => bak[s].whole

\* What SavePartFile reported as saved is what a later start finds, or
\* something newer: a download in memory is never older than its last save,
\* unless a rename failed, whose result SavePartFile does not look at.
SavedVersionSurvives ==
  renameErrors = 0 => \A f \in live : version[f] >= saved[f]

(***************************************************************************)
(* Once a download has had a .part.met, a whole copy of it is in its .met  *)
(* or its .bak, whatever crashes or fails, as long as its number is not    *)
(* given to another download.                                              *)
(***************************************************************************)
CopyOf(f, c) == c # Absent /\ c.file = f /\ c.whole

SoleOwner(f) ==
  /\ part[home[f]] = f
  /\ \A g \in Files \ {f} : home[g] # home[f]

InstalledCopySurvives ==
  \A f \in installed \ removed :
    SoleOwner(f) => CopyOf(f, met[home[f]]) \/ CopyOf(f, bak[home[f]])

\* The .part file of each download in memory holds its own data:
\* CreatePartFile takes the "lowest free partfilenumber".
OwnPart == \A f \in live : home[f] \in Slots /\ part[home[f]] = f

\* ... which holds as long as every save succeeds.
OwnPartIfSaved == writeErrors = 0 /\ renameErrors = 0 => OwnPart

(***************************************************************************)
(* The inductive invariant.  A .met under a number describes a download    *)
(* that was given that number and is not deleted; this is why loading      *)
(* never moves a download, and why a save can only push out a copy of a    *)
(* download that shares its number.                                        *)
(***************************************************************************)
CopiesAtHome ==
  \A s \in Slots :
    met[s] # Absent => home[met[s].file] = s /\ met[s].file \notin removed

Lives ==
  /\ \A f \in live \cup (installed \ removed) : home[f] \in Slots
  /\ live \cap removed = {}

Saving ==
  /\ pc \in {"open", "write", "backup", "install"} => saver \in live
  /\ pc \in {"backup", "install"} => CopyOf(saver, tmp[home[saver]])
  /\ pc \in {"delMet", "delPart", "delBak"} =>
       home[saver] \in Slots /\ saver \notin live
  /\ pc \in {"delPart", "delBak"} => saver \in removed
  /\ pc = "delBak" => part[home[saver]] = Absent

PartMetInv ==
  TypeOK /\ Lives /\ Saving /\ CopiesAtHome /\ MetNeverPartial /\
  InstalledCopySurvives

(***************************************************************************)
(* Why a start finds what was saved: while no rename failed, a .met is     *)
(* never older than the last save of its download, and the .tmp about to   *)
(* be installed holds the version in memory.                               *)
(***************************************************************************)
SavedInv ==
  /\ \A f \in Files : home[f] = Absent /\ f \notin removed => saved[f] = 0
  /\ pc \in {"backup", "install"} => tmp[home[saver]].version = version[saver]
  /\ renameErrors = 0 =>
       /\ \A s \in Slots :
            met[s] # Absent => met[s].version >= saved[met[s].file]
       /\ \A f \in live : version[f] >= saved[f]

(***************************************************************************)
(* Why no number is given away: while every save succeeds, the number of a *)
(* download in memory has a .met, but for the one being saved, and a .met  *)
(* goes with the .part of the download it describes.                       *)
(***************************************************************************)
NumbersTaken ==
  /\ \A f \in live :
       \/ met[home[f]] # Absent
       \/ f = saver /\ pc \in {"open", "write", "backup", "install"}
  /\ \A s \in Slots : met[s] # Absent => part[s] = met[s].file
  /\ pc \in {"delMet", "delPart", "delBak"} =>
       \A f \in live : home[f] # home[saver]
  /\ pc \in {"delPart", "delBak"} => met[home[saver]] = Absent

NumbersInv == writeErrors = 0 /\ renameErrors = 0 => OwnPart /\ NumbersTaken

\* After a start every download that was ever saved is there again: a .bak
\* is read "if the live .part.met goes missing".
RestartLoadsSaved ==
  pc = "idle" /\ crashes > 0 => installed \ removed \subseteq live
==============================================================================
