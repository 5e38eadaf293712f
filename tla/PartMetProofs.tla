---------------------------- MODULE PartMetProofs ----------------------------
(***************************************************************************)
(* Proofs about PartMet: for any number of downloads, numbers, crashes and *)
(* failures.  PartMetInv is shown to be inductive action by action.        *)
(***************************************************************************)
EXTENDS PartMet, TLAPS

\* The initial directory is empty.
LEMMA InitInv == Init => PartMetInv
<1> SUFFICES ASSUME Init PROVE PartMetInv
  OBVIOUS
<1>1. MaxCrashes \in Nat /\ MaxWriteErrors \in Nat /\ MaxRenameErrors \in Nat
  BY PartMetConstants
<1>2. TypeOK
  BY <1>1 DEF Init, TypeOK
<1>3. Lives /\ Saving /\ CopiesAtHome /\ MetNeverPartial
  BY DEF Init, Lives, Saving, CopiesAtHome, MetNeverPartial
<1>4. InstalledCopySurvives
  BY DEF Init, InstalledCopySurvives
<1> QED
  BY <1>2, <1>3, <1>4 DEF PartMetInv

\* A record of Copies is not the absent content, and has the fields it was
\* built from.
LEMMA NewCopy ==
  ASSUME NEW f \in Files, NEW v \in Nat, NEW w \in BOOLEAN
  PROVE  LET c == [file |-> f, version |-> v, whole |-> w] IN
           c \in Copies /\ c # Absent /\ c.file = f /\ c.whole = w
BY PartMetConstants DEF Copies

\* Creating a download overwrites a .part only under a number whose .met is
\* gone, and copies of the download itself do not exist yet.
LEMMA CreateInv ==
  ASSUME PartMetInv, NEW f \in Files, CreatePartFile(f)
  PROVE  PartMetInv'
<1> USE DEF PartMetInv, CreatePartFile
<1>0. Absent \notin Slots /\ Absent \notin Files
  BY PartMetConstants
<1>1. PICK s \in Slots :
        home' = [home EXCEPT ![f] = s] /\ part' = [part EXCEPT ![s] = f]
  OBVIOUS
<1>2. TypeOK'
  BY <1>1 DEF TypeOK, boundVars
<1>3. f \notin live /\ f \notin installed /\ f \notin removed
  BY <1>0 DEF Lives, TypeOK
<1>4. \A t \in Slots : met[t] # Absent => met[t].file # f
  BY <1>0 DEF CopiesAtHome
<1>5. Lives' /\ Saving'
  BY <1>1, <1>3, <1>0 DEF Lives, Saving, TypeOK
<1>6. CopiesAtHome'
  BY <1>1, <1>4 DEF CopiesAtHome, TypeOK
<1>7. MetNeverPartial'
  BY DEF MetNeverPartial
<1>8. ASSUME NEW g \in installed \ removed, SoleOwner(g)'
      PROVE  SoleOwner(g) /\ home'[g] = home[g]
  BY <1>0, <1>1, <1>3, <1>8 DEF SoleOwner, TypeOK, Lives
<1>9. InstalledCopySurvives'
  BY <1>8 DEF InstalledCopySurvives, CopyOf
<1> QED
  BY <1>2, <1>5, <1>6, <1>7, <1>9

\* A save changes only files under the number of the download it saves; of
\* the copies there it gives up none of a download that owns the number
\* alone, because a copy under a number belongs to that number.
LEMMA SaveInv ==
  ASSUME PartMetInv, Save
  PROVE  PartMetInv'
<1> USE DEF PartMetInv
<1>0. /\ MaxWriteErrors \in Nat /\ MaxRenameErrors \in Nat
      /\ Absent \notin Slots
  BY PartMetConstants
<1>1. saver \in live /\ Home \in Slots /\ saver \notin removed
  BY DEF Save, SaveOpen, SaveWrite, SaveFails, SaveBackup, SaveInstall, Saving,
         Lives, Home
<1>2. \A w \in BOOLEAN :
        LET c == [file |-> saver, version |-> version[saver], whole |-> w] IN
          c \in Copies /\ c # Absent /\ c.file = saver /\ c.whole = w
  BY NewCopy DEF TypeOK
<1>3. ASSUME NEW f \in installed \ removed, f # saver, SoleOwner(f)
      PROVE  home[f] # Home /\ home[f] \in Slots
  BY <1>1, <1>3 DEF SoleOwner, Home, Lives, TypeOK
<1>4. CASE SaveOpen
  <2> USE <1>4 DEF SaveOpen
  <2>1. TypeOK'
    BY <1>1, <1>2 DEF TypeOK, boundVars
  <2>2. Lives' /\ Saving'
    BY DEF Lives, Saving
  <2>3. CopiesAtHome' /\ MetNeverPartial'
    BY DEF CopiesAtHome, MetNeverPartial
  <2>4. InstalledCopySurvives'
    BY DEF InstalledCopySurvives, SoleOwner, CopyOf
  <2> QED BY <2>1, <2>2, <2>3, <2>4
<1>5. CASE SaveWrite
  <2> USE <1>5 DEF SaveWrite
  <2>1. TypeOK'
    BY <1>1, <1>2 DEF TypeOK, boundVars
  <2>2. Lives' /\ Saving'
    BY <1>1, <1>2 DEF Lives, Saving, CopyOf, Home, TypeOK
  <2>3. CopiesAtHome' /\ MetNeverPartial'
    BY DEF CopiesAtHome, MetNeverPartial
  <2>4. InstalledCopySurvives'
    BY DEF InstalledCopySurvives, SoleOwner, CopyOf
  <2> QED BY <2>1, <2>2, <2>3, <2>4
<1>6. CASE SaveFails
  <2> USE <1>6 DEF SaveFails, Abandon
  <2>0. writeErrors' \in 0..MaxWriteErrors
    BY <1>0 DEF TypeOK
  <2>1. TypeOK'
    BY <1>1, <2>0 DEF TypeOK
  <2>2. Lives' /\ Saving'
    BY DEF Lives, Saving
  <2>3. CopiesAtHome' /\ MetNeverPartial'
    BY DEF CopiesAtHome, MetNeverPartial
  <2>4. InstalledCopySurvives'
    BY DEF InstalledCopySurvives, SoleOwner, CopyOf
  <2> QED BY <2>1, <2>2, <2>3, <2>4
<1>7. CASE SaveBackup
  <2> USE <1>7 DEF SaveBackup
  <2>0. renameErrors' \in 0..MaxRenameErrors
    BY <1>0 DEF TypeOK, RenameFails
  <2>1. CASE UNCHANGED <<met, bak>>
    <3>1. TypeOK'
      BY <2>0, <2>1 DEF TypeOK
    <3>2. Lives' /\ Saving'
      BY DEF Lives, Saving, CopyOf
    <3>3. CopiesAtHome' /\ MetNeverPartial'
      BY <2>1 DEF CopiesAtHome, MetNeverPartial
    <3>4. InstalledCopySurvives'
      BY <2>1 DEF InstalledCopySurvives, SoleOwner, CopyOf
    <3> QED BY <3>1, <3>2, <3>3, <3>4
  <2>2. CASE met[Home] # Absent /\ Promote
    <3> USE <2>2 DEF Promote
    <3>1. TypeOK'
      BY <2>0, <1>1 DEF TypeOK
    <3>2. Lives' /\ Saving'
      BY DEF Lives, Saving, CopyOf
    <3>3. CopiesAtHome' /\ MetNeverPartial'
      BY <1>1 DEF CopiesAtHome, MetNeverPartial, TypeOK
    <3>4. ASSUME NEW f \in installed \ removed, SoleOwner(f)
          PROVE  CopyOf(f, met'[home[f]]) \/ CopyOf(f, bak'[home[f]])
      <4>1. CASE f # saver
        BY <1>3, <3>4, <4>1 DEF InstalledCopySurvives, TypeOK, CopyOf
      <4>2. CASE f = saver
        <5>1. met[Home].file = f
          BY <1>1, <3>4, <4>2 DEF CopiesAtHome, SoleOwner, Home, TypeOK, Copies
        <5>2. CopyOf(f, bak'[Home])
          BY <1>1, <5>1 DEF CopyOf, MetNeverPartial, TypeOK
        <5> QED BY <4>2, <5>2 DEF Home
      <4> QED BY <4>1, <4>2
    <3>5. InstalledCopySurvives'
      BY <3>4 DEF InstalledCopySurvives, SoleOwner, CopyOf
    <3> QED BY <3>1, <3>2, <3>3, <3>5
  <2> QED BY <2>1, <2>2
<1>8. CASE SaveInstall
  <2> USE <1>8 DEF SaveInstall
  <2>0. renameErrors' \in 0..MaxRenameErrors
    BY <1>0 DEF TypeOK, RenameFails
  <2>1. CASE UNCHANGED <<met, tmp, installed>>
    <3>1. TypeOK'
      BY <2>0, <2>1 DEF TypeOK
    <3>2. Lives' /\ Saving'
      BY <2>1 DEF Lives, Saving
    <3>3. CopiesAtHome' /\ MetNeverPartial'
      BY <2>1 DEF CopiesAtHome, MetNeverPartial
    <3>4. InstalledCopySurvives'
      BY <2>1 DEF InstalledCopySurvives, SoleOwner, CopyOf
    <3> QED BY <3>1, <3>2, <3>3, <3>4
  <2>2. CASE /\ met' = [met EXCEPT ![Home] = tmp[Home]]
             /\ tmp' = [tmp EXCEPT ![Home] = Absent]
             /\ installed' = installed \cup {saver}
    <3> USE <2>2
    <3>0. CopyOf(saver, tmp[Home])
      BY DEF Saving, Home
    <3>1. TypeOK'
      BY <2>0, <1>1 DEF TypeOK
    <3>2. Lives' /\ Saving'
      BY <1>1 DEF Lives, Saving, Home
    <3>3. CopiesAtHome' /\ MetNeverPartial'
      BY <1>1, <3>0 DEF CopiesAtHome, MetNeverPartial, TypeOK, CopyOf, Home
    <3>4. ASSUME NEW f \in installed' \ removed, SoleOwner(f)
          PROVE  CopyOf(f, met'[home[f]]) \/ CopyOf(f, bak'[home[f]])
      <4>1. CASE f # saver
        BY <1>3, <3>4, <4>1 DEF InstalledCopySurvives, TypeOK, CopyOf
      <4>2. CASE f = saver
        BY <1>1, <3>0, <4>2 DEF CopyOf, TypeOK, Home
      <4> QED BY <4>1, <4>2
    <3>5. InstalledCopySurvives'
      BY <3>4 DEF InstalledCopySurvives, SoleOwner, CopyOf
    <3> QED BY <3>1, <3>2, <3>3, <3>5
  <2> QED BY <2>1, <2>2
<1> QED
  BY <1>4, <1>5, <1>6, <1>7, <1>8 DEF Save

\* Deleting a download takes its .met, so no start finds it; a download that
\* shared its number loses its .part before the number is given up.
LEMMA DeleteInv ==
  ASSUME PartMetInv, DeleteFiles
  PROVE  PartMetInv'
<1> USE DEF PartMetInv
<1>0. Absent \notin Files /\ Absent \notin Slots
  BY PartMetConstants
<1>1. Home \in Slots /\ saver \notin live /\ saver \in Files
  BY DEF DeleteFiles, DeleteMet, DeletePart, DeleteBak, Saving, Home, TypeOK
<1>2. CASE DeleteMet
  <2> USE <1>2 DEF DeleteMet
  <2>1. TypeOK'
    BY <1>1 DEF TypeOK, boundVars
  <2>2. Lives' /\ Saving'
    BY <1>1 DEF Lives, Saving, Home
  <2>3. CopiesAtHome' /\ MetNeverPartial'
    BY <1>1 DEF CopiesAtHome, MetNeverPartial, TypeOK, Home
  <2>4. ASSUME NEW g \in installed \ removed', SoleOwner(g)
        PROVE  home[g] # Home /\ home[g] \in Slots
    BY <1>1, <2>4 DEF SoleOwner, Home, Lives, TypeOK
  <2>5. InstalledCopySurvives'
    BY <1>1, <2>4 DEF InstalledCopySurvives, SoleOwner, CopyOf, TypeOK
  <2> QED BY <2>1, <2>2, <2>3, <2>5
<1>3. CASE DeletePart
  <2> USE <1>3 DEF DeletePart
  <2>1. TypeOK'
    BY <1>1 DEF TypeOK, boundVars
  <2>2. Lives' /\ Saving'
    BY <1>1 DEF Lives, Saving, Home, TypeOK
  <2>3. CopiesAtHome' /\ MetNeverPartial'
    BY DEF CopiesAtHome, MetNeverPartial
  <2>4. ASSUME NEW g \in installed \ removed, SoleOwner(g)'
        PROVE  SoleOwner(g)
    BY <1>0, <1>1, <2>4 DEF SoleOwner, TypeOK
  <2>5. InstalledCopySurvives'
    BY <2>4 DEF InstalledCopySurvives, CopyOf
  <2> QED BY <2>1, <2>2, <2>3, <2>5
<1>4. CASE DeleteBak
  <2> USE <1>4 DEF DeleteBak
  <2>0. saver \in removed /\ part[Home] = Absent
    BY DEF Saving, Home
  <2>1. TypeOK'
    BY <1>1 DEF TypeOK, boundVars
  <2>2. Lives' /\ Saving'
    BY <1>1, <2>0 DEF Lives, Saving, TypeOK
  <2>3. CopiesAtHome' /\ MetNeverPartial'
    BY <1>1, <2>0 DEF CopiesAtHome, MetNeverPartial, TypeOK, Home
  <2>4. ASSUME NEW g \in installed \ removed, SoleOwner(g)'
        PROVE  SoleOwner(g) /\ home'[g] = home[g] /\ home[g] # Home
    <3>1. g # saver /\ g \in Files /\ home'[g] = home[g]
      BY <2>0 DEF TypeOK
    <3>2. home[g] # Home
      BY <1>0, <2>0, <2>4, <3>1 DEF SoleOwner
    <3> QED
      BY <2>4, <3>1, <3>2 DEF SoleOwner, Home, TypeOK
  <2>5. InstalledCopySurvives'
    BY <1>1, <2>4 DEF InstalledCopySurvives, CopyOf, TypeOK, Lives
  <2> QED BY <2>1, <2>2, <2>3, <2>5
<1> QED
  BY <1>2, <1>3, <1>4 DEF DeleteFiles

\* Loading finds each download under the number it was given.
LEMMA LoadInv ==
  ASSUME PartMetInv, LoadMetFiles
  PROVE  PartMetInv'
<1> USE DEF PartMetInv, LoadMetFiles
<1>0. Absent \notin Slots
  BY PartMetConstants
<1>1. PICK pick \in [live' -> Slots] :
        /\ \A f \in live' : FoundIn(f, pick[f])
        /\ home' = [f \in Files |-> IF f \in live' THEN pick[f] ELSE home[f]]
        /\ version' = [f \in Files |->
                         IF f \in live' THEN MetContent(pick[f]).version
                         ELSE version[f]]
  OBVIOUS
<1>2. ASSUME NEW f \in live'
      PROVE  /\ pick[f] \in Slots /\ home[f] = pick[f] /\ f \notin removed
             /\ MetContent(pick[f]).version \in Nat
  <2>1. pick[f] \in Slots /\ FoundIn(f, pick[f])
    BY <1>1
  <2>2. MetContent(pick[f]) = met[pick[f]]
    BY <2>1 DEF FoundIn, MetContent, MetNeverPartial
  <2>3. MetContent(pick[f]) # Absent /\ MetContent(pick[f]).file = f
    BY <2>1 DEF FoundIn
  <2>4. home[f] = pick[f] /\ f \notin removed
    BY <2>1, <2>2, <2>3 DEF CopiesAtHome
  <2>5. MetContent(pick[f]) \in Copies
    BY <2>1, <2>2, <2>3 DEF TypeOK
  <2> QED
    BY <2>1, <2>4, <2>5 DEF Copies
<1>3. live' \subseteq Files
  OBVIOUS
<1>4. home' = home
  BY <1>1, <1>2 DEF TypeOK
<1>5. TypeOK'
  BY <1>1, <1>2, <1>3, <1>4 DEF TypeOK, dirVars, boundVars
<1>6. Lives' /\ Saving'
  BY <1>2, <1>4 DEF Lives, Saving
<1>7. CopiesAtHome' /\ MetNeverPartial'
  BY <1>4 DEF CopiesAtHome, MetNeverPartial, dirVars
<1>8. InstalledCopySurvives'
  BY <1>4 DEF InstalledCopySurvives, SoleOwner, CopyOf, dirVars
<1> QED
  BY <1>5, <1>6, <1>7, <1>8

\* Every step of the program, a crash included, keeps the invariant.
LEMMA NextInv == PartMetInv /\ [Next]_vars => PartMetInv'
<1> SUFFICES ASSUME PartMetInv, [Next]_vars PROVE PartMetInv'
  OBVIOUS
<1>1. ASSUME NEW f \in Files, CreatePartFile(f) PROVE PartMetInv'
  BY <1>1, CreateInv
<1>2. ASSUME NEW f \in Files, Change(f) PROVE PartMetInv'
  BY <1>2 DEF PartMetInv, Change, TypeOK, Lives, Saving, CopiesAtHome,
         MetNeverPartial, InstalledCopySurvives, SoleOwner, CopyOf, dirVars,
         boundVars
<1>3. ASSUME NEW f \in Files, SavePartFile(f) PROVE PartMetInv'
  BY <1>3 DEF PartMetInv, SavePartFile, TypeOK, Lives, Saving, CopiesAtHome,
         MetNeverPartial, InstalledCopySurvives, SoleOwner, CopyOf,
         dirVars, boundVars
<1>4. ASSUME NEW f \in Files, Delete(f) PROVE PartMetInv'
  BY <1>4 DEF PartMetInv, Delete, TypeOK, Lives, Saving, CopiesAtHome,
         MetNeverPartial, InstalledCopySurvives, SoleOwner, CopyOf, dirVars,
         boundVars
<1>9. CASE DeleteFiles
  BY <1>9, DeleteInv
<1>5. CASE Save
  BY <1>5, SaveInv
<1>6. CASE Crash
  <2>1. crashes' \in 0..MaxCrashes
    BY <1>6, PartMetConstants DEF Crash, PartMetInv, TypeOK
  <2> QED
    BY <1>6, <2>1 DEF PartMetInv, Crash, TypeOK, Lives, Saving, CopiesAtHome,
       MetNeverPartial, InstalledCopySurvives, SoleOwner, CopyOf,
       dirVars
<1>7. CASE LoadMetFiles
  BY <1>7, LoadInv
<1>8. CASE UNCHANGED vars
  BY <1>8 DEF PartMetInv, vars, dirVars, boundVars, TypeOK, Lives, Saving,
     CopiesAtHome, MetNeverPartial, InstalledCopySurvives, SoleOwner,
     CopyOf, Home
<1> QED
  BY <1>1, <1>2, <1>3, <1>4, <1>5, <1>6, <1>7, <1>8, <1>9 DEF Next

(***************************************************************************)
(* SavePartFile never leaves a .part.met or .bak that is not whole, at     *)
(* whatever point it is interrupted or fails.                              *)
(***************************************************************************)
THEOREM MetAlwaysWhole == Spec => []MetNeverPartial
<1>1. PartMetInv => MetNeverPartial
  BY DEF PartMetInv
<1> QED
  BY InitInv, NextInv, <1>1, PTL DEF Spec

(***************************************************************************)
(* A download whose number is its own always has a whole copy of its state *)
(* in its .part.met or its .part.met.bak, once SavePartFile has installed  *)
(* one, whatever crashes, writes or renames fail.                          *)
(***************************************************************************)
THEOREM CopySurvives == Spec => []InstalledCopySurvives
<1>1. PartMetInv => InstalledCopySurvives
  BY DEF PartMetInv
<1> QED
  BY InitInv, NextInv, <1>1, PTL DEF Spec
------------------------------------------------------------------------------
\* Loading leaves every download under its number, and takes its version from
\* the .met found there.
LEMMA LoadedFromHome ==
  ASSUME PartMetInv, LoadMetFiles
  PROVE  /\ home' = home
         /\ \A f \in live' :
              /\ f \in Files /\ home[f] \in Slots
              /\ met[home[f]] # Absent /\ met[home[f]].file = f
              /\ part[home[f]] # Absent
              /\ version'[f] = met[home[f]].version
<1> USE DEF PartMetInv, LoadMetFiles
<1>1. PICK pick \in [live' -> Slots] :
        /\ \A f \in live' : FoundIn(f, pick[f])
        /\ home' = [f \in Files |-> IF f \in live' THEN pick[f] ELSE home[f]]
        /\ version' = [f \in Files |->
                         IF f \in live' THEN MetContent(pick[f]).version
                         ELSE version[f]]
  OBVIOUS
<1>2. ASSUME NEW f \in live'
      PROVE  /\ f \in Files /\ pick[f] \in Slots
             /\ MetContent(pick[f]) = met[pick[f]]
             /\ met[pick[f]] # Absent /\ met[pick[f]].file = f
             /\ part[pick[f]] # Absent /\ home[f] = pick[f]
  <2>1. f \in Files /\ pick[f] \in Slots /\ FoundIn(f, pick[f])
    BY <1>1
  <2>2. MetContent(pick[f]) = met[pick[f]]
    BY <2>1 DEF FoundIn, MetContent, MetNeverPartial
  <2> QED
    BY <2>1, <2>2 DEF FoundIn, CopiesAtHome
<1>3. home' = home
  BY <1>1, <1>2 DEF TypeOK
<1> QED
  BY <1>1, <1>2, <1>3

\* What SavePartFile reported as saved is not lost by any step.
LEMMA SavedStep ==
  ASSUME PartMetInv, SavedInv, [Next]_vars
  PROVE  SavedInv'
<1> USE DEF PartMetInv
<1>0. Absent \notin Slots /\ MaxRenameErrors \in Nat
  BY PartMetConstants
<1>1. ASSUME NEW f \in Files, CreatePartFile(f) PROVE SavedInv'
  <2> USE <1>1 DEF CreatePartFile, boundVars
  <2>1. PICK s \in Slots : home' = [home EXCEPT ![f] = s]
    OBVIOUS
  <2>2. saved[f] = 0
    BY DEF SavedInv
  <2> QED
    BY <1>0, <2>1, <2>2 DEF SavedInv, TypeOK
<1>2. ASSUME NEW f \in Files, Change(f) PROVE SavedInv'
  BY <1>2 DEF Change, SavedInv, TypeOK, dirVars, boundVars
<1>3. ASSUME NEW f \in Files, SavePartFile(f) \/ Delete(f) PROVE SavedInv'
  BY <1>3 DEF SavePartFile, Delete, SavedInv, dirVars, boundVars
<1>4. CASE Save
  <2>1. saver \in live /\ Home \in Slots /\ saver \in Files
    BY <1>4 DEF Save, SaveOpen, SaveWrite, SaveFails, SaveBackup, SaveInstall,
           Saving, Lives, Home, TypeOK
  <2>2. CASE SaveOpen
    BY <2>2 DEF SaveOpen, SavedInv, boundVars
  <2>3. CASE SaveWrite
    <3>1. tmp'[home[saver]].version = version[saver]
      BY <2>1, <2>3 DEF SaveWrite, Home, TypeOK
    <3> QED BY <2>3, <3>1 DEF SaveWrite, SavedInv, boundVars
  <2>4. CASE SaveFails
    BY <2>4 DEF SaveFails, Abandon, SavedInv
  <2>5. CASE SaveBackup
    <3>1. \A s \in Slots : met'[s] # Absent => met'[s] = met[s]
      BY <2>1, <2>5 DEF SaveBackup, Promote, TypeOK
    <3>2. renameErrors' = 0 => renameErrors = 0
      BY <1>0, <2>5 DEF SaveBackup, RenameFails, TypeOK
    <3> QED BY <2>5, <3>1, <3>2 DEF SaveBackup, SavedInv
  <2>6. CASE SaveInstall
    <3> USE <2>6 DEF SaveInstall
    <3>1. renameErrors' = 0 => renameErrors = 0
                               /\ met' = [met EXCEPT ![Home] = tmp[Home]]
      BY <1>0 DEF RenameFails, TypeOK
    <3>2. /\ tmp[Home].version = version[saver] /\ tmp[Home].file = saver
          /\ version[saver] \in Nat
      BY DEF SavedInv, Saving, CopyOf, Home, TypeOK
    <3>3. saved' = [saved EXCEPT ![saver] = version[saver]]
      OBVIOUS
    <3>4. \A f \in Files : home'[f] = Absent /\ f \notin removed'
                             => saved'[f] = 0
      BY <1>0, <2>1, <3>3 DEF SavedInv, TypeOK, Home
    <3>5. ASSUME renameErrors' = 0, NEW s \in Slots, met'[s] # Absent
          PROVE  met'[s].version >= saved'[met'[s].file]
      <4>1. CASE s = Home
        BY <2>1, <3>1, <3>2, <3>3, <3>5, <4>1 DEF TypeOK
      <4>2. CASE s # Home
        <5>1. met'[s] = met[s] /\ met[s].file # saver /\ met[s].file \in Files
          BY <2>1, <3>1, <3>5, <4>2
          DEF CopiesAtHome, Home, TypeOK, Copies
        <5> QED BY <3>1, <3>3, <3>5, <5>1 DEF SavedInv, TypeOK
      <4> QED BY <4>1, <4>2
    <3>6. ASSUME renameErrors' = 0, NEW f \in live'
          PROVE  version'[f] >= saved'[f]
      BY <3>1, <3>2, <3>3, <3>6 DEF SavedInv, TypeOK
    <3> QED BY <3>4, <3>5, <3>6 DEF SavedInv
  <2> QED BY <1>4, <2>2, <2>3, <2>4, <2>5, <2>6 DEF Save
<1>5. CASE DeleteMet
  <2>1. Home \in Slots BY <1>5 DEF DeleteMet, Saving, Home
  <2>2. \A s \in Slots : met'[s] # Absent => met'[s] = met[s]
    BY <1>5, <2>1 DEF DeleteMet, TypeOK
  <2> QED BY <1>5, <2>2 DEF DeleteMet, SavedInv, boundVars
<1>6. CASE DeletePart
  BY <1>6 DEF DeletePart, SavedInv, boundVars
<1>7. CASE DeleteBak
  <2>1. saver \in removed BY <1>7 DEF DeleteBak, Saving
  <2> QED BY <1>7, <2>1 DEF DeleteBak, SavedInv, TypeOK, boundVars
<1>8. CASE Crash
  BY <1>8 DEF Crash, SavedInv, dirVars
<1>9. CASE LoadMetFiles
  <2>1. /\ UNCHANGED <<met, tmp, saved, removed, renameErrors>>
        /\ pc' = "idle" /\ home' = home
    BY <1>9, LoadedFromHome DEF LoadMetFiles, dirVars, boundVars
  <2>2. \A f \in live' :
          /\ home[f] \in Slots
          /\ met[home[f]] # Absent /\ met[home[f]].file = f
          /\ version'[f] = met[home[f]].version
    BY <1>9, LoadedFromHome
  <2> QED BY <2>1, <2>2 DEF SavedInv
<1>10. CASE UNCHANGED vars
  BY <1>10 DEF vars, dirVars, boundVars, SavedInv
<1> QED
  BY <1>1, <1>2, <1>3, <1>4, <1>5, <1>6, <1>7, <1>8, <1>9, <1>10
  DEF Next, DeleteFiles

\* While every save succeeds no step gives away the number of a download.
LEMMA NumbersStep ==
  ASSUME PartMetInv, NumbersInv, [Next]_vars
  PROVE  NumbersInv'
<1> USE DEF PartMetInv
<1>0. /\ Absent \notin Slots /\ Absent \notin Files
      /\ MaxRenameErrors \in Nat /\ MaxWriteErrors \in Nat
  BY PartMetConstants
<1>1. ASSUME NEW f \in Files, CreatePartFile(f) PROVE NumbersInv'
  <2> USE <1>1 DEF CreatePartFile, boundVars
  <2> SUFFICES ASSUME writeErrors = 0, renameErrors = 0
               PROVE  OwnPart' /\ NumbersTaken'
    BY DEF NumbersInv
  <2>1. OwnPart /\ NumbersTaken
    BY DEF NumbersInv
  <2>2. PICK s \in Slots : /\ met[s] = Absent
                           /\ home' = [home EXCEPT ![f] = s]
                           /\ part' = [part EXCEPT ![s] = f]
    BY DEF LowestFree
  <2>3. \A g \in live : home[g] # s /\ g # f
    BY <1>0, <2>1, <2>2 DEF OwnPart, NumbersTaken
  <2>4. OwnPart'
    BY <2>1, <2>2, <2>3 DEF OwnPart, TypeOK
  <2>5. NumbersTaken'
    BY <2>1, <2>2, <2>3 DEF NumbersTaken, TypeOK
  <2> QED BY <2>4, <2>5
<1>2. ASSUME NEW f \in Files, Change(f) \/ SavePartFile(f) PROVE NumbersInv'
  BY <1>2 DEF Change, SavePartFile, NumbersInv, OwnPart, NumbersTaken,
     dirVars, boundVars
<1>3. ASSUME NEW f \in Files, Delete(f) PROVE NumbersInv'
  <2>1. OwnPart => \A g \in live' : home[g] # home[f]
    BY <1>3 DEF Delete, OwnPart
  <2> QED
    BY <1>3, <2>1 DEF Delete, NumbersInv, OwnPart, NumbersTaken, dirVars,
       boundVars
<1>4. CASE Save
  <2>1. saver \in live /\ Home \in Slots /\ saver \in Files
    BY <1>4 DEF Save, SaveOpen, SaveWrite, SaveFails, SaveBackup, SaveInstall,
           Saving, Lives, Home, TypeOK
  <2>2. CASE SaveOpen \/ SaveWrite
    BY <2>2 DEF SaveOpen, SaveWrite, NumbersInv, OwnPart, NumbersTaken,
       boundVars
  <2>3. CASE SaveFails
    <3>1. writeErrors' = 0 /\ renameErrors' = 0
            => writeErrors = 0 /\ renameErrors = 0 /\ part[Home] = Absent
      BY <1>0, <2>3 DEF SaveFails, TypeOK
    <3>2. OwnPart => part[Home] # Absent
      BY <1>0, <2>1 DEF OwnPart, Home
    <3> QED BY <3>1, <3>2 DEF NumbersInv
  <2>4. CASE SaveBackup
    <3> USE <2>4 DEF SaveBackup
    <3>1. \A s \in Slots : /\ met'[s] # Absent => met'[s] = met[s]
                           /\ s # Home => met'[s] = met[s]
      BY <2>1 DEF Promote, TypeOK
    <3>2. renameErrors' = 0 => renameErrors = 0
      BY <1>0 DEF RenameFails, TypeOK
    <3>3. OwnPart => \A f \in live \ {saver} : home[f] # Home
      BY <2>1 DEF OwnPart, Home
    <3>4. OwnPart /\ NumbersTaken => OwnPart' /\ NumbersTaken'
      BY <3>1, <3>3 DEF OwnPart, NumbersTaken
    <3> QED BY <3>2, <3>4 DEF NumbersInv
  <2>5. CASE SaveInstall
    <3> USE <2>5 DEF SaveInstall
    <3>1. renameErrors' = 0 => renameErrors = 0
                               /\ met' = [met EXCEPT ![Home] = tmp[Home]]
      BY <1>0 DEF RenameFails, TypeOK
    <3>2. tmp[Home] # Absent /\ tmp[Home].file = saver
      BY DEF Saving, CopyOf, Home
    <3>3. met' = [met EXCEPT ![Home] = tmp[Home]] /\ OwnPart /\ NumbersTaken
            => OwnPart' /\ NumbersTaken'
      BY <2>1, <3>2 DEF OwnPart, NumbersTaken, Home, TypeOK
    <3> QED BY <3>1, <3>3 DEF NumbersInv
  <2> QED BY <1>4, <2>2, <2>3, <2>4, <2>5 DEF Save
<1>5. CASE DeleteMet
  <2>1. Home \in Slots BY <1>5 DEF DeleteMet, Saving, Home
  <2>2. OwnPart /\ NumbersTaken => OwnPart' /\ NumbersTaken'
    BY <1>5, <2>1 DEF DeleteMet, OwnPart, NumbersTaken, Home, TypeOK
  <2> QED BY <1>5, <2>2 DEF DeleteMet, NumbersInv, boundVars
<1>6. CASE DeletePart
  <2>1. Home \in Slots BY <1>6 DEF DeletePart, Saving, Home
  <2>2. OwnPart /\ NumbersTaken => OwnPart' /\ NumbersTaken'
    BY <1>6, <2>1 DEF DeletePart, OwnPart, NumbersTaken, Home, TypeOK
  <2> QED BY <1>6, <2>2 DEF DeletePart, NumbersInv, boundVars
<1>7. CASE DeleteBak
  <2>1. saver \notin live BY <1>7 DEF DeleteBak, Saving
  <2>2. OwnPart /\ NumbersTaken => OwnPart' /\ NumbersTaken'
    BY <1>7, <2>1 DEF DeleteBak, OwnPart, NumbersTaken, TypeOK
  <2> QED BY <1>7, <2>2 DEF DeleteBak, NumbersInv, boundVars
<1>8. CASE Crash
  BY <1>8 DEF Crash, NumbersInv, OwnPart, NumbersTaken, dirVars
<1>9. CASE LoadMetFiles
  <2>1. /\ UNCHANGED <<met, part, writeErrors, renameErrors>>
        /\ pc' = "idle" /\ home' = home
    BY <1>9, LoadedFromHome DEF LoadMetFiles, dirVars, boundVars
  <2>2. \A f \in live' : /\ home[f] \in Slots
                          /\ met[home[f]] # Absent /\ met[home[f]].file = f
    BY <1>9, LoadedFromHome
  <2> QED BY <2>1, <2>2 DEF NumbersInv, OwnPart, NumbersTaken
<1>10. CASE UNCHANGED vars
  BY <1>10 DEF vars, dirVars, boundVars, NumbersInv, OwnPart, NumbersTaken
<1> QED
  BY <1>1, <1>2, <1>3, <1>4, <1>5, <1>6, <1>7, <1>8, <1>9, <1>10
  DEF Next, DeleteFiles

(***************************************************************************)
(* A download in memory is never older than what SavePartFile last         *)
(* reported as saved, over any number of crashes, restarts and failing     *)
(* writes, as long as no rename fails.                                     *)
(***************************************************************************)
THEOREM SavesAreKept == Spec => []SavedVersionSurvives
<1>1. Init => SavedInv
  BY DEF Init, SavedInv
<1>2. SavedInv => SavedVersionSurvives
  BY DEF SavedInv, SavedVersionSurvives
<1> QED
  BY InitInv, NextInv, SavedStep, <1>1, <1>2, PTL DEF Spec

(***************************************************************************)
(* As long as every save succeeds, the .part file of each download in      *)
(* memory holds its own data: CreatePartFile never takes a number that is  *)
(* in use, not even after a crash between the two renames of a save.       *)
(***************************************************************************)
THEOREM NumbersAreOwn == Spec => []OwnPartIfSaved
<1>1. Init => NumbersInv
  BY DEF Init, NumbersInv, OwnPart, NumbersTaken
<1>2. NumbersInv => OwnPartIfSaved
  BY DEF NumbersInv, OwnPartIfSaved
<1> QED
  BY InitInv, NextInv, NumbersStep, <1>1, <1>2, PTL DEF Spec
==============================================================================
