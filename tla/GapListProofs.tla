---------------------------- MODULE GapListProofs ----------------------------
(***************************************************************************)
(* Proofs about GapList, for files and parts of any size: the loops of     *)
(* AddGap and FillGap implement MissingBytes, and the caches are right.    *)
(***************************************************************************)
EXTENDS GapList, ListLemmas, FiniteSetTheorems

\* What division with remainder gives.
LEMMA Division ==
  ASSUME NEW n \in Nat, NEW d \in Nat \ {0}
  PROVE  /\ n \div d \in Nat
         /\ n % d \in 0..(d - 1)
         /\ n % d = n - d * (n \div d)
<1>1. n \div d \in Nat
  OBVIOUS
<1>2. n % d \in 0..(d - 1)
  OBVIOUS
<1>3. n % d = n - d * (n \div d)
  OBVIOUS
<1> QED BY <1>1, <1>2, <1>3

\* The multiple of d at or below n.
LEMMA Quotient ==
  ASSUME NEW n \in Nat, NEW d \in Nat \ {0}
  PROVE  /\ n \div d \in Nat /\ (n \div d) * d \in Nat
         /\ (n \div d) * d <= n /\ n < (n \div d) * d + d
<1>1. n \div d \in Nat
  OBVIOUS
<1>2. (n \div d) * d \in Nat
  BY <1>1
<1>3. (n \div d) * d <= n
  OBVIOUS
<1>4. n < (n \div d) * d + d
  OBVIOUS
<1> QED BY <1>1, <1>2, <1>3, <1>4

\* Multiples of the part size are ordered like their factors.
LEMMA Multiples ==
  ASSUME NEW a \in Int, NEW b \in Int, NEW d \in Nat \ {0}, a < b
  PROVE  a * d + d <= b * d
<1>1. PICK k \in Nat : b = a + 1 + k
  <2>1. b - a - 1 \in Nat /\ b = a + 1 + (b - a - 1)
    OBVIOUS
  <2> QED BY <2>1
<1>2. b * d = a * d + d + k * d
  BY <1>1
<1>3. k * d \in Nat
  OBVIOUS
<1> QED BY <1>2, <1>3

\* A part is a nonempty range of bytes of the file.
LEMMA PartRange ==
  ASSUME NEW p \in Parts
  PROVE  /\ PartStart(p) \in AllBytes /\ PartEnd(p) \in AllBytes
         /\ PartStart(p) <= PartEnd(p)
         /\ PartEnd(p) < PartStart(p) + PartSize
         /\ PartEnd(p) < PartStart(p) + PartSize - 1 => PartEnd(p) = FileSize - 1
<1> DEFINE q == FileSize \div PartSize
<1> DEFINE r == FileSize % PartSize
<1>1. FileSize \in Nat /\ PartSize \in Nat /\ FileSize > 0 /\ PartSize > 0
  BY GapListConstants
<1>2. q \in Nat /\ r \in 0..(PartSize - 1) /\ r = FileSize - PartSize * q
  BY Division, GapListConstants
<1>3. PartCount = (IF r = 0 THEN q ELSE q + 1)
  BY DEF PartCount
<1>4. SizeLastPart = (IF r = 0 THEN PartSize ELSE r)
  BY DEF SizeLastPart
<1> HIDE DEF q, r
<1>5. p \in Nat /\ p < PartCount /\ PartCount \in Nat
  BY <1>2, <1>3 DEF Parts
<1>6. PartStart(p) = p * PartSize /\ p * PartSize \in Nat
  BY <1>1, <1>5 DEF PartStart
<1>7. CASE p = PartCount - 1
  <2>1. PartEnd(p) = p * PartSize + SizeLastPart - 1
    BY <1>7 DEF PartEnd, PartStart, GetPartSize
  <2>2. p * PartSize + SizeLastPart = FileSize
    <3>1. CASE r = 0
      <4>1. p = q - 1
        BY <1>2, <1>3, <1>7, <3>1
      <4>2. p * PartSize = PartSize * q - PartSize
        BY <1>1, <1>2, <4>1
      <4> QED BY <1>1, <1>2, <1>4, <3>1, <4>2
    <3>2. CASE r # 0
      <4>1. p = q
        BY <1>2, <1>3, <1>7, <3>2
      <4>2. p * PartSize = PartSize * q
        BY <1>1, <1>2, <4>1
      <4> QED BY <1>1, <1>2, <1>4, <3>2, <4>2
    <3> QED BY <3>1, <3>2
  <2>3. SizeLastPart \in 1..PartSize
    BY <1>1, <1>2, <1>4
  <2> QED BY <1>1, <1>6, <2>1, <2>2, <2>3 DEF AllBytes
<1>8. CASE p # PartCount - 1
  <2>1. PartEnd(p) = p * PartSize + PartSize - 1
    BY <1>8 DEF PartEnd, PartStart, GetPartSize
  <2>2. p < q
    BY <1>2, <1>3, <1>5, <1>8
  <2>3. p * PartSize + PartSize <= q * PartSize
    BY <1>1, <1>2, <1>5, <2>2, Multiples
  <2>4. p * PartSize + PartSize <= FileSize
    BY <1>1, <1>2, <1>6, <2>3
  <2> QED BY <1>1, <1>6, <2>1, <2>4 DEF AllBytes
<1> QED BY <1>7, <1>8

\* The parts the two divisions give are those the range has bytes in.
LEMMA InvolvedMeets ==
  ASSUME NEW p \in Parts, NEW s \in AllBytes, NEW e \in AllBytes, s <= e
  PROVE  /\ p \in Involved(s, e) =>
              \E b \in s..e : b \in PartStart(p)..PartEnd(p)
         /\ p \notin Involved(s, e) =>
              \A b \in s..e : b \notin PartStart(p)..PartEnd(p)
<1> DEFINE i == s \div PartSize
<1> DEFINE j == e \div PartSize
<1>1. FileSize \in Nat /\ PartSize \in Nat /\ PartSize > 0 /\ s \in Nat /\ e \in Nat
  BY GapListConstants DEF AllBytes
<1>2. /\ i \in Nat /\ i * PartSize \in Nat
      /\ i * PartSize <= s /\ s < i * PartSize + PartSize
  BY <1>1, Quotient
<1>3. /\ j \in Nat /\ j * PartSize \in Nat
      /\ j * PartSize <= e /\ e < j * PartSize + PartSize
  BY <1>1, Quotient
<1>4. p \in Involved(s, e) <=> i <= p /\ p <= j
  BY DEF Involved
<1> HIDE DEF i, j
<1>5. p \in Int
  BY DEF Parts
<1>6. /\ PartStart(p) = p * PartSize /\ p * PartSize \in Int
  BY <1>1, <1>5 DEF PartStart
<1>7. /\ PartStart(p) \in AllBytes /\ PartEnd(p) \in AllBytes
      /\ PartStart(p) <= PartEnd(p) /\ PartEnd(p) < PartStart(p) + PartSize
      /\ PartEnd(p) < PartStart(p) + PartSize - 1 => PartEnd(p) = FileSize - 1
  BY PartRange
<1>8. ASSUME i <= p, p <= j
      PROVE  \E b \in s..e : b \in PartStart(p)..PartEnd(p)
  <2>1. CASE i = p
    <3>1. s \in s..e /\ s \in PartStart(p)..PartEnd(p)
      BY <1>1, <1>2, <1>6, <1>7, <2>1 DEF AllBytes
    <3> QED BY <3>1
  <2>2. CASE i < p
    <3>1. i * PartSize + PartSize <= p * PartSize
      BY <1>1, <1>2, <1>5, <2>2, Multiples
    <3>2. p * PartSize <= j * PartSize
      <4>1. CASE p = j
        BY <1>3, <4>1
      <4>2. CASE p < j
        BY <1>1, <1>3, <1>5, <1>6, <4>2, Multiples
      <4> QED BY <1>3, <1>5, <1>8, <4>1, <4>2
    <3>3. PartStart(p) \in s..e /\ PartStart(p) \in PartStart(p)..PartEnd(p)
      BY <1>1, <1>2, <1>3, <1>6, <1>7, <3>1, <3>2 DEF AllBytes
    <3> QED BY <3>3
  <2> QED BY <1>2, <1>5, <1>8, <2>1, <2>2
<1>9. ASSUME p < i
      PROVE  \A b \in s..e : b \notin PartStart(p)..PartEnd(p)
  <2>1. p * PartSize + PartSize <= i * PartSize
    BY <1>1, <1>2, <1>5, <1>9, Multiples
  <2> QED BY <1>1, <1>2, <1>6, <1>7, <2>1 DEF AllBytes
<1>10. ASSUME j < p
       PROVE  \A b \in s..e : b \notin PartStart(p)..PartEnd(p)
  <2>1. j * PartSize + PartSize <= p * PartSize
    BY <1>1, <1>3, <1>5, <1>10, Multiples
  <2> QED BY <1>1, <1>3, <1>6, <1>7, <2>1 DEF AllBytes
<1> QED BY <1>2, <1>3, <1>4, <1>5, <1>8, <1>9, <1>10

------------------------------------------------------------------------------
\* One gap that is the whole file, or none.
LEMMA InitInv == Init => GapListInv /\ Bytes!Init
<1> SUFFICES ASSUME Init PROVE GapListInv /\ Bytes!Init
  OBVIOUS
<1>1. FileSize \in Nat /\ FileSize > 0
  BY GapListConstants
<1>2. NoPart \notin Parts /\ NoPart = -1
  BY DEF NoPart, Parts
<1>3. CASE /\ m_gaplist = [e \in {FileSize - 1} |-> 0]
           /\ m_partsComplete = [p \in Parts |-> "incomplete"]
  <2>1. Ends = {FileSize - 1} /\ \A e \in Ends : m_gaplist[e] = 0
    BY <1>3 DEF Ends
  <2>2. Missing = AllBytes
    BY <1>1, <2>1 DEF Init, Missing, Listed, AllBytes
  <2>3. ListTypes
    BY <1>1, <1>2, <1>3, <2>1 DEF Init, ListTypes, AllBytes, Statuses
  <2>4. GapsApart /\ Passed
    BY <1>1, <2>1 DEF Init, GapsApart, Passed
  <2>5. \A p \in Parts : PartStart(p) \in (PartStart(p)..PartEnd(p)) \cap AllBytes
    BY PartRange DEF AllBytes
  <2>6. PartCacheRight
    BY <1>3, <2>2, <2>5 DEF PartCacheRight
  <2> QED
    BY <2>2, <2>3, <2>4, <2>6 DEF GapListInv, Bytes!Init, Bytes!AllBytes, AllBytes, Init
<1>4. CASE /\ m_gaplist = [e \in {} |-> 0]
           /\ m_partsComplete = [p \in Parts |-> "complete"]
  <2>1. Ends = {}
    BY <1>4 DEF Ends
  <2>2. Missing = {}
    BY <2>1 DEF Init, Missing, Listed
  <2>3. ListTypes
    BY <1>1, <1>2, <1>4, <2>1 DEF Init, ListTypes, AllBytes, Statuses
  <2>4. GapsApart /\ Passed
    BY <1>1, <2>1 DEF Init, GapsApart, Passed
  <2>5. PartCacheRight
    BY <1>4, <2>2 DEF PartCacheRight
  <2> QED
    BY <2>2, <2>3, <2>4, <2>5 DEF GapListInv, Bytes!Init, Init
<1> QED
  BY <1>3, <1>4 DEF Init

\* A call of AddGap or FillGap: the marks it sets fit its effect.
LEMMA CallInv ==
  ASSUME GapListInv, pc = "idle",
         NEW s \in AllBytes, NEW e \in AllBytes, s <= e,
         NEW part \in Parts \cup {NoPart},
         part # NoPart => s <= PartStart(part) /\ PartEnd(part) <= e,
         gapstart' = s, gapend' = e, wholePart' = part, m_gaplist' = m_gaplist
  PROVE  /\ (pc' = "add" /\ it' = FirstTouching(s)
              /\ m_partsComplete' = Mark(s, e, "incomplete")) =>
               GapListInv' /\ Missing' = Missing \cup (s..e)
         /\ (pc' = "fill" /\ it' = s
              /\ m_partsComplete' = Mark(s, e, "unknown")) =>
               GapListInv' /\ Missing' = Missing \ (s..e)
<1> USE DEF GapListInv
<1>0. /\ FileSize \in Nat /\ s \in Nat /\ e \in Nat /\ s < FileSize /\ e < FileSize
      /\ Missing = Listed /\ Listed' = Listed /\ Ends' = Ends
  BY GapListConstants DEF AllBytes, Missing, Listed, Ends
<1>1. /\ \A p \in Parts : p \in Involved(s, e) =>
           \E b \in s..e : b \in PartStart(p)..PartEnd(p)
      /\ \A p \in Parts : p \notin Involved(s, e) =>
           \A b \in s..e : b \notin PartStart(p)..PartEnd(p)
  BY InvolvedMeets
<1>2. GapsApart'
  BY <1>0 DEF GapsApart
<1>3. ASSUME pc' = "add", it' = FirstTouching(s),
             m_partsComplete' = Mark(s, e, "incomplete")
      PROVE  GapListInv' /\ Missing' = Missing \cup (s..e)
  <2>1. Missing' = Missing \cup (s..e)
    BY <1>0, <1>3 DEF Missing
  <2>2. ListTypes'
    BY <1>0, <1>3 DEF ListTypes, FirstTouching, Mark, Statuses, AllBytes
  <2>3. Passed'
    BY <1>0, <1>3 DEF Passed, FirstTouching, ListTypes, AllBytes
  <2>4. PartCacheRight'
    <3> SUFFICES ASSUME NEW p \in Parts
                 PROVE  /\ m_partsComplete'[p] = "complete" =>
                             (PartStart(p)..PartEnd(p)) \cap Missing' = {}
                        /\ m_partsComplete'[p] = "incomplete" =>
                             (PartStart(p)..PartEnd(p)) \cap Missing' # {}
      BY DEF PartCacheRight
    <3>1. CASE p \in Involved(s, e)
      <4>1. m_partsComplete'[p] = "incomplete"
        BY <1>3, <3>1 DEF Mark
      <4> QED BY <1>1, <2>1, <3>1, <4>1
    <3>2. CASE p \notin Involved(s, e)
      <4>1. m_partsComplete'[p] = m_partsComplete[p]
        BY <1>3, <3>2 DEF Mark
      <4> QED BY <1>1, <2>1, <3>2, <4>1 DEF PartCacheRight
    <3> QED BY <3>1, <3>2
  <2> QED BY <1>2, <2>1, <2>2, <2>3, <2>4
<1>4. ASSUME pc' = "fill", it' = s, m_partsComplete' = Mark(s, e, "unknown")
      PROVE  GapListInv' /\ Missing' = Missing \ (s..e)
  <2>1. Missing' = Missing \ (s..e)
    BY <1>0, <1>4 DEF Missing
  <2>2. ListTypes'
    BY <1>0, <1>4 DEF ListTypes, Mark, Statuses, AllBytes
  <2>3. Passed'
    BY <1>0, <1>4 DEF Passed, ListTypes, AllBytes
  <2>4. PartCacheRight'
    <3> SUFFICES ASSUME NEW p \in Parts
                 PROVE  /\ m_partsComplete'[p] = "complete" =>
                             (PartStart(p)..PartEnd(p)) \cap Missing' = {}
                        /\ m_partsComplete'[p] = "incomplete" =>
                             (PartStart(p)..PartEnd(p)) \cap Missing' # {}
      BY DEF PartCacheRight
    <3>1. CASE p \in Involved(s, e)
      <4>1. m_partsComplete'[p] = "unknown"
        BY <1>4, <3>1 DEF Mark
      <4> QED BY <4>1
    <3>2. CASE p \notin Involved(s, e)
      <4>1. m_partsComplete'[p] = m_partsComplete[p]
        BY <1>4, <3>2 DEF Mark
      <4>2. (PartStart(p)..PartEnd(p)) \cap Missing'
              = (PartStart(p)..PartEnd(p)) \cap Missing
        BY <1>1, <2>1, <3>2
      <4> QED BY <4>1, <4>2 DEF PartCacheRight
    <3> QED BY <3>1, <3>2
  <2> QED BY <1>2, <2>1, <2>2, <2>3, <2>4
<1> QED BY <1>3, <1>4

------------------------------------------------------------------------------
\* A turn of a loop that changes neither the missing bytes nor the marks.
LEMMA ContinueRight ==
  ASSUME GapListInv, Missing' = Missing, m_partsComplete' = m_partsComplete
  PROVE  PartCacheRight'
BY DEF GapListInv, PartCacheRight

\* The state that a call by part sets at its end fits: its part is inside
\* the range.
LEMMA ReturnRight ==
  ASSUME GapListInv, Missing' = Missing, NEW status \in Statuses,
         Return(status),
         \/ pc = "add" /\ status = "incomplete"
         \/ pc = "fill" /\ status = "complete"
  PROVE  /\ PartCacheRight' /\ Passed'
         /\ m_partsComplete' \in [Parts -> Statuses]
         /\ pc' = "idle" /\ gapstart' \in AllBytes /\ gapend' \in AllBytes
         /\ it' \in 0..FileSize /\ wholePart' \in Parts \cup {NoPart}
<1> USE DEF GapListInv, Return
<1>0. FileSize \in Nat /\ FileSize > 0 /\ NoPart \notin Parts
  BY GapListConstants DEF NoPart, Parts
<1>1. /\ m_partsComplete' \in [Parts -> Statuses]
      /\ pc' = "idle" /\ gapstart' \in AllBytes /\ gapend' \in AllBytes
      /\ it' \in 0..FileSize /\ wholePart' \in Parts \cup {NoPart}
  BY <1>0 DEF ListTypes, AllBytes
<1>2. Passed'
  BY DEF Passed
<1>3. ASSUME NEW p \in Parts
      PROVE  /\ m_partsComplete'[p] = "complete" =>
                  (PartStart(p)..PartEnd(p)) \cap Missing' = {}
             /\ m_partsComplete'[p] = "incomplete" =>
                  (PartStart(p)..PartEnd(p)) \cap Missing' # {}
  <2>1. CASE p # wholePart
    <3>1. m_partsComplete'[p] = m_partsComplete[p]
      BY <2>1
    <3> QED BY <3>1 DEF PartCacheRight
  <2>2. CASE p = wholePart
    <3>1. m_partsComplete'[p] = status
      BY <2>2
    <3>2. /\ PartStart(p) \in PartStart(p)..PartEnd(p)
          /\ PartStart(p)..PartEnd(p) \subseteq gapstart..gapend
      BY <1>0, <2>2, PartRange DEF Passed, ListTypes, AllBytes
    <3>3. CASE pc = "add" /\ status = "incomplete"
      <4>1. gapstart..gapend \subseteq Missing
        BY <3>3 DEF Missing
      <4> QED BY <3>1, <3>2, <3>3, <4>1
    <3>4. CASE pc = "fill" /\ status = "complete"
      <4>1. (gapstart..gapend) \cap Missing = {}
        BY <3>4 DEF Missing
      <4> QED BY <3>1, <3>2, <3>4, <4>1
    <3> QED BY <3>3, <3>4
  <2> QED BY <2>1, <2>2
<1>4. PartCacheRight'
  BY <1>3 DEF PartCacheRight
<1> QED BY <1>1, <1>2, <1>4

\* What the loops know of the gap they look at ...
LEMMA Before ==
  ASSUME GapListInv, NEW cur \in Ends, IsCurrent(cur)
  PROVE  /\ cur \in Nat /\ cur < FileSize /\ it <= cur
         /\ m_gaplist[cur] \in Nat /\ m_gaplist[cur] <= cur
         /\ FileSize \in Nat
         /\ gapstart \in Nat /\ gapend \in Nat /\ gapstart <= gapend
         /\ gapstart < FileSize /\ gapend < FileSize /\ it \in Nat
BY GapListConstants
   DEF GapListInv, IsCurrent, ListTypes, AllBytes, GapsApart, Passed

\* ... and of the others: those before it the iterator has passed.
LEMMA Order ==
  ASSUME GapListInv, NEW cur \in Ends, IsCurrent(cur), NEW e \in Ends
  PROVE  /\ e \in Nat /\ e < FileSize
         /\ m_gaplist[e] \in Nat /\ m_gaplist[e] <= e
         /\ e < cur => e < it /\ e + 1 < m_gaplist[cur]
         /\ e > cur => cur + 1 < m_gaplist[e]
BY GapListConstants
   DEF GapListInv, IsCurrent, ListTypes, AllBytes, GapsApart, Passed

\* The turns of AddGap's loop that erase a gap leave the missing bytes as
\* they are: the range has taken the gap in.
LEMMA AddTurnInv ==
  ASSUME GapListInv, pc = "add", NEW cur \in Ends, IsCurrent(cur),
         AddErase(cur) \/ AddJoinHead(cur) \/ AddJoinTail(cur)
  PROVE  GapListInv' /\ Missing' = Missing
<1> USE DEF GapListInv
<1>0. /\ cur \in Nat /\ cur < FileSize /\ it <= cur
      /\ m_gaplist[cur] \in Nat /\ m_gaplist[cur] <= cur
      /\ FileSize \in Nat
      /\ gapstart \in Nat /\ gapend \in Nat /\ gapstart <= gapend
      /\ gapstart < FileSize /\ gapend < FileSize /\ it \in Nat
  BY Before
<1>00. \A e \in Ends : /\ e \in Nat /\ e < FileSize
                       /\ m_gaplist[e] \in Nat /\ m_gaplist[e] <= e
                       /\ e < cur => e < it /\ e + 1 < m_gaplist[cur]
                       /\ e > cur => cur + 1 < m_gaplist[e]
  BY Order
<1>1. /\ Ends' = Ends \ {cur} /\ \A e \in Ends' : m_gaplist'[e] = m_gaplist[e]
      /\ pc' = "add" /\ it' = cur + 1 /\ wholePart' = wholePart
      /\ m_partsComplete' = m_partsComplete
  BY DEF AddErase, AddJoinHead, AddJoinTail, Erase, Continue, Ends
<1>2. /\ gapstart' \in Nat /\ gapend' \in Nat /\ gapstart' <= gapstart
      /\ gapend <= gapend' /\ gapend' < FileSize
      /\ gapstart' <= m_gaplist[cur] /\ cur <= gapend'
      /\ gapstart' = gapstart \/ gapstart' = m_gaplist[cur]
      /\ gapend' = gapend \/ gapend' = cur
      /\ m_gaplist[cur] <= gapend + 1 /\ gapstart <= cur + 1
  <2>1. CASE AddErase(cur)
    BY <1>0, <2>1 DEF AddErase, Inside
  <2>2. CASE AddJoinHead(cur)
    BY <1>0, <2>2 DEF AddJoinHead, JoinEnd, Inside, HeadJoins
  <2>3. CASE AddJoinTail(cur)
    BY <1>0, <2>3 DEF AddJoinTail, Inside, HeadJoins, TailJoins
  <2> QED BY <2>1, <2>2, <2>3
<1>3. ASSUME NEW b \in Nat
      PROVE  b \in gapstart'..gapend' <=>
               b \in gapstart..gapend \/ (m_gaplist[cur] <= b /\ b <= cur)
  BY <1>0, <1>2
<1>4. Missing' = Missing
  <2>1. ASSUME NEW b \in AllBytes
        PROVE  b \in Listed' \/ b \in gapstart'..gapend' <=>
                 b \in Listed \/ b \in gapstart..gapend
    <3>1. b \in Listed' <=> \E e \in Ends \ {cur} : m_gaplist[e] <= b /\ b <= e
      BY <1>1 DEF Listed
    <3>2. b \in Listed <=> \E e \in Ends : m_gaplist[e] <= b /\ b <= e
      BY DEF Listed
    <3>3. b \in Nat
      BY <1>0 DEF AllBytes
    <3> QED BY <1>3, <3>1, <3>2, <3>3
  <2>2. gapstart'..gapend' \subseteq AllBytes /\ gapstart..gapend \subseteq AllBytes
    BY <1>0, <1>2 DEF AllBytes
  <2> QED BY <1>1, <2>1, <2>2 DEF Missing, Listed
<1>5. ListTypes'
  BY <1>0, <1>1, <1>2 DEF ListTypes, AllBytes
<1>6. GapsApart'
  BY <1>1 DEF GapsApart
<1>7. Passed'
  <2>1. \A e \in Ends' : e < cur + 1 => e + 1 < gapstart'
    BY <1>0, <1>00, <1>1, <1>2 DEF Passed
  <2>2. wholePart # NoPart => /\ gapstart' <= PartStart(wholePart)
                              /\ PartEnd(wholePart) <= gapend'
    <3>1. ASSUME wholePart # NoPart
          PROVE  PartStart(wholePart) \in Nat /\ PartEnd(wholePart) \in Nat
      BY <1>0, <3>1, PartRange DEF ListTypes, AllBytes
    <3> QED BY <1>0, <1>2, <3>1 DEF Passed
  <2> QED BY <1>0, <1>1, <1>2, <2>1, <2>2 DEF Passed
<1>8. PartCacheRight'
  BY <1>1, <1>4, ContinueRight
<1> QED BY <1>4, <1>5, <1>6, <1>7, <1>8

\* The early return of AddGap: the range is missing already.
LEMMA AddEnclosedInv ==
  ASSUME GapListInv, pc = "add", NEW cur \in Ends, IsCurrent(cur),
         AddEnclosed(cur)
  PROVE  GapListInv' /\ Missing' = Missing
<1> USE DEF GapListInv
<1>0. /\ cur \in Nat /\ cur < FileSize /\ m_gaplist[cur] \in Nat
      /\ FileSize \in Nat /\ gapstart \in Nat /\ gapend \in Nat
  BY Before
<1>1. m_gaplist' = m_gaplist /\ Return("incomplete") /\ Encloses(cur)
  BY DEF AddEnclosed
<1>2. Listed' = Listed /\ Ends' = Ends
  BY <1>1 DEF Listed, Ends
<1>3. gapstart..gapend \subseteq Listed
  BY <1>0, <1>1 DEF Listed, Encloses, AllBytes
<1>4. Missing' = Missing
  BY <1>1, <1>2, <1>3 DEF Missing, Return
<1>5. /\ PartCacheRight' /\ Passed'
      /\ m_partsComplete' \in [Parts -> Statuses]
      /\ pc' = "idle" /\ gapstart' \in AllBytes /\ gapend' \in AllBytes
      /\ it' \in 0..FileSize /\ wholePart' \in Parts \cup {NoPart}
  BY <1>1, <1>4, ReturnRight DEF Statuses
<1>6. ListTypes' /\ GapsApart'
  BY <1>1, <1>2, <1>5 DEF ListTypes, GapsApart
<1> QED BY <1>4, <1>5, <1>6

\* The new gap is clear of those before it and of those behind it.
LEMMA AddInsertInv ==
  ASSUME GapListInv, AddInsert
  PROVE  GapListInv' /\ Missing' = Missing
<1> USE DEF GapListInv
<1>0. /\ FileSize \in Nat /\ it \in Nat
      /\ gapstart \in Nat /\ gapend \in Nat /\ gapstart <= gapend
      /\ gapstart < FileSize /\ gapend < FileSize
      /\ pc = "add" /\ Return("incomplete") /\ pc' = "idle"
      /\ m_gaplist' = Insert(m_gaplist, gapend, gapstart)
  BY GapListConstants DEF ListTypes, AllBytes, Passed, AddInsert, Return
<1>00. \A e \in Ends : /\ e \in Nat /\ e < FileSize
                       /\ m_gaplist[e] \in Nat /\ m_gaplist[e] <= e
                       /\ e < it => e + 1 < gapstart
  BY <1>0 DEF ListTypes, AllBytes, GapsApart, Passed
<1>1. ASSUME NEW e \in Ends
      PROVE  e + 1 < gapstart \/ gapend + 1 < m_gaplist[e]
  <2>1. CASE AtEnd
    BY <1>00, <2>1 DEF AtEnd
  <2>2. ASSUME NEW cur \in Ends, IsCurrent(cur), NoOverlap(cur),
               m_gaplist[cur] > gapstart
        PROVE  e + 1 < gapstart \/ gapend + 1 < m_gaplist[e]
    <3>1. cur \in Nat /\ m_gaplist[cur] \in Nat /\ gapend + 1 < m_gaplist[cur]
      BY <1>0, <1>00, <2>2 DEF NoOverlap, HeadJoins
    <3>2. CASE e < cur
      BY <1>00, <2>2, <3>2, Order
    <3>3. CASE e > cur
      BY <1>0, <1>00, <2>2, <3>1, <3>3, Order
    <3>4. CASE e = cur
      BY <3>1, <3>4
    <3> QED BY <1>00, <3>1, <3>2, <3>3, <3>4
  <2> QED BY <2>1, <2>2 DEF AddInsert
<1>2. gapend \notin Ends
  BY <1>0, <1>00, <1>1
<1>3. /\ Ends' = Ends \cup {gapend} /\ m_gaplist'[gapend] = gapstart
      /\ \A e \in Ends : m_gaplist'[e] = m_gaplist[e]
  BY <1>0, <1>2 DEF Insert, Ends
<1>4. Missing' = Missing
  <2>1. ASSUME NEW b \in AllBytes
        PROVE  b \in Listed' <=> b \in Listed \/ b \in gapstart..gapend
    <3>1. b \in Listed' <=> \E e \in Ends' : m_gaplist'[e] <= b /\ b <= e
      BY DEF Listed
    <3>2. b \in Listed <=> \E e \in Ends : m_gaplist[e] <= b /\ b <= e
      BY DEF Listed
    <3>3. b \in gapstart..gapend <=> gapstart <= b /\ b <= gapend
      BY <1>0 DEF AllBytes
    <3> QED BY <1>3, <3>1, <3>2, <3>3
  <2>2. gapstart..gapend \subseteq AllBytes
    BY <1>0 DEF AllBytes
  <2> QED BY <1>0, <2>1, <2>2 DEF Missing, Listed
<1>5. /\ PartCacheRight' /\ Passed'
      /\ m_partsComplete' \in [Parts -> Statuses]
      /\ gapstart' \in AllBytes /\ gapend' \in AllBytes
      /\ it' \in 0..FileSize /\ wholePart' \in Parts \cup {NoPart}
  BY <1>0, <1>4, ReturnRight DEF Statuses
<1>6. ListTypes'
  BY <1>0, <1>3, <1>5 DEF ListTypes, AllBytes
<1>7. GapsApart'
  BY <1>0, <1>00, <1>1, <1>3 DEF GapsApart
<1> QED BY <1>4, <1>5, <1>6, <1>7

------------------------------------------------------------------------------
\* FillGap's loop goes on: a gap, or its upper end, was in the range.
LEMMA FillTurnInv ==
  ASSUME GapListInv, pc = "fill", NEW cur \in Ends, IsCurrent(cur),
         FillErase(cur) \/ FillUpper(cur)
  PROVE  GapListInv' /\ Missing' = Missing
<1> USE DEF GapListInv
<1>0. /\ cur \in Nat /\ cur < FileSize /\ it <= cur
      /\ m_gaplist[cur] \in Nat /\ m_gaplist[cur] <= cur
      /\ FileSize \in Nat
      /\ gapstart \in Nat /\ gapend \in Nat /\ gapstart <= gapend
      /\ gapstart < FileSize /\ gapend < FileSize /\ it \in Nat
  BY Before
<1>00. \A e \in Ends : /\ e \in Nat /\ e < FileSize
                       /\ m_gaplist[e] \in Nat /\ m_gaplist[e] <= e
                       /\ e < cur => e < it /\ e + 1 < m_gaplist[cur]
                       /\ e > cur => cur + 1 < m_gaplist[e]
  BY Order
<1>1. /\ pc' = "fill" /\ it' = cur + 1 /\ wholePart' = wholePart
      /\ m_partsComplete' = m_partsComplete
      /\ gapstart' = gapstart /\ gapend' = gapend
  BY DEF FillErase, FillUpper, Continue
<1>2. \A e \in Ends : e < cur => e < gapstart
  BY <1>00 DEF Passed
<1>3. CASE FillErase(cur)
  <2>1. /\ Ends' = Ends \ {cur} /\ \A e \in Ends' : m_gaplist'[e] = m_gaplist[e]
        /\ m_gaplist[cur] >= gapstart /\ cur <= gapend
    BY <1>3 DEF FillErase, Erase, Ends
  <2>2. Missing' = Missing
    <3>1. ASSUME NEW b \in AllBytes, b \notin gapstart..gapend
          PROVE  b \in Listed' <=> b \in Listed
      <4>1. b \in Listed' <=> \E e \in Ends' : m_gaplist'[e] <= b /\ b <= e
        BY DEF Listed
      <4>2. b \in Listed <=> \E e \in Ends : m_gaplist[e] <= b /\ b <= e
        BY DEF Listed
      <4>3. ~(m_gaplist[cur] <= b /\ b <= cur)
        BY <1>0, <2>1, <3>1 DEF AllBytes
      <4> QED BY <2>1, <4>1, <4>2, <4>3
    <3> QED BY <1>1, <3>1 DEF Missing, Listed
  <2>3. ListTypes'
    BY <1>0, <1>1, <2>1 DEF ListTypes, AllBytes
  <2>4. GapsApart'
    BY <2>1 DEF GapsApart
  <2>5. Passed'
    BY <1>0, <1>00, <1>1, <1>2, <2>1 DEF Passed
  <2> QED BY <1>1, <2>2, <2>3, <2>4, <2>5, ContinueRight
<1>4. CASE FillUpper(cur)
  <2>1. m_gaplist[cur] < gapstart /\ cur <= gapend /\ cur >= gapstart
    BY <1>4 DEF FillUpper
  <2>2. gapstart - 1 \in Nat /\ gapstart - 1 \notin Ends /\ gapstart - 1 # cur
    BY <1>0, <1>00, <2>1
  <2>3. /\ Ends' = (Ends \ {cur}) \cup {gapstart - 1}
        /\ m_gaplist'[gapstart - 1] = m_gaplist[cur]
        /\ \A e \in Ends \ {cur} : m_gaplist'[e] = m_gaplist[e]
    BY <1>4, <2>2 DEF FillUpper, Erase, Insert, Ends
  <2>4. Missing' = Missing
    <3>1. ASSUME NEW b \in AllBytes, b \notin gapstart..gapend
          PROVE  b \in Listed' <=> b \in Listed
      <4>1. b \in Listed' <=> \E e \in Ends' : m_gaplist'[e] <= b /\ b <= e
        BY DEF Listed
      <4>2. b \in Listed <=> \E e \in Ends : m_gaplist[e] <= b /\ b <= e
        BY DEF Listed
      <4>3. m_gaplist[cur] <= b /\ b <= cur <=>
              m_gaplist[cur] <= b /\ b <= gapstart - 1
        BY <1>0, <2>1, <3>1 DEF AllBytes
      <4> QED BY <2>3, <4>1, <4>2, <4>3
    <3> QED BY <1>1, <3>1 DEF Missing, Listed
  <2>5. ListTypes'
    BY <1>0, <1>00, <1>1, <2>2, <2>3 DEF ListTypes, AllBytes
  <2>6. GapsApart'
    BY <1>0, <1>00, <1>2, <2>1, <2>3 DEF GapsApart
  <2>7. Passed'
    BY <1>0, <1>00, <1>1, <1>2, <2>3 DEF Passed
  <2> QED BY <1>1, <2>4, <2>5, <2>6, <2>7, ContinueRight
<1> QED BY <1>3, <1>4

\* FillGap's loop ends inside a gap: what lies behind the range stays, as
\* does what lies before it if the gap began there.
LEMMA FillCutInv ==
  ASSUME GapListInv, pc = "fill", NEW cur \in Ends, IsCurrent(cur),
         FillLower(cur) \/ FillSplit(cur)
  PROVE  GapListInv' /\ Missing' = Missing
<1> USE DEF GapListInv
<1>0. /\ cur \in Nat /\ cur < FileSize /\ it <= cur
      /\ m_gaplist[cur] \in Nat /\ m_gaplist[cur] <= cur
      /\ FileSize \in Nat
      /\ gapstart \in Nat /\ gapend \in Nat /\ gapstart <= gapend
      /\ gapstart < FileSize /\ gapend < FileSize /\ it \in Nat
  BY Before
<1>00. \A e \in Ends : /\ e \in Nat /\ e < FileSize
                       /\ m_gaplist[e] \in Nat /\ m_gaplist[e] <= e
                       /\ e < cur => e < it /\ e + 1 < m_gaplist[cur]
                       /\ e > cur => cur + 1 < m_gaplist[e]
  BY Order
<1>1. Return("complete") /\ pc' = "idle" /\ cur > gapend /\ m_gaplist[cur] <= gapend
  BY <1>0 DEF FillLower, FillSplit, Return
<1>2. \A e \in Ends : e < cur => e < gapstart
  BY <1>00 DEF Passed
<1>3. /\ \A e \in Ends : e \in Ends' /\ (e # cur => m_gaplist'[e] = m_gaplist[e])
      /\ m_gaplist'[cur] = gapend + 1
      /\ \A e \in Ends' : e \in Ends \/ /\ m_gaplist[cur] < gapstart
                                        /\ e = gapstart - 1
                                        /\ m_gaplist'[e] = m_gaplist[cur]
      /\ m_gaplist[cur] < gapstart => gapstart - 1 \in Ends'
                                       /\ gapstart - 1 \notin Ends
  <2>1. CASE FillLower(cur)
    BY <1>0, <2>1 DEF FillLower, Ends
  <2>2. CASE FillSplit(cur)
    <3>1. gapstart - 1 \in Nat /\ gapstart - 1 \notin Ends /\ gapstart - 1 # cur
      BY <1>0, <1>00, <2>2 DEF FillSplit
    <3>2. /\ Ends' = Ends \cup {gapstart - 1}
          /\ m_gaplist'[gapstart - 1] = m_gaplist[cur]
          /\ m_gaplist'[cur] = gapend + 1
          /\ \A e \in Ends \ {cur} : m_gaplist'[e] = m_gaplist[e]
      BY <2>2, <3>1 DEF FillSplit, Insert, Ends
    <3> QED BY <2>2, <3>1, <3>2 DEF FillSplit
  <2> QED BY <2>1, <2>2
<1> DEFINE Earlier(e) == e \in Ends /\ e < cur /\ e < gapstart
                           /\ m_gaplist'[e] = m_gaplist[e] /\ e + 1 < m_gaplist[cur]
<1> DEFINE Later(e) == e \in Ends /\ e > cur
                         /\ m_gaplist'[e] = m_gaplist[e] /\ cur + 1 < m_gaplist[e]
<1> DEFINE Rest(e) == e = cur /\ m_gaplist'[e] = gapend + 1
<1> DEFINE LowHalf(e) == e \notin Ends /\ e = gapstart - 1
                        /\ m_gaplist'[e] = m_gaplist[cur] /\ m_gaplist[cur] < gapstart
<1>31. ASSUME NEW e \in Ends'
       PROVE  Earlier(e) \/ Later(e) \/ Rest(e) \/ LowHalf(e)
  <2>1. CASE e \in Ends
    <3>1. e \in Nat
      BY <1>00, <2>1
    <3>2. e < cur \/ e > cur \/ e = cur
      BY <1>0, <3>1
    <3> QED BY <1>00, <1>2, <1>3, <2>1, <3>2
  <2>2. CASE e \notin Ends
    BY <1>3, <2>2
  <2> QED BY <2>1, <2>2
<1>32. ASSUME NEW e \in Ends'
       PROVE  /\ e \in Nat /\ e < FileSize
              /\ m_gaplist'[e] \in Nat /\ m_gaplist'[e] <= e
  <2>1. CASE Earlier(e) \/ Later(e)
    BY <1>00, <2>1
  <2>2. CASE Rest(e)
    BY <1>0, <1>1, <2>2
  <2>3. CASE LowHalf(e)
    BY <1>0, <2>3
  <2> QED BY <1>31, <2>1, <2>2, <2>3
<1>4. ASSUME NEW b \in AllBytes
      PROVE  b \in Listed' <=> b \in Listed /\ b \notin gapstart..gapend
  <2>0. b \in Nat /\ (b \in gapstart..gapend <=> gapstart <= b /\ b <= gapend)
    BY <1>0 DEF AllBytes
  <2>1. b \in Listed' <=> \E e \in Ends' : m_gaplist'[e] <= b /\ b <= e
    BY DEF Listed
  <2>2. b \in Listed <=> \E e \in Ends : m_gaplist[e] <= b /\ b <= e
    BY DEF Listed
  <2>3. ASSUME NEW e \in Ends', m_gaplist'[e] <= b, b <= e
        PROVE  b \in Listed /\ b \notin gapstart..gapend
    <3>0. e \in Nat /\ m_gaplist'[e] \in Nat
      BY <1>32
    <3>1. CASE Earlier(e)
      BY <1>0, <2>0, <2>2, <2>3, <3>0, <3>1
    <3>2. CASE Later(e)
      BY <1>0, <1>1, <2>0, <2>2, <2>3, <3>0, <3>2
    <3>3. CASE Rest(e)
      BY <1>0, <1>1, <2>0, <2>2, <2>3, <3>3
    <3>4. CASE LowHalf(e)
      BY <1>0, <1>1, <2>0, <2>2, <2>3, <3>4
    <3> QED BY <1>31, <3>1, <3>2, <3>3, <3>4
  <2>4. ASSUME NEW e \in Ends, m_gaplist[e] <= b, b <= e, b \notin gapstart..gapend
        PROVE  b \in Listed'
    <3>1. CASE e # cur
      BY <1>3, <2>1, <2>4, <3>1
    <3>2. CASE e = cur /\ b > gapend
      BY <1>0, <1>3, <2>0, <2>1, <2>4, <3>2
    <3>3. CASE e = cur /\ b < gapstart
      BY <1>0, <1>3, <2>0, <2>1, <2>4, <3>3
    <3> QED BY <1>0, <2>0, <2>4, <3>1, <3>2, <3>3
  <2> QED BY <2>1, <2>2, <2>3, <2>4
<1>5. Missing' = Missing
  BY <1>1, <1>4 DEF Missing, Listed
<1>6. /\ PartCacheRight' /\ Passed'
      /\ m_partsComplete' \in [Parts -> Statuses]
      /\ gapstart' \in AllBytes /\ gapend' \in AllBytes
      /\ it' \in 0..FileSize /\ wholePart' \in Parts \cup {NoPart}
  BY <1>1, <1>5, ReturnRight DEF Statuses
<1>7. ListTypes'
  BY <1>0, <1>1, <1>32, <1>6 DEF ListTypes, AllBytes
<1>8. ASSUME NEW d \in Ends', NEW e \in Ends', d < e
      PROVE  d + 1 < m_gaplist'[e]
  <2>0. /\ d \in Nat /\ e \in Nat
        /\ m_gaplist'[d] \in Nat /\ m_gaplist'[e] \in Nat
    BY <1>32
  <2>1. CASE Earlier(e)
    BY <1>0, <1>1, <1>31, <1>8, <2>0, <2>1 DEF GapsApart
  <2>2. CASE Later(e)
    BY <1>0, <1>1, <1>31, <1>8, <2>0, <2>2 DEF GapsApart
  <2>3. CASE Rest(e)
    BY <1>0, <1>1, <1>31, <1>8, <2>0, <2>3
  <2>4. CASE LowHalf(e)
    BY <1>0, <1>1, <1>31, <1>8, <2>0, <2>4
  <2> QED BY <1>31, <2>1, <2>2, <2>3, <2>4
<1>9. GapsApart'
  BY <1>32, <1>8 DEF GapsApart
<1> QED BY <1>5, <1>6, <1>7, <1>9

\* FillGap's loop ends between gaps: no gap overlaps the range any more.
LEMMA FillDoneInv ==
  ASSUME GapListInv, FillDone
  PROVE  GapListInv' /\ Missing' = Missing
<1> USE DEF GapListInv
<1>0. /\ FileSize \in Nat /\ it \in Nat
      /\ gapstart \in Nat /\ gapend \in Nat /\ gapstart <= gapend
      /\ pc = "fill" /\ Return("complete") /\ pc' = "idle" /\ m_gaplist' = m_gaplist
  BY GapListConstants DEF ListTypes, AllBytes, Passed, FillDone, Return
<1>00. \A e \in Ends : /\ e \in Nat /\ m_gaplist[e] \in Nat
                       /\ e < it => e < gapstart
  BY <1>0 DEF ListTypes, AllBytes, Passed
<1>1. ASSUME NEW e \in Ends PROVE e < gapstart \/ gapend < m_gaplist[e]
  <2>1. CASE AtEnd
    BY <1>00, <2>1 DEF AtEnd
  <2>2. ASSUME NEW cur \in Ends, IsCurrent(cur), m_gaplist[cur] > gapend,
               cur > gapend
        PROVE  e < gapstart \/ gapend < m_gaplist[e]
    <3>0. cur \in Nat /\ m_gaplist[cur] \in Nat /\ e \in Nat /\ m_gaplist[e] \in Nat
      BY <1>00
    <3>1. CASE e < cur
      BY <1>00, <2>2, <3>1, Order
    <3>2. CASE e > cur
      BY <1>0, <2>2, <3>0, <3>2, Order
    <3>3. CASE e = cur
      BY <2>2, <3>3
    <3> QED BY <3>0, <3>1, <3>2, <3>3
  <2> QED BY <2>1, <2>2 DEF FillDone
<1>2. Listed' = Listed /\ Ends' = Ends
  BY <1>0 DEF Listed, Ends
<1>3. ASSUME NEW b \in Listed PROVE b \notin gapstart..gapend
  BY <1>0, <1>00, <1>1 DEF Listed, AllBytes
<1>4. Missing' = Missing
  BY <1>0, <1>2, <1>3 DEF Missing
<1>5. /\ PartCacheRight' /\ Passed'
      /\ m_partsComplete' \in [Parts -> Statuses]
      /\ gapstart' \in AllBytes /\ gapend' \in AllBytes
      /\ it' \in 0..FileSize /\ wholePart' \in Parts \cup {NoPart}
  BY <1>0, <1>4, ReturnRight DEF Statuses
<1>6. ListTypes' /\ GapsApart'
  BY <1>0, <1>2, <1>5 DEF ListTypes, GapsApart
<1> QED BY <1>4, <1>5, <1>6

------------------------------------------------------------------------------
\* IsComplete(start, end) tells whether a byte of the range is listed.
LEMMA QueryExact ==
  ASSUME GapListInv, NEW s \in AllBytes, NEW e \in AllBytes, s <= e
  PROVE  IsComplete(s, e) <=> (s..e) \cap Listed = {}
<1>0. /\ FileSize \in Nat /\ s \in Nat /\ e \in Nat
      /\ \A c \in Ends : /\ c \in Nat /\ c < FileSize
                          /\ m_gaplist[c] \in Nat /\ m_gaplist[c] <= c
  BY GapListConstants DEF GapListInv, ListTypes, AllBytes, GapsApart
<1>1. ASSUME NEW c \in Ends, c >= s,
             \/ m_gaplist[c] >= s /\ c <= e
             \/ m_gaplist[c] >= s /\ m_gaplist[c] <= e
             \/ c <= e /\ c >= s
             \/ s >= m_gaplist[c] /\ e <= c
      PROVE  (s..e) \cap Listed # {}
  <2> DEFINE b == IF m_gaplist[c] >= s THEN m_gaplist[c] ELSE s
  <2>1. b \in s..e /\ b \in AllBytes /\ m_gaplist[c] <= b /\ b <= c
    BY <1>0, <1>1 DEF AllBytes
  <2> HIDE DEF b
  <2> QED BY <1>1, <2>1 DEF Listed
<1>2. ASSUME NEW b \in s..e, b \in Listed
      PROVE  \E c \in Ends :
               /\ c >= s
               /\ \/ m_gaplist[c] >= s /\ c <= e
                  \/ m_gaplist[c] >= s /\ m_gaplist[c] <= e
                  \/ c <= e /\ c >= s
                  \/ s >= m_gaplist[c] /\ e <= c
  <2>1. PICK c \in Ends : m_gaplist[c] <= b /\ b <= c
    BY <1>2 DEF Listed
  <2>2. /\ c >= s
        /\ \/ m_gaplist[c] >= s /\ c <= e
           \/ m_gaplist[c] >= s /\ m_gaplist[c] <= e
           \/ c <= e /\ c >= s
           \/ s >= m_gaplist[c] /\ e <= c
    BY <1>0, <2>1
  <2> QED BY <2>2
<1> QED BY <1>1, <1>2 DEF IsComplete

\* IsComplete(part) fills the cache with the right state.
LEMMA IsCompletePartInv ==
  ASSUME GapListInv, NEW p \in Parts, IsCompletePart(p)
  PROVE  GapListInv' /\ Missing' = Missing
<1> USE DEF GapListInv, IsCompletePart
<1>1. Missing' = Missing /\ Missing = Listed
  BY DEF Missing, Listed, Ends
<1>2. /\ PartStart(p) \in AllBytes /\ PartEnd(p) \in AllBytes
      /\ PartStart(p) <= PartEnd(p)
  BY PartRange
<1>3. IsComplete(PartStart(p), PartEnd(p)) <=>
        (PartStart(p)..PartEnd(p)) \cap Missing = {}
  BY <1>1, <1>2, QueryExact
<1>4. ListTypes'
  BY DEF ListTypes, Statuses, Ends
<1>5. GapsApart' /\ Passed'
  BY DEF GapsApart, Passed, Ends
<1>6. PartCacheRight'
  BY <1>1, <1>3 DEF PartCacheRight, ListTypes
<1> QED BY <1>1, <1>4, <1>5, <1>6

\* Each step keeps the invariant and changes the missing bytes as
\* MissingBytes allows.
LEMMA StepInv ==
  ASSUME GapListInv, [Next]_vars
  PROVE  /\ GapListInv'
         /\ [Bytes!Next]_(Bytes!vars)
<1> USE DEF Bytes!AddRange, Bytes!FillRange, Bytes!AllBytes, AllBytes
<1>0. FileSize \in Nat /\ FileSize > 0 /\ NoPart \in Parts \cup {NoPart}
  BY GapListConstants
<1>1. ASSUME NEW s \in AllBytes, NEW e \in s..FileSize,
             AddGap(s, e, NoPart) \/ FillGap(s, e, NoPart)
      PROVE  GapListInv' /\ (Bytes!AddRange \/ Bytes!FillRange)
  <2>1. Clip(e) \in AllBytes /\ s <= Clip(e)
    BY <1>0 DEF Clip
  <2>2. CASE AddGap(s, e, NoPart)
    <3>1. GapListInv' /\ Missing' = Missing \cup (s..Clip(e))
      BY <1>0, <2>1, <2>2, CallInv DEF AddGap
    <3> QED BY <2>1, <2>2, <3>1 DEF AddGap
  <2>3. CASE FillGap(s, e, NoPart)
    <3>1. GapListInv' /\ Missing' = Missing \ (s..Clip(e))
      BY <1>0, <2>1, <2>3, CallInv DEF FillGap, Reexamine
    <3> QED BY <2>1, <2>3, <3>1 DEF FillGap
  <2> QED BY <1>1, <2>2, <2>3
<1>2. ASSUME NEW p \in Parts,
             \/ AddGap(PartStart(p), PartEnd(p), p)
             \/ FillGap(PartStart(p), PartEnd(p), p)
      PROVE  GapListInv' /\ (Bytes!AddRange \/ Bytes!FillRange)
  <2> DEFINE s == PartStart(p)
  <2> DEFINE e == PartEnd(p)
  <2>1. s \in AllBytes /\ e \in AllBytes /\ s <= e
    BY PartRange
  <2>2. Clip(e) = e /\ p \in Parts \cup {NoPart}
        /\ s <= PartStart(p) /\ PartEnd(p) <= e
    BY <1>0, <2>1 DEF Clip
  <2> HIDE DEF s, e
  <2>3. CASE AddGap(s, e, p)
    <3>1. GapListInv' /\ Missing' = Missing \cup (s..e)
      BY <2>1, <2>2, <2>3, CallInv DEF AddGap
    <3> QED BY <2>1, <2>3, <3>1 DEF AddGap
  <2>4. CASE FillGap(s, e, p)
    <3>1. GapListInv' /\ Missing' = Missing \ (s..e)
      BY <2>1, <2>2, <2>4, CallInv DEF FillGap, Reexamine
    <3> QED BY <2>1, <2>4, <3>1 DEF FillGap
  <2> QED BY <1>2, <2>3, <2>4 DEF s, e
<1>3. ASSUME AddStep PROVE GapListInv' /\ Missing' = Missing /\ pc' \in {pc, "idle"}
  <2>1. GapListInv' /\ Missing' = Missing
    BY <1>3, AddTurnInv, AddEnclosedInv DEF AddStep
  <2>2. pc' \in {pc, "idle"}
    BY <1>3 DEF AddStep, AddErase, AddJoinHead, AddJoinTail, AddEnclosed,
                Continue, Return
  <2> QED BY <2>1, <2>2
<1>4. ASSUME AddInsert PROVE GapListInv' /\ Missing' = Missing /\ pc' = "idle"
  BY <1>4, AddInsertInv DEF AddInsert, Return
<1>5. ASSUME FillStep PROVE GapListInv' /\ Missing' = Missing /\ pc' \in {pc, "idle"}
  <2>1. GapListInv' /\ Missing' = Missing
    BY <1>5, FillTurnInv, FillCutInv DEF FillStep
  <2>2. pc' \in {pc, "idle"}
    BY <1>5 DEF FillStep, FillErase, FillLower, FillSplit, FillUpper,
                Continue, Return
  <2> QED BY <2>1, <2>2
<1>6. ASSUME FillDone PROVE GapListInv' /\ Missing' = Missing /\ pc' = "idle"
  BY <1>6, FillDoneInv DEF FillDone, Return
<1>7. ASSUME GetGapSize \/ UNCHANGED vars
      PROVE  GapListInv' /\ Missing' = Missing /\ pc' = pc
  <2>1. UNCHANGED <<m_gaplist, m_partsComplete, pc, gapstart, gapend, it, wholePart>>
    BY <1>7 DEF GetGapSize, vars
  <2>2. Missing' = Missing /\ Ends' = Ends
    BY <2>1 DEF Missing, Listed, Ends
  <2>3. ListTypes' /\ GapsApart' /\ Passed' /\ PartCacheRight'
    BY <2>1, <2>2 DEF GapListInv, ListTypes, GapsApart, Passed, PartCacheRight
  <2> QED BY <2>1, <2>2, <2>3 DEF GapListInv
<1>8. ASSUME NEW p \in Parts, IsCompletePart(p)
      PROVE  GapListInv' /\ Missing' = Missing /\ pc' = pc
  BY <1>8, IsCompletePartInv DEF IsCompletePart
<1>9. ASSUME Missing' = Missing, pc' \in {pc, "idle"}
      PROVE  Bytes!Return \/ UNCHANGED Bytes!vars
  BY <1>9 DEF Bytes!Return, Bytes!vars
<1> QED
  BY <1>1, <1>2, <1>3, <1>4, <1>5, <1>6, <1>7, <1>8, <1>9
     DEF Next, AddGapRange, AddGapPart, FillGapRange, FillGapPart, Bytes!Next

(***************************************************************************)
(* For a file and parts of any size, the loops of AddGap and FillGap add   *)
(* and take exactly their range, once for each call, and no other method   *)
(* of CGapList changes the missing bytes.                                  *)
(***************************************************************************)
THEOREM GapListRefinement == Spec => ImplementsMissingBytes
<1>1. Init => GapListInv /\ Bytes!Init
  BY InitInv
<1>2. GapListInv /\ [Next]_vars =>
        GapListInv' /\ [Bytes!Next]_(Bytes!vars)
  BY StepInv
<1> QED
  BY <1>1, <1>2, PTL DEF Spec, ImplementsMissingBytes, Bytes!Spec

(***************************************************************************)
(* The gaps of the map never overlap and never touch.                      *)
(***************************************************************************)
THEOREM GapsStayApart == Spec => []GapsApart
<1>1. Init => GapListInv
  BY InitInv
<1>2. GapListInv /\ [Next]_vars => GapListInv'
  BY StepInv
<1>3. GapListInv => GapsApart
  BY DEF GapListInv
<1> QED
  BY <1>1, <1>2, <1>3, PTL DEF Spec

(***************************************************************************)
(* What CGapList remembers of a part is what its gaps say.                 *)
(***************************************************************************)
THEOREM PartCacheStaysRight == Spec => []PartCacheRight
<1>1. Init => GapListInv
  BY InitInv
<1>2. GapListInv /\ [Next]_vars => GapListInv'
  BY StepInv
<1>3. GapListInv => PartCacheRight
  BY DEF GapListInv
<1> QED
  BY <1>1, <1>2, <1>3, PTL DEF Spec
------------------------------------------------------------------------------
\* g adds up the sizes before n.
SumStep(size, g, n) ==
  /\ g[0] = 0
  /\ \A k \in 1..n : g[k] = g[k - 1] + size[k - 1]

\* The function SumOfGaps chooses exists ...
LEMMA SumExists ==
  ASSUME NEW size \in [AllBytes -> Nat], NEW n \in 0..FileSize
  PROVE  \E g \in [0..n -> Nat] : SumStep(size, g, n)
<1>0. FileSize \in Nat
  BY GapListConstants
<1> DEFINE T == {m \in 0..FileSize :
                   ~\E g \in [0..m -> Nat] : SumStep(size, g, m)}
<1> SUFFICES ASSUME T # {} PROVE FALSE
  OBVIOUS
<1>a. T \in SUBSET Nat
  BY <1>0
<1>1. PICK m \in T : \A k \in T : m <= k
  <2> HIDE DEF T
  <2> QED BY <1>a, LeastNat
<1>2. m # 0
  <2>1. SumStep(size, [k \in 0..0 |-> 0], 0)
    BY DEF SumStep
  <2> QED BY <2>1
<1>3. m \in 0..FileSize /\ m - 1 \in 0..FileSize /\ m - 1 \notin T
  BY <1>0, <1>1, <1>2
<1>4. PICK g \in [0..(m - 1) -> Nat] : SumStep(size, g, m - 1)
  BY <1>3
<1> DEFINE h == [k \in 0..m |-> IF k = m THEN g[m - 1] + size[m - 1] ELSE g[k]]
<1>5. size[m - 1] \in Nat /\ g[m - 1] \in Nat
  BY <1>0, <1>2, <1>3, <1>4 DEF AllBytes
<1>6. h \in [0..m -> Nat]
  BY <1>0, <1>3, <1>5
<1>7. SumStep(size, h, m)
  <2>1. h[0] = 0
    BY <1>2, <1>3, <1>4 DEF SumStep
  <2>2. ASSUME NEW k \in 1..m PROVE h[k] = h[k - 1] + size[k - 1]
    <3>1. CASE k = m
      BY <1>0, <1>2, <1>3, <3>1
    <3>2. CASE k # m
      <4>1. k \in 1..(m - 1) /\ h[k] = g[k] /\ h[k - 1] = g[k - 1]
        BY <1>0, <1>3, <3>2
      <4> QED BY <1>4, <4>1 DEF SumStep
    <3> QED BY <3>1, <3>2
  <2> QED BY <2>1, <2>2 DEF SumStep
<1> QED
  BY <1>1, <1>6, <1>7

\* ... so SumOfGaps adds one size after the other.
LEMMA SumDef ==
  ASSUME NEW size \in [AllBytes -> Nat]
  PROVE  \E g : SumOfGaps(size) = g[FileSize] /\ SumStep(size, g, FileSize)
<1> DEFINE body(g, k) == IF k = 0 THEN 0 ELSE g[k - 1] + size[k - 1]
           sum == CHOOSE g : g = [k \in 0..FileSize |-> body(g, k)]
<1>0. FileSize \in Nat /\ FileSize \in 0..FileSize
  BY GapListConstants
<1>1. PICK g \in [0..FileSize -> Nat] : SumStep(size, g, FileSize)
  <2> HIDE DEF body, sum
  <2> QED BY <1>0, SumExists
<1>2. g = [k \in 0..FileSize |-> body(g, k)]
  <2>1. ASSUME NEW k \in 0..FileSize PROVE g[k] = body(g, k)
    <3>1. CASE k = 0
      BY <1>1, <3>1 DEF SumStep
    <3>2. CASE k # 0
      <4>1. k \in 1..FileSize
        BY <1>0, <3>2
      <4> QED BY <1>1, <3>2, <4>1 DEF SumStep
    <3> QED BY <3>1, <3>2
  <2> HIDE DEF body
  <2> QED BY <2>1
<1>3. sum = [k \in 0..FileSize |-> body(sum, k)]
  BY <1>2, Zenon
<1>4. SumOfGaps(size) = sum[FileSize]
  BY Zenon DEF SumOfGaps
<1> HIDE DEF sum
<1>5. SumStep(size, sum, FileSize)
  <2>1. \A k \in 0..FileSize : sum[k] = body(sum, k)
    <3> HIDE DEF body
    <3> QED BY <1>3
  <2>2. sum[0] = 0
    BY <1>0, <2>1
  <2>3. ASSUME NEW k \in 1..FileSize PROVE sum[k] = sum[k - 1] + size[k - 1]
    <3>1. k \in 0..FileSize /\ k # 0
      BY <1>0
    <3> QED BY <2>1, <3>1
  <2> QED BY <2>2, <2>3 DEF SumStep
<1> QED
  BY <1>4, <1>5

\* Adding up the sizes of disjoint sets of bytes counts their union.
LEMMA SumCounts ==
  ASSUME NEW size \in [AllBytes -> Nat],
         NEW B \in [AllBytes -> SUBSET AllBytes],
         \A e \in AllBytes : size[e] = Cardinality(B[e]),
         \A d, e \in AllBytes : d < e => B[d] \cap B[e] = {}
  PROVE  SumOfGaps(size)
           = Cardinality({b \in AllBytes : \E e \in AllBytes : b \in B[e]})
<1>0. FileSize \in Nat
  BY GapListConstants
<1> DEFINE U(n) == {b \in AllBytes : \E e \in 0..(n - 1) : b \in B[e]}
<1>1. PICK g : SumOfGaps(size) = g[FileSize] /\ SumStep(size, g, FileSize)
  BY SumDef
<1>2. IsFiniteSet(AllBytes)
  BY <1>0, FS_Interval DEF AllBytes
<1> DEFINE T == {m \in 0..FileSize : g[m] # Cardinality(U(m))}
<1>3. ASSUME T # {} PROVE FALSE
  <2>a. T \in SUBSET Nat
    BY <1>0
  <2>1. PICK m \in T : \A k \in T : m <= k
    <3> HIDE DEF T
    <3> QED BY <1>3, <2>a, LeastNat
  <2>2. m # 0
    <3>1. U(0) = {}
      OBVIOUS
    <3>2. g[0] = Cardinality(U(0))
      BY <1>1, <3>1, FS_EmptySet DEF SumStep
    <3> HIDE DEF U
    <3> QED BY <2>1, <3>2
  <2>3. m \in 1..FileSize /\ m - 1 \in 0..FileSize /\ m - 1 \notin T
    BY <1>0, <2>1, <2>2
  <2>4. m - 1 \in AllBytes
    BY <1>0, <2>3 DEF AllBytes
  <2>5. g[m] = Cardinality(U(m - 1)) + Cardinality(B[m - 1])
    <3> HIDE DEF U
    <3>1. g[m - 1] = Cardinality(U(m - 1))
      BY <2>3
    <3> QED BY <1>1, <2>3, <2>4, <3>1 DEF SumStep
  <2>6. U(m) = U(m - 1) \cup B[m - 1]
    <3>1. ASSUME NEW b \in U(m) PROVE b \in U(m - 1) \cup B[m - 1]
      <4>1. PICK e \in 0..(m - 1) : b \in B[e]
        OBVIOUS
      <4>2. CASE e = m - 1
        BY <4>1, <4>2
      <4>3. CASE e # m - 1
        <5>1. e \in 0..((m - 1) - 1)
          BY <1>0, <2>3, <4>3
        <5> QED BY <3>1, <4>1, <5>1
      <4> QED BY <4>2, <4>3
    <3>2. U(m - 1) \subseteq U(m)
      BY <1>0, <2>3
    <3>3. B[m - 1] \subseteq U(m)
      <4>1. m - 1 \in 0..(m - 1) /\ B[m - 1] \subseteq AllBytes
        BY <1>0, <2>3, <2>4
      <4> QED BY <4>1
    <3> QED BY <3>1, <3>2, <3>3
  <2>7. U(m - 1) \cap B[m - 1] = {}
    <3> SUFFICES ASSUME NEW b \in U(m - 1), b \in B[m - 1] PROVE FALSE
      OBVIOUS
    <3>1. PICK e \in 0..((m - 1) - 1) : b \in B[e]
      OBVIOUS
    <3>2. e \in AllBytes /\ e < m - 1
      BY <1>0, <2>3 DEF AllBytes
    <3> QED BY <2>4, <3>1, <3>2
  <2>8. IsFiniteSet(U(m - 1)) /\ IsFiniteSet(B[m - 1])
    <3>1. U(m - 1) \in SUBSET AllBytes /\ B[m - 1] \in SUBSET AllBytes
      BY <2>4
    <3> HIDE DEF U
    <3> QED BY <1>2, <3>1, FS_Subset
  <2> HIDE DEF U
  <2>9. Cardinality(U(m)) = Cardinality(U(m - 1)) + Cardinality(B[m - 1])
    <3>1. /\ Cardinality(U(m - 1)) \in Nat /\ Cardinality(B[m - 1]) \in Nat
      BY <2>8, FS_CardinalityType
    <3>2. Cardinality(U(m - 1) \cup B[m - 1])
            = Cardinality(U(m - 1)) + Cardinality(B[m - 1])
              - Cardinality(U(m - 1) \cap B[m - 1])
      BY <2>8, FS_Union
    <3>3. Cardinality(U(m - 1) \cap B[m - 1]) = 0
      BY <2>7, FS_EmptySet
    <3> QED BY <2>6, <3>1, <3>2, <3>3
  <2> QED BY <2>1, <2>5, <2>9
<1>4. g[FileSize] = Cardinality(U(FileSize))
  <2> HIDE DEF U
  <2> QED BY <1>0, <1>3
<1>5. U(FileSize) = {b \in AllBytes : \E e \in AllBytes : b \in B[e]}
  BY DEF AllBytes
<1> QED
  BY <1>1, <1>4, <1>5

\* GetGapSize adds up to the number of bytes the map lists.
LEMMA TotalCounts ==
  ASSUME GapListInv
  PROVE  SumOfGaps([e \in AllBytes |-> SizeOfGap(e)]) = Cardinality(Listed)
<1> DEFINE B == [e \in AllBytes |-> IF e \in Ends THEN m_gaplist[e]..e ELSE {}]
           size == [e \in AllBytes |-> SizeOfGap(e)]
<1>0. /\ FileSize \in Nat
      /\ Ends \subseteq AllBytes
      /\ \A e \in Ends : m_gaplist[e] \in AllBytes /\ m_gaplist[e] <= e
      /\ \A d, e \in Ends : d < e => d + 1 < m_gaplist[e]
  BY GapListConstants DEF GapListInv, ListTypes, GapsApart
<1>1. ASSUME NEW e \in AllBytes
      PROVE  /\ B[e] \in SUBSET AllBytes
             /\ SizeOfGap(e) \in Nat /\ SizeOfGap(e) = Cardinality(B[e])
  <2>1. CASE e \in Ends
    <3>1. B[e] = m_gaplist[e]..e /\ B[e] \subseteq AllBytes
      BY <1>0, <2>1 DEF AllBytes
    <3>2. Cardinality(m_gaplist[e]..e) = e - m_gaplist[e] + 1
      BY <1>0, <2>1, FS_Interval DEF AllBytes
    <3> QED BY <1>0, <2>1, <3>1, <3>2 DEF SizeOfGap, AllBytes
  <2>2. CASE e \notin Ends
    BY <2>2, FS_EmptySet DEF SizeOfGap
  <2> QED BY <2>1, <2>2
<1>2. \A d, e \in AllBytes : d < e => B[d] \cap B[e] = {}
  BY <1>0 DEF AllBytes
<1>3. B \in [AllBytes -> SUBSET AllBytes] /\ size \in [AllBytes -> Nat]
  BY <1>1
<1>4. \A e \in AllBytes : size[e] = Cardinality(B[e])
  BY <1>1
<1>5. {b \in AllBytes : \E e \in AllBytes : b \in B[e]} = Listed
  BY <1>0 DEF Listed, AllBytes
<1> HIDE DEF B, size
<1>6. SumOfGaps(size) = Cardinality(Listed)
  BY <1>2, <1>3, <1>4, <1>5, SumCounts
<1> QED
  BY <1>6 DEF size

\* GetGapSize(part) adds up to the number of listed bytes of the part.
LEMMA PartCounts ==
  ASSUME GapListInv, NEW p \in Parts
  PROVE  GetPartGapSize(p)
           = Cardinality((PartStart(p)..PartEnd(p)) \cap Listed)
<1> DEFINE first == PartStart(p)
           last == PartEnd(p)
           size == [e \in AllBytes |->
                      IF e \in Ends /\ e >= first THEN GapInRange(e, first, last)
                                                  ELSE 0]
           B == [e \in AllBytes |->
                   IF e \in Ends THEN (m_gaplist[e]..e) \cap (first..last)
                                 ELSE {}]
<1>0. /\ FileSize \in Nat
      /\ Ends \subseteq AllBytes
      /\ \A e \in Ends : m_gaplist[e] \in AllBytes /\ m_gaplist[e] <= e
      /\ \A d, e \in Ends : d < e => d + 1 < m_gaplist[e]
  BY GapListConstants DEF GapListInv, ListTypes, GapsApart
<1>1. first \in AllBytes /\ last \in AllBytes /\ first <= last
  BY PartRange
<1>2. GetPartGapSize(p) = SumOfGaps(size)
  BY DEF GetPartGapSize
<1> HIDE DEF first, last
<1>3. ASSUME NEW e \in AllBytes
      PROVE  /\ B[e] \in SUBSET AllBytes
             /\ size[e] \in Nat /\ size[e] = Cardinality(B[e])
  <2>1. CASE e \in Ends /\ e >= first /\ m_gaplist[e] <= last
    <3> DEFINE lo == IF m_gaplist[e] <= first THEN first ELSE m_gaplist[e]
               hi == IF e <= last THEN e ELSE last
    <3>1. lo \in Int /\ hi \in Int /\ lo <= hi
      BY <1>0, <1>1, <2>1 DEF AllBytes
    <3>2. B[e] = lo..hi
      BY <1>0, <1>1, <2>1 DEF AllBytes
    <3>3. GapInRange(e, first, last) = hi - lo + 1
      BY <1>0, <1>1, <2>1 DEF GapInRange, AllBytes
    <3>4. size[e] = hi - lo + 1 /\ B[e] \in SUBSET AllBytes
      BY <1>0, <1>1, <2>1, <3>2, <3>3 DEF AllBytes
    <3> HIDE DEF lo, hi, size, B
    <3>5. Cardinality(B[e]) = hi - lo + 1
      BY <3>1, <3>2, FS_Interval
    <3> QED BY <3>1, <3>4, <3>5
  <2>2. CASE e \in Ends /\ e >= first /\ m_gaplist[e] > last
    <3>1. GapInRange(e, first, last) = 0 /\ B[e] = {}
      BY <1>0, <1>1, <2>2 DEF GapInRange, AllBytes
    <3> QED BY <2>2, <3>1, FS_EmptySet
  <2>3. CASE e \notin Ends \/ e < first
    <3>1. B[e] = {} /\ size[e] = 0
      BY <1>0, <1>1, <2>3 DEF AllBytes
    <3> QED BY <3>1, FS_EmptySet
  <2> QED BY <1>0, <1>1, <2>1, <2>2, <2>3 DEF AllBytes
<1>4. \A d, e \in AllBytes : d < e => B[d] \cap B[e] = {}
  BY <1>0 DEF AllBytes
<1>5. B \in [AllBytes -> SUBSET AllBytes] /\ size \in [AllBytes -> Nat]
  BY <1>3
<1>6. \A e \in AllBytes : size[e] = Cardinality(B[e])
  BY <1>3
<1>7. {b \in AllBytes : \E e \in AllBytes : b \in B[e]} = (first..last) \cap Listed
  BY <1>0, <1>1 DEF Listed, AllBytes
<1> HIDE DEF B, size
<1>8. SumOfGaps(size) = Cardinality((first..last) \cap Listed)
  BY <1>4, <1>5, <1>6, <1>7, SumCounts
<1> QED
  BY <1>2, <1>8 DEF first, last

\* The cached size is right when it is valid, and a call that starts a loop
\* gives it up.
LEMMA SizeCacheStep ==
  ASSUME GapListInv, SizeCacheRight, [Next]_vars
  PROVE  SizeCacheRight'
<1>1. CASE AddGapRange \/ AddGapPart \/ FillGapRange \/ FillGapPart
  BY <1>1 DEF AddGapRange, AddGapPart, FillGapRange, FillGapPart, AddGap,
     FillGap, SizeCacheRight
<1>2. CASE AddStep \/ AddInsert \/ FillStep \/ FillDone
  <2>1. pc # "idle" /\ UNCHANGED m_totalGapSizeValid
    BY <1>2 DEF AddStep, AddInsert, FillStep, FillDone, AddErase, AddJoinHead,
       AddJoinTail, AddEnclosed, FillErase, FillLower, FillSplit, FillUpper,
       Continue, Return, cacheVars
  <2> QED BY <2>1 DEF SizeCacheRight
<1>3. CASE GetGapSize
  <2>1. m_totalGapSize' = Cardinality(Listed) /\ pc' = "idle"
    BY <1>3, TotalCounts DEF GetGapSize
  <2>2. Missing' = Listed
    BY <1>3 DEF GetGapSize, Missing, Listed, Ends
  <2> QED BY <2>1, <2>2 DEF SizeCacheRight
<1>4. ASSUME NEW p \in Parts, IsCompletePart(p) PROVE SizeCacheRight'
  BY <1>4, IsCompletePartInv DEF IsCompletePart, cacheVars, SizeCacheRight
<1>5. CASE UNCHANGED vars
  BY <1>5 DEF vars, cacheVars, SizeCacheRight, Missing, Listed, Ends
<1> QED
  BY <1>1, <1>2, <1>3, <1>4, <1>5 DEF Next

(***************************************************************************)
(* Between calls the size GetGapSize returns, from its cache or not, and   *)
(* the size of each part's gaps are the numbers of missing bytes.          *)
(***************************************************************************)
THEOREM GapSizesAreExact == Spec => []GapSizesExact
<1>1. Init => GapListInv /\ SizeCacheRight
  <2> SUFFICES ASSUME Init PROVE SizeCacheRight
    BY InitInv
  <2>0. FileSize \in Nat /\ FileSize > 0
    BY GapListConstants
  <2>1. CASE /\ m_gaplist = [e \in {FileSize - 1} |-> 0]
             /\ m_totalGapSize = FileSize
    <3>1. Missing = 0..(FileSize - 1)
      BY <2>0, <2>1 DEF Init, Missing, Listed, Ends, AllBytes
    <3>2. Cardinality(Missing) = FileSize
      BY <2>0, <3>1, FS_Interval
    <3> QED BY <2>1, <3>2 DEF Init, SizeCacheRight
  <2>2. CASE m_gaplist = [e \in {} |-> 0] /\ m_totalGapSize = 0
    <3>1. Missing = {}
      BY <2>2 DEF Init, Missing, Listed, Ends
    <3> QED BY <2>2, <3>1, FS_EmptySet DEF Init, SizeCacheRight
  <2> QED BY <2>1, <2>2 DEF Init
<1>2. GapListInv /\ [Next]_vars => GapListInv'
  BY StepInv
<1>3. GapListInv /\ SizeCacheRight => GapSizesExact
  BY PartCounts DEF SizeCacheRight, GapSizesExact, Missing
<1> QED
  BY <1>1, <1>2, <1>3, SizeCacheStep, PTL DEF Spec
==============================================================================
