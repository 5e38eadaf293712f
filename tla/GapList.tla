------------------------------- MODULE GapList -------------------------------
(***************************************************************************)
(* CGapList: the missing ranges of a download as a map from the end of     *)
(* each gap to its start, with a cache of the completeness of each part    *)
(* and of the size of all gaps.  AddGap and FillGap walk the map with an   *)
(* iterator; one step here is one turn of their loops.  Iterators are      *)
(* positions: `it` stands for the first gap that ends at or after it.      *)
(*                                                                         *)
(* The gap a loop looks at never lies wholly before the range, the case    *)
(* the code marks "should not happen": no step is given for it, so it      *)
(* would show as a deadlock.                                               *)
(***************************************************************************)
EXTENDS Integers, FiniteSets

CONSTANTS
  FileSize,   \* bytes of the file
  PartSize    \* PARTSIZE

ASSUME GapListConstants ==
  FileSize \in Nat \ {0} /\ PartSize \in Nat \ {0}

VARIABLES
  m_gaplist,            \* end of a gap -> its start
  m_partsComplete,      \* what is known of each part
  m_totalGapSize, m_totalGapSizeValid,
  pc,                   \* "idle", or the loop of "add" or "fill"
  gapstart, gapend,     \* the range being added or filled
  it,                   \* the iterator
  wholePart             \* the part of a call by part, or NoPart

cacheVars == <<m_totalGapSize, m_totalGapSizeValid>>
vars == <<m_gaplist, m_partsComplete, cacheVars, pc, gapstart, gapend, it,
          wholePart>>

AllBytes == 0..(FileSize - 1)

\* CGapList::Init: m_iPartCount and m_sizeLastPart.
PartCount ==
  IF FileSize % PartSize = 0 THEN FileSize \div PartSize
                             ELSE FileSize \div PartSize + 1
SizeLastPart ==
  IF FileSize % PartSize = 0 THEN PartSize ELSE FileSize % PartSize

Parts == 0..(PartCount - 1)
NoPart == -1

GetPartSize(p) == IF p = PartCount - 1 THEN SizeLastPart ELSE PartSize
PartStart(p) == p * PartSize
PartEnd(p) == PartStart(p) + GetPartSize(p) - 1

\* Init(fileSize, isEmpty): one gap that is the whole file, or no gap.
Init ==
  /\ \/ /\ m_gaplist = [e \in {FileSize - 1} |-> 0]
        /\ m_partsComplete = [p \in Parts |-> "incomplete"]
        /\ m_totalGapSize = FileSize
     \/ /\ m_gaplist = [e \in {} |-> 0]
        /\ m_partsComplete = [p \in Parts |-> "complete"]
        /\ m_totalGapSize = 0
  /\ m_totalGapSizeValid = TRUE
  /\ pc = "idle"
  /\ gapstart = 0 /\ gapend = 0 /\ it = 0
  /\ wholePart = NoPart

------------------------------------------------------------------------------
(* std::map *)

Ends == DOMAIN m_gaplist

Erase(g, k) == [e \in DOMAIN g \ {k} |-> g[e]]

\* insert() leaves an entry that has the key alone.
Insert(g, k, start) ==
  [e \in DOMAIN g \cup {k} |-> IF e \in DOMAIN g THEN g[e] ELSE start]

\* it2 = it++: the gap the loop looks at.
IsCurrent(cur) == cur \in Ends /\ cur >= it /\ \A e \in Ends : e >= it => cur <= e

AtEnd == \A e \in Ends : e < it

------------------------------------------------------------------------------
(* AddGap *)

\* ArgCheck clips the end of the range to the file.
Clip(e) == IF e >= FileSize THEN FileSize - 1 ELSE e

\* The parts from gapstart / PARTSIZE to gapend / PARTSIZE.
Involved(s, e) == {p \in Parts : s \div PartSize <= p /\ p <= e \div PartSize}

Mark(s, e, status) ==
  [p \in Parts |-> IF p \in Involved(s, e) THEN status ELSE m_partsComplete[p]]

\* Mutant: the search starts at the range, so a gap right before it stays.
FirstOverlapping(s) == s

\* lower_bound(gapstart - 1): a gap that ends right before the new one joins.
FirstTouching(s) == IF s > 0 THEN s - 1 ELSE 0

AddGap(s, e, part) ==
  /\ pc = "idle"
  /\ m_partsComplete' = Mark(s, Clip(e), "incomplete")
  /\ m_totalGapSizeValid' = FALSE
  /\ pc' = "add"
  /\ gapstart' = s /\ gapend' = Clip(e)
  /\ it' = FirstTouching(s)
  /\ wholePart' = part
  /\ UNCHANGED <<m_gaplist, m_totalGapSize>>

AddGapRange == \E s \in AllBytes : \E e \in s..FileSize : AddGap(s, e, NoPart)

AddGapPart == \E p \in Parts : AddGap(PartStart(p), PartEnd(p), p)

\* After the loop: the call by part sets the part's state once more.  The
\* locals of the call go out of scope.
Return(status) ==
  /\ pc' = "idle"
  /\ m_partsComplete' =
       [p \in Parts |-> IF p = wholePart THEN status ELSE m_partsComplete[p]]
  /\ gapstart' = 0 /\ gapend' = 0 /\ it' = 0 /\ wholePart' = NoPart
  /\ UNCHANGED cacheVars

Continue(cur) ==
  it' = cur + 1 /\ UNCHANGED <<m_partsComplete, cacheVars, pc, wholePart>>

Inside(cur) == m_gaplist[cur] >= gapstart /\ cur <= gapend
HeadJoins(cur) == m_gaplist[cur] >= gapstart /\ m_gaplist[cur] <= gapend + 1
\* gapstart - 1 wraps round at 0 in the code, where no gap can begin before
\* the range and the case is not reached.
TailJoins(cur) == cur <= gapend /\ cur >= gapstart - 1
Encloses(cur) == m_gaplist[cur] <= gapstart /\ cur >= gapend

AddErase(cur) ==
  /\ Inside(cur)
  /\ m_gaplist' = Erase(m_gaplist, cur)
  /\ Continue(cur)
  /\ UNCHANGED <<gapstart, gapend>>

\* Mutant: the new end is not taken over from the gap behind.
JoinsNothing(cur) == UNCHANGED gapend

JoinEnd(cur) == gapend' = cur

AddJoinHead(cur) ==
  /\ ~Inside(cur) /\ HeadJoins(cur)
  /\ JoinEnd(cur)
  /\ m_gaplist' = Erase(m_gaplist, cur)
  /\ Continue(cur)
  /\ UNCHANGED gapstart

AddJoinTail(cur) ==
  /\ ~Inside(cur) /\ ~HeadJoins(cur) /\ TailJoins(cur)
  /\ gapstart' = m_gaplist[cur]
  /\ m_gaplist' = Erase(m_gaplist, cur)
  /\ Continue(cur)
  /\ UNCHANGED gapend

AddEnclosed(cur) ==
  /\ ~Inside(cur) /\ ~HeadJoins(cur) /\ ~TailJoins(cur) /\ Encloses(cur)
  /\ Return("incomplete")
  /\ UNCHANGED m_gaplist

NoOverlap(cur) ==
  ~Inside(cur) /\ ~HeadJoins(cur) /\ ~TailJoins(cur) /\ ~Encloses(cur)

\* The loop has found the first gap behind the new one, or has run out.
AddInsert ==
  /\ pc = "add"
  /\ \/ AtEnd
     \/ \E cur \in Ends :
          IsCurrent(cur) /\ NoOverlap(cur) /\ m_gaplist[cur] > gapstart
  /\ m_gaplist' = Insert(m_gaplist, gapend, gapstart)
  /\ Return("incomplete")

AddStep ==
  /\ pc = "add"
  /\ \E cur \in Ends :
       /\ IsCurrent(cur)
       /\ AddErase(cur) \/ AddJoinHead(cur) \/ AddJoinTail(cur) \/ AddEnclosed(cur)

------------------------------------------------------------------------------
(* FillGap *)

\* Mutant: only the first part of the range is looked at again.
ReexamineFirst(s, e) == Mark(s, s, "unknown")

Reexamine(s, e) == Mark(s, e, "unknown")

FillGap(s, e, part) ==
  /\ pc = "idle"
  /\ m_partsComplete' = Reexamine(s, Clip(e))
  /\ m_totalGapSizeValid' = FALSE
  /\ pc' = "fill"
  /\ gapstart' = s /\ gapend' = Clip(e)
  /\ it' = s
  /\ wholePart' = part
  /\ UNCHANGED <<m_gaplist, m_totalGapSize>>

FillGapRange == \E s \in AllBytes : \E e \in s..FileSize : FillGap(s, e, NoPart)

FillGapPart == \E p \in Parts : FillGap(PartStart(p), PartEnd(p), p)

FillErase(cur) ==
  /\ m_gaplist[cur] >= gapstart /\ cur <= gapend
  /\ m_gaplist' = Erase(m_gaplist, cur)
  /\ Continue(cur)
  /\ UNCHANGED <<gapstart, gapend>>

\* The gap begins in the range and ends behind it.
FillLower(cur) ==
  /\ m_gaplist[cur] >= gapstart /\ cur > gapend /\ m_gaplist[cur] <= gapend
  /\ m_gaplist' = [m_gaplist EXCEPT ![cur] = gapend + 1]
  /\ Return("complete")

\* The gap encloses the range: it becomes two.
FillSplit(cur) ==
  /\ m_gaplist[cur] < gapstart /\ cur > gapend
  /\ m_gaplist' = Insert([m_gaplist EXCEPT ![cur] = gapend + 1],
                         gapstart - 1, m_gaplist[cur])
  /\ Return("complete")

\* The gap begins before the range and ends in it.
FillUpper(cur) ==
  /\ m_gaplist[cur] < gapstart /\ cur <= gapend /\ cur >= gapstart
  /\ m_gaplist' = Erase(Insert(m_gaplist, gapstart - 1, m_gaplist[cur]), cur)
  /\ Continue(cur)
  /\ UNCHANGED <<gapstart, gapend>>

\* The next gap begins behind the range, or there is none.
FillDone ==
  /\ pc = "fill"
  /\ \/ AtEnd
     \/ \E cur \in Ends :
          IsCurrent(cur) /\ m_gaplist[cur] > gapend /\ cur > gapend
  /\ Return("complete")
  /\ UNCHANGED m_gaplist

FillStep ==
  /\ pc = "fill"
  /\ \E cur \in Ends :
       /\ IsCurrent(cur)
       /\ FillErase(cur) \/ FillLower(cur) \/ FillSplit(cur) \/ FillUpper(cur)

------------------------------------------------------------------------------
(* Queries.  Two of them fill a cache. *)

SizeOfGap(e) == IF e \in Ends THEN e - m_gaplist[e] + 1 ELSE 0

\* The loops over the map add up a size for each gap, in the order of the
\* gaps' ends.
SumOfGaps(size) ==
  LET sum[n \in 0..FileSize] ==
        IF n = 0 THEN 0 ELSE sum[n - 1] + size[n - 1]
  IN sum[FileSize]

GetGapSize ==
  /\ pc = "idle" /\ ~m_totalGapSizeValid
  /\ m_totalGapSizeValid' = TRUE
  /\ m_totalGapSize' = SumOfGaps([e \in AllBytes |-> SizeOfGap(e)])
  /\ UNCHANGED <<m_gaplist, m_partsComplete, pc, gapstart, gapend, it, wholePart>>

\* IsComplete(gapstart, gapend)
IsComplete(s, e) ==
  ~ \E cur \in Ends :
      /\ cur >= s
      /\ \/ m_gaplist[cur] >= s /\ cur <= e
         \/ m_gaplist[cur] >= s /\ m_gaplist[cur] <= e
         \/ cur <= e /\ cur >= s
         \/ s >= m_gaplist[cur] /\ e <= cur

\* IsComplete(part)
IsCompletePart(p) ==
  /\ pc = "idle" /\ m_partsComplete[p] = "unknown"
  /\ m_partsComplete' =
       [m_partsComplete EXCEPT ![p] =
          IF IsComplete(PartStart(p), PartEnd(p)) THEN "complete"
                                                  ELSE "incomplete"]
  /\ UNCHANGED <<m_gaplist, cacheVars, pc, gapstart, gapend, it, wholePart>>

\* Mutant: a gap that runs on into the next part counts in full.
WholeGap(e, s, last) ==
  IF m_gaplist[e] <= s /\ e >= last THEN last - s + 1
  ELSE IF m_gaplist[e] >= s /\ m_gaplist[e] <= last THEN e - m_gaplist[e] + 1
  ELSE IF m_gaplist[e] < s /\ e >= s /\ e <= last THEN e - s + 1
  ELSE 0

\* What one gap adds to GetGapSize(part), for the part's range s..last.
GapInRange(e, s, last) ==
  IF m_gaplist[e] <= s /\ e >= last THEN last - s + 1
  ELSE IF m_gaplist[e] >= s /\ m_gaplist[e] <= last
         THEN (IF e < last THEN e ELSE last) - m_gaplist[e] + 1
  ELSE IF m_gaplist[e] < s /\ e >= s /\ e <= last THEN e - s + 1
  ELSE 0

GetPartGapSize(p) ==
  SumOfGaps([e \in AllBytes |->
               IF e \in Ends /\ e >= PartStart(p)
                 THEN GapInRange(e, PartStart(p), PartEnd(p))
                 ELSE 0])

Next ==
  \/ AddGapRange \/ AddGapPart \/ AddStep \/ AddInsert
  \/ FillGapRange \/ FillGapPart \/ FillStep \/ FillDone
  \/ GetGapSize
  \/ \E p \in Parts : IsCompletePart(p)

Spec == Init /\ [][Next]_vars

------------------------------------------------------------------------------
Statuses == {"complete", "incomplete", "unknown"}

ListTypes ==
  /\ Ends \subseteq AllBytes
  /\ \A e \in Ends : m_gaplist[e] \in AllBytes
  /\ m_partsComplete \in [Parts -> Statuses]
  /\ pc \in {"idle", "add", "fill"}
  /\ gapstart \in AllBytes /\ gapend \in AllBytes
  /\ it \in 0..FileSize
  /\ wholePart \in Parts \cup {NoPart}

(***************************************************************************)
(* The bytes the list describes.  A call takes effect when it is made: its *)
(* loop then works the range into the map.                                 *)
(***************************************************************************)
Listed == {b \in AllBytes : \E e \in Ends : m_gaplist[e] <= b /\ b <= e}

Missing ==
  IF pc = "add" THEN Listed \cup (gapstart..gapend)
  ELSE IF pc = "fill" THEN Listed \ (gapstart..gapend)
  ELSE Listed

Bytes == INSTANCE MissingBytes WITH missing <- Missing, call <- pc

\* AddGap and FillGap change the listed bytes by exactly their range: when
\* their loops are over the map lists what the call asked for.  Nothing else
\* in CGapList changes the bytes.
ImplementsMissingBytes == Bytes!Spec

\* Gaps never overlap or touch: std::map finds each by its end, the loops
\* stop at the first gap behind their range, and SavePartFile writes the
\* least number of gap tags.
GapsApart ==
  /\ \A e \in Ends : m_gaplist[e] <= e
  /\ \A d, e \in Ends : d < e => d + 1 < m_gaplist[e]

\* The cached state of a part is never wrong: FillGap and AddGap give up
\* what they may have changed.
PartCacheRight ==
  \A p \in Parts :
    /\ m_partsComplete[p] = "complete" =>
         (PartStart(p)..PartEnd(p)) \cap Missing = {}
    /\ m_partsComplete[p] = "incomplete" =>
         (PartStart(p)..PartEnd(p)) \cap Missing # {}

\* The sizes the progress and the choice of chunks are computed from count
\* the missing bytes, of the file and of each part.
GapSizesExact ==
  pc = "idle" =>
    /\ m_totalGapSizeValid => m_totalGapSize = Cardinality(Missing)
    /\ \A p \in Parts :
         GetPartGapSize(p) = Cardinality((PartStart(p)..PartEnd(p)) \cap Missing)

(***************************************************************************)
(* The inductive invariant: the gaps the iterator has passed lie before    *)
(* the range, clear of it (AddGap) or without overlap (FillGap), and the   *)
(* range takes in the part of a call by part.                              *)
(***************************************************************************)
Passed ==
  /\ gapstart <= gapend
  /\ pc = "add"  => \A e \in Ends : e < it => e + 1 < gapstart
  /\ pc = "fill" => \A e \in Ends : e < it => e < gapstart
  /\ pc # "idle" /\ wholePart # NoPart =>
       gapstart <= PartStart(wholePart) /\ PartEnd(wholePart) <= gapend

\* The cached size of all gaps, given up by every call that starts a loop.
SizeCacheRight ==
  m_totalGapSizeValid => pc = "idle" /\ m_totalGapSize = Cardinality(Missing)

GapListInv == ListTypes /\ GapsApart /\ Passed /\ PartCacheRight
==============================================================================
