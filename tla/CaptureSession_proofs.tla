----------------------- MODULE CaptureSession_proofs -----------------------
(***************************************************************************)
(* Theorems about capture() and the session on disk, for every stream,     *)
(* flush interval, limit and number of captures.                           *)
(***************************************************************************)
EXTENDS CaptureSession, FiniteSetTheorems, SequenceTheorems, TLAPS

USE FlushAssumption, LimitAssumption, TimesAssumption, BoundsAssumption

(* What the spool is made of. *)
Entries == Source!Records \cup Source!Gaps

-----------------------------------------------------------------------------
(* Lines.  d has left the writer, b has not, and together they are the     *)
(* beginning of what the source said.                                      *)

Aligned(d, b, said) ==
    /\ Len(d) + Len(b) <= Len(said)
    /\ \A i \in 1..Len(d) : d[i] = said[i]
    /\ \A i \in 1..Len(b) : b[i] = said[Len(d) + i]

(* What the source yields is an entry. *)
LEMMA EntriesAreItems ==
    /\ \A t \in Times : Source!Rec(t) \in Entries
    /\ \A s, e \in Times : Source!GapFrom(s, e) \in Entries
  BY DEF Entries, Source!Records, Source!Gaps

(* An entry is not both a record and a gap. *)
LEMMA OneKind == \A x \in Entries : ~(IsRecord(x) /\ IsGap(x))
  BY DEF IsRecord, IsGap

(* A flush moves every buffered line to the disk. *)
LEMMA JoinLines ==
    ASSUME NEW d \in Seq(Entries), NEW b \in Seq(Entries),
           NEW said \in Seq(Entries), Aligned(d, b, said)
    PROVE  /\ d \o b \in Seq(Entries)
           /\ Len(d \o b) = Len(d) + Len(b)
           /\ Aligned(d \o b, <<>>, said)
<1>1. d \o b \in Seq(Entries) /\ Len(d \o b) = Len(d) + Len(b)
  BY ConcatProperties
<1>2. \A i \in 1..Len(d \o b) : (d \o b)[i] = said[i]
  <2>1. ASSUME NEW i \in 1..Len(d \o b) PROVE (d \o b)[i] = said[i]
    <3>1. CASE i <= Len(d)
      BY <1>1, <3>1 DEF Aligned
    <3>2. CASE i > Len(d)
      <4>1. i - Len(d) \in 1..Len(b) /\ (d \o b)[i] = b[i - Len(d)]
        BY <1>1, <3>2
      <4>2. QED
        BY <4>1 DEF Aligned
    <3>3. QED
      BY <1>1, <3>1, <3>2
  <2>2. QED
    BY <2>1
<1>3. QED
  BY <1>1, <1>2 DEF Aligned

(* The writer accepts the item that has just been said. *)
LEMMA AddLine ==
    ASSUME NEW d \in Seq(Entries), NEW b \in Seq(Entries),
           NEW said \in Seq(Entries), Aligned(d, b, said),
           Len(d) + Len(b) + 1 = Len(said)
    PROVE  /\ said[Len(said)] \in Entries
           /\ Append(b, said[Len(said)]) \in Seq(Entries)
           /\ Len(Append(b, said[Len(said)])) = Len(b) + 1
           /\ Aligned(d, Append(b, said[Len(said)]), said)
<1>1. said[Len(said)] \in Entries
  BY ElementOfSeq
<1> DEFINE longer == Append(b, said[Len(said)])
<1>2. /\ longer \in Seq(Entries) /\ Len(longer) = Len(b) + 1
      /\ \A i \in 1..Len(b) : longer[i] = b[i]
      /\ longer[Len(b) + 1] = said[Len(said)]
  BY <1>1, AppendProperties
<1> HIDE DEF longer
<1>3. ASSUME NEW i \in 1..Len(longer) PROVE longer[i] = said[Len(d) + i]
  <2>1. CASE i = Len(b) + 1
    BY <1>2, <2>1, Len(said) = Len(d) + i
  <2>2. CASE i # Len(b) + 1
    BY <1>2, <2>2, i \in 1..Len(b) DEF Aligned
  <2>3. QED
    BY <2>1, <2>2
<1>4. Aligned(d, longer, said)
  BY <1>2, <1>3 DEF Aligned
<1>5. QED
  BY <1>1, <1>2, <1>4 DEF longer

(* Some of the buffered lines reach the disk early. *)
LEMMA SplitLines ==
    ASSUME NEW d \in Seq(Entries), NEW b \in Seq(Entries),
           NEW said \in Seq(Entries), Aligned(d, b, said), NEW n \in 0..Len(b)
    PROVE  LET e == d \o SubSeq(b, 1, n)
               rest == SubSeq(b, n + 1, Len(b))
           IN  /\ e \in Seq(Entries) /\ rest \in Seq(Entries)
               /\ Len(e) = Len(d) + n /\ Len(rest) = Len(b) - n
               /\ \A i \in 1..Len(rest) : rest[i] = b[n + i]
               /\ Aligned(e, rest, said)
<1> DEFINE first == SubSeq(b, 1, n)
           rest == SubSeq(b, n + 1, Len(b))
<1>1. /\ first \in Seq(Entries) /\ Len(first) = n
      /\ \A i \in 1..n : first[i] = b[i]
  BY SubSeqProperties
<1>2. /\ rest \in Seq(Entries) /\ Len(rest) = Len(b) - n
      /\ \A i \in 1..Len(rest) : rest[i] = b[n + i]
  BY SubSeqProperties
<1>3. Aligned(d, first, said)
  BY <1>1 DEF Aligned
<1>4. /\ d \o first \in Seq(Entries) /\ Len(d \o first) = Len(d) + n
      /\ Aligned(d \o first, <<>>, said)
  BY ZenonT(40), <1>1, <1>3, JoinLines
<1>5. \A i \in 1..Len(rest) : rest[i] = said[Len(d \o first) + i]
  BY <1>2, <1>4 DEF Aligned
<1> DEFINE e == d \o first
<1>6. /\ e \in Seq(Entries) /\ Len(e) = Len(d) + n
      /\ rest \in Seq(Entries) /\ Len(rest) = Len(b) - n
      /\ Aligned(e, <<>>, said)
      /\ \A i \in 1..Len(rest) : rest[i] = said[Len(e) + i]
  BY <1>2, <1>4, <1>5
<1> HIDE DEF e, first, rest
<1>7. Aligned(e, rest, said)
  BY <1>6 DEF Aligned
<1>8. QED
  BY <1>2, <1>6, <1>7 DEF e, first, rest

(* The source goes on. *)
LEMMA MoreSaid ==
    ASSUME NEW d \in Seq(Entries), NEW b \in Seq(Entries),
           NEW said \in Seq(Entries), Aligned(d, b, said), NEW x \in Entries
    PROVE  Aligned(d, b, Append(said, x))
  BY AppendProperties DEF Aligned

(* A sequence is a prefix of what it is continued to. *)
LEMMA PrefixOfConcat ==
    ASSUME NEW s \in Seq(Entries), NEW t \in Seq(Entries)
    PROVE  IsPrefix(s, s \o t)
<1>1. s \o t \in Seq(Entries) /\ Len(s \o t) = Len(s) + Len(t)
  BY ConcatProperties
<1>2. SubSeq(s \o t, 1, Len(s)) = SubSeq(s, 1, Len(s))
  BY SubSeqOfConcat1
<1>3. QED
  BY <1>1, <1>2 DEF IsPrefix

(* A step that leaves the disk alone takes nothing from it. *)
LEMMA PrefixOfItself ==
    ASSUME NEW s \in Seq(Entries)
    PROVE  IsPrefix(s, s)
  BY DEF IsPrefix

(* When it is as long as what was said, nothing is left in the buffer. *)
LEMMA AlignedLengths ==
    ASSUME NEW d \in Seq(Entries), NEW b \in Seq(Entries),
           NEW said \in Seq(Entries), Aligned(d, b, said), Len(d) = Len(said)
    PROVE  d = said /\ Len(b) = 0
  BY SeqEqual, LenProperties DEF Aligned

(* So what has left the writer is a prefix of what was said. *)
LEMMA AlignedIsPrefix ==
    ASSUME NEW d \in Seq(Entries), NEW b \in Seq(Entries),
           NEW said \in Seq(Entries), Aligned(d, b, said)
    PROVE  IsPrefix(d, said)
<1> DEFINE n == Len(d)
<1>1. n <= Len(said)
  BY DEF Aligned
<1>2. /\ SubSeq(d, 1, n) \in Seq(Entries) /\ Len(SubSeq(d, 1, n)) = n
      /\ \A i \in 1..n : SubSeq(d, 1, n)[i] = d[i]
  BY SubSeqProperties
<1>3. /\ SubSeq(said, 1, n) \in Seq(Entries) /\ Len(SubSeq(said, 1, n)) = n
      /\ \A i \in 1..n : SubSeq(said, 1, n)[i] = said[i]
  BY <1>1, SubSeqProperties
<1>4. SubSeq(d, 1, n) = SubSeq(said, 1, n)
  BY <1>2, <1>3, SeqEqual DEF Aligned
<1>5. QED
  BY <1>1, <1>4 DEF IsPrefix

-----------------------------------------------------------------------------
(* The spool *)

Shape ==
    /\ items \in Seq(Entries)
    /\ disk \in Seq(Entries) /\ buffer \in Seq(Entries)
    /\ sinceFlush \in Nat

(* Nothing has happened to a destination without a spool. *)
Fresh ==
    ~spool => /\ items = <<>> /\ disk = <<>> /\ buffer = <<>>
              /\ outcome = "none" /\ meta = NoMeta

(* Until the stream ends, every item but the one in hand has been accepted. *)
Opened == pc \notin Finished \cup {"idle"} => spool
Working == {"opening", "opening_meta", "ready", "pulling", "got"}
InHand == IF pc = "got" THEN 1 ELSE 0
Progress ==
    pc \in Working => /\ outcome = "none"
                      /\ Len(disk) + Len(buffer) + InHand = Len(items)

SpoolInv ==
    /\ Shape
    /\ Aligned(disk, buffer, items)
    /\ Fresh
    /\ Opened
    /\ Progress

LEMMA SpoolInit == Init => SpoolInv
  BY DEF Init, Source!Init, SpoolInv, Shape, Aligned, Fresh, Progress, Working,
         Opened, Finished

(* Whatever happens to a line on its way, it is accepted once and in order. *)
LEMMA LineWritten ==
    ASSUME SpoolInv, pc = "got", WriteLine(items[Len(items)]), items' = items
    PROVE  /\ Shape' /\ Aligned(disk, buffer, items)'
           /\ Len(disk') + Len(buffer') = Len(items')
<1> DEFINE item == items[Len(items)]
           longer == Append(buffer, item)
<1>1. /\ Shape /\ Aligned(disk, buffer, items)
      /\ Len(disk) + Len(buffer) + 1 = Len(items)
  BY DEF SpoolInv, Progress, InHand, Working
<1>2. /\ longer \in Seq(Entries) /\ Len(longer) = Len(buffer) + 1
      /\ Aligned(disk, longer, items)
  BY <1>1, AddLine DEF Shape
<1>3. Flushed(longer) \/ Buffered(longer)
  BY DEF WriteLine
<1> HIDE DEF item, longer
<1>4. CASE Flushed(longer)
  <2>1. /\ disk \o longer \in Seq(Entries)
        /\ Len(disk \o longer) = Len(disk) + Len(longer)
        /\ Aligned(disk \o longer, <<>>, items)
    BY <1>1, <1>2, JoinLines DEF Shape
  <2>2. QED
    BY <1>1, <1>2, <1>4, <2>1 DEF Flushed, Shape
<1>5. CASE Buffered(longer)
  BY <1>1, <1>2, <1>5 DEF Buffered, Shape
<1>6. QED
  BY <1>3, <1>4, <1>5

(* An item that arrives is appended to what was said. *)
LEMMA ItemArrives ==
    ASSUME SpoolInv, Source!YieldRecord \/ Source!YieldGap
    PROVE  /\ items' \in Seq(Entries) /\ Len(items') = Len(items) + 1
           /\ Aligned(disk, buffer, items')
<1>1. PICK x \in Entries : items' = Append(items, x)
  BY EntriesAreItems DEF Source!YieldRecord, Source!YieldGap
<1>2. QED
  BY <1>1, MoreSaid, AppendProperties DEF SpoolInv, Shape

(* Every step keeps the lines aligned. *)
LEMMA SpoolNext == SpoolInv /\ [Next]_vars => SpoolInv'
<1> SUFFICES ASSUME SpoolInv, [Next]_vars PROVE SpoolInv'
  OBVIOUS
<1> USE DEF SpoolInv, Shape, Fresh, Opened, Progress, Working,
            InHand, Finished, stream, file
<1>1. CASE CreateSpool
  <2>1. CASE spool
    BY <1>1, <2>1 DEF CreateSpool
  <2>2. CASE ~spool
    BY <1>1, <2>2 DEF CreateSpool
  <2>3. QED
    BY <2>1, <2>2
<1>2. CASE TruncateMeta
  <2>1. /\ spool /\ pc' \in {"opening_meta", "closing_meta"}
        /\ pc' = "opening_meta" => pc = "opening"
        /\ UNCHANGED <<items, disk, buffer, sinceFlush, spool, outcome>>
    BY <1>2 DEF TruncateMeta
  <2>2. QED
    BY <2>1
<1>3. CASE WriteFirstMeta
  BY <1>3 DEF WriteFirstMeta
<1>4. CASE EnterSource
  BY <1>4 DEF EnterSource
<1>5. CASE Write
  <2>1. Shape' /\ Aligned(disk, buffer, items)'
        /\ Len(disk') + Len(buffer') = Len(items')
    BY <1>5, LineWritten DEF Write
  <2>2. /\ spool /\ spool' = spool /\ pc' \in {"leaving", "pulling"}
        /\ pc' = "pulling" => outcome' = "none"
    BY <1>5 DEF Write
  <2>3. Progress' /\ Opened' /\ Fresh'
    BY <2>1, <2>2
  <2>4. QED
    BY <2>1, <2>3
<1>6. CASE CloseStream
  BY <1>6 DEF CloseStream
<1>7. CASE ReleaseSource
  BY <1>7 DEF ReleaseSource
<1>8. CASE CloseSpool
  <2>1. /\ disk \o buffer \in Seq(Entries)
        /\ Aligned(disk \o buffer, <<>>, items)
    BY JoinLines
  <2>2. /\ disk' = disk \o buffer /\ buffer' = <<>> /\ sinceFlush' = 0
        /\ UNCHANGED <<items, spool, outcome, meta>> /\ pc' = "spool_closed"
    BY <1>8 DEF CloseSpool, Flushed
  <2>3. Shape' /\ Aligned(disk, buffer, items)'
    BY <2>1, <2>2
  <2>4. spool /\ spool'
    BY <1>8, <2>2 DEF CloseSpool
  <2>5. Progress' /\ Opened' /\ Fresh'
    BY <2>2, <2>4
  <2>6. QED
    BY <2>3, <2>5
<1>9. CASE WriteLastMeta
  BY <1>9 DEF WriteLastMeta
<1>10. CASE IdentifyFails
  BY <1>10 DEF IdentifyFails
<1>11. CASE Pull
  <2>1. /\ items' \in Seq(Entries) /\ Len(items') = Len(items) + 1
        /\ Aligned(disk, buffer, items')
    BY <1>11, ItemArrives DEF Pull
  <2>2. QED
    BY <1>11, <2>1 DEF Pull
<1>12. CASE \E how \in {"exhausted", "raised"} : StreamOver(how)
  BY <1>12 DEF StreamOver, Source!End
<1>13. CASE DurationOver
  BY <1>13 DEF DurationOver
<1>14. CASE Cancel
  BY <1>14 DEF Cancel
<1>24. CASE CancelExit
  BY <1>24 DEF CancelExit
<1>15. CASE WriteFails
  <2>1. /\ spool /\ spool' = spool /\ items' = items /\ pc' = "leaving"
    BY <1>15 DEF WriteFails
  <2>2. CASE UNCHANGED file
    BY <2>1, <2>2
  <2>3. CASE Buffered(Append(buffer, items[Len(items)]))
    BY <1>15, <2>1, <2>3, AddLine DEF Buffered, WriteFails
  <2>4. QED
    BY <1>15, <2>2, <2>3 DEF WriteFails
<1>16. CASE CloseSpoolFails
  BY <1>16 DEF CloseSpoolFails
<1>17. CASE WriteMetaFails
  BY <1>17 DEF WriteMetaFails
<1>18. CASE Spill
  <2>1. PICK n \in 0..Len(buffer) :
          /\ disk' = disk \o SubSeq(buffer, 1, n)
          /\ buffer' = SubSeq(buffer, n + 1, Len(buffer))
    BY <1>18 DEF Spill
  <2>2. /\ disk' \in Seq(Entries) /\ buffer' \in Seq(Entries)
        /\ Len(disk') + Len(buffer') = Len(disk) + Len(buffer)
        /\ Aligned(disk', buffer', items)
    <3> DEFINE e == disk \o SubSeq(buffer, 1, n)
               rest == SubSeq(buffer, n + 1, Len(buffer))
    <3>1. /\ e \in Seq(Entries) /\ rest \in Seq(Entries)
          /\ Len(e) = Len(disk) + n /\ Len(rest) = Len(buffer) - n
          /\ Aligned(e, rest, items)
      BY SplitLines
    <3>2. disk' = e /\ buffer' = rest
      BY <2>1
    <3>3. Len(disk) \in Nat /\ Len(buffer) \in Nat
      BY LenProperties
    <3> HIDE DEF e, rest
    <3>4. Len(e) + Len(rest) = Len(disk) + Len(buffer)
      BY <3>1, <3>3
    <3>5. Aligned(disk', buffer', items)
      BY <3>1, <3>2
    <3>6. QED
      BY <3>1, <3>2, <3>4, <3>5
  <2>3. /\ UNCHANGED <<pc, items, outcome, spool, sinceFlush, meta>>
        /\ buffer # <<>>
    BY <1>18 DEF Spill
  <2>4. QED
    BY <2>2, <2>3
<1>19. CASE Kill
  <2>1. Aligned(disk, <<>>, items)
    BY DEF Aligned
  <2>2. QED
    BY <1>19, <2>1 DEF Kill
<1>20. CASE CaptureAgain
  BY <1>20 DEF CaptureAgain
<1>21. CASE Done
  BY <1>21 DEF Done, vars
<1>22. CASE UNCHANGED vars
  BY <1>22 DEF vars
<1>23. QED
  BY <1>1, <1>2, <1>3, <1>4, <1>5, <1>6, <1>7, <1>8, <1>9, <1>10, 
     <1>11, <1>12, <1>13, <1>14, <1>15, <1>16, <1>17, <1>18, 
     <1>19, <1>20, <1>21, <1>22, <1>24
     DEF Next, Step

(* The lines stay aligned through every capture and every kill (SpoolWriter). *)
THEOREM SpoolStays == Spec => []SpoolInv
<1>1. SpoolInv /\ [Next]_vars => SpoolInv'
  BY SpoolNext
<1>2. QED
  BY SpoolInit, <1>1, PTL DEF Spec

(* What a reader finds is what the source said, from the start and in      *)
(* order, whatever moment it reads at and whatever killed the capture      *)
(* (SpoolWriter).                                                          *)
THEOREM AlwaysAPrefix == Spec => []ReadsAPrefix
<1>1. SpoolInv => ReadsAPrefix
  BY AlignedIsPrefix DEF SpoolInv, Shape, ReadsAPrefix
<1>2. QED
  BY SpoolStays, <1>1, PTL

(* Nothing takes a line off the disk. *)
LEMMA DiskOnlyGrows == SpoolInv /\ [Next]_vars => IsPrefix(disk, disk')
<1> SUFFICES ASSUME SpoolInv, [Next]_vars PROVE IsPrefix(disk, disk')
  OBVIOUS
<1> USE DEF SpoolInv, Shape
<1>1. CASE CreateSpool
  BY <1>1, PrefixOfItself DEF CreateSpool, file
<1>2. CASE TruncateMeta
  BY <1>2, PrefixOfItself DEF TruncateMeta, file
<1>3. CASE WriteFirstMeta
  BY <1>3, PrefixOfItself DEF WriteFirstMeta, file
<1>4. CASE EnterSource
  BY <1>4, PrefixOfItself DEF EnterSource, file
<1>5. CASE Write
  <2>1. /\ buffer \in Seq(Entries)
        /\ Append(buffer, items[Len(items)]) \in Seq(Entries)
    BY <1>5, AddLine DEF Write, Progress, Working, InHand
  <2>2. disk' = disk \/ disk' = disk \o Append(buffer, items[Len(items)])
    BY <1>5 DEF Write, WriteLine, Flushed, Buffered
  <2>3. QED
    BY <2>1, <2>2, PrefixOfItself, PrefixOfConcat
<1>6. CASE CloseStream
  BY <1>6, PrefixOfItself DEF CloseStream, file
<1>7. CASE ReleaseSource
  BY <1>7, PrefixOfItself DEF ReleaseSource, file
<1>8. CASE CloseSpool
  BY <1>8, PrefixOfConcat DEF CloseSpool, Flushed
<1>9. CASE WriteLastMeta
  BY <1>9, PrefixOfItself DEF WriteLastMeta, file
<1>10. CASE IdentifyFails
  BY <1>10, PrefixOfItself DEF IdentifyFails, file
<1>11. CASE Pull
  BY <1>11, PrefixOfItself DEF Pull, file
<1>12. CASE \E how \in {"exhausted", "raised"} : StreamOver(how)
  BY <1>12, PrefixOfItself DEF StreamOver, Source!End, file
<1>13. CASE DurationOver
  BY <1>13, PrefixOfItself DEF DurationOver, file
<1>14. CASE Cancel
  BY <1>14, PrefixOfItself DEF Cancel, file
<1>24. CASE CancelExit
  BY <1>24, PrefixOfItself DEF CancelExit, file
<1>15. CASE WriteFails
  BY <1>15, PrefixOfItself DEF WriteFails, Buffered, file
<1>16. CASE CloseSpoolFails
  BY <1>16, PrefixOfItself DEF CloseSpoolFails, file
<1>17. CASE WriteMetaFails
  BY <1>17, PrefixOfItself DEF WriteMetaFails, file
<1>18. CASE Spill
  <2>1. PICK n \in 0..Len(buffer) : disk' = disk \o SubSeq(buffer, 1, n)
    BY <1>18 DEF Spill
  <2>2. SubSeq(buffer, 1, n) \in Seq(Entries)
    BY SubSeqProperties
  <2>3. QED
    BY <2>1, <2>2, PrefixOfConcat
<1>19. CASE Kill
  BY <1>19, PrefixOfItself DEF Kill, file
<1>20. CASE CaptureAgain
  BY <1>20, PrefixOfItself DEF CaptureAgain, file
<1>21. CASE Done
  BY <1>21, PrefixOfItself DEF Done, vars, file
<1>22. CASE UNCHANGED vars
  BY <1>22, PrefixOfItself DEF vars, file
<1>23. QED
  BY <1>1, <1>2, <1>3, <1>4, <1>5, <1>6, <1>7, <1>8, <1>9, <1>10, 
     <1>11, <1>12, <1>13, <1>14, <1>15, <1>16, <1>17, <1>18, 
     <1>19, <1>20, <1>21, <1>22, <1>24
     DEF Next, Step

(* No later capture takes a line away from an earlier one, and no step of  *)
(* a capture rewrites a line (SessionWriter's refusal of a destination in  *)
(* use, and the spool's append-only writer).                               *)
THEOREM NothingTakenAway == Spec => NeverOverwritten
<1>1. SpoolInv /\ [Next]_vars => [IsPrefix(disk, disk')]_vars
  BY DiskOnlyGrows
<1>2. QED
  BY SpoolStays, <1>1, PTL DEF Spec, NeverOverwritten

-----------------------------------------------------------------------------
(* What a kill can cost *)

(* A line in the buffer was accepted since the last flush. *)
LossInv ==
    outcome # "unwritten" => /\ Len(buffer) <= sinceFlush
                             /\ sinceFlush < FlushEvery
                             /\ \A i \in 1..Len(buffer) : ~IsGap(buffer[i])

LEMMA LossInit == Init => LossInv
  BY DEF Init, LossInv

(* A line that is not flushed is counted, and a gap is flushed. *)
LEMMA LossNext == SpoolInv /\ LossInv /\ [Next]_vars => LossInv'
<1> SUFFICES ASSUME SpoolInv, LossInv, [Next]_vars PROVE LossInv'
  OBVIOUS
<1> USE DEF LossInv, Shape, file, stream
<1>1. CASE CreateSpool
  <2>1. buffer' = buffer /\ outcome' = outcome
    BY <1>1 DEF CreateSpool
  <2>2. CASE spool
    BY <1>1, <2>1, <2>2 DEF CreateSpool
  <2>3. CASE ~spool
    <3>1. buffer = <<>> /\ sinceFlush' = 0
      BY <1>1, <2>3 DEF CreateSpool, SpoolInv, Fresh
    <3>2. QED
      BY <2>1, <3>1
  <2>4. QED
    BY <2>2, <2>3
<1>2. CASE TruncateMeta
  BY <1>2 DEF TruncateMeta
<1>3. CASE WriteFirstMeta
  BY <1>3 DEF WriteFirstMeta
<1>4. CASE EnterSource
  BY <1>4 DEF EnterSource
<1>5. CASE Write
  <2> DEFINE item == items[Len(items)]
             longer == Append(buffer, item)
  <2>1. /\ outcome = "none" /\ Shape /\ Len(disk) + Len(buffer) + 1 = Len(items)
        /\ Aligned(disk, buffer, items)
    BY <1>5 DEF Write, SpoolInv, Progress, Working, InHand
  <2>2. \/ Flushed(longer)
        \/ ~IsGap(item) /\ sinceFlush + 1 < FlushEvery /\ Buffered(longer)
    BY <1>5, <2>1 DEF Write, WriteLine
  <2>3. /\ longer \in Seq(Entries) /\ Len(longer) = Len(buffer) + 1
        /\ \A i \in 1..Len(buffer) : longer[i] = buffer[i]
        /\ longer[Len(buffer) + 1] = item
    BY <2>1, AddLine, AppendProperties
  <2> HIDE DEF item, longer
  <2>4. CASE Flushed(longer)
    BY <2>4 DEF Flushed
  <2>5. CASE ~IsGap(item) /\ sinceFlush + 1 < FlushEvery /\ Buffered(longer)
    <3>1. buffer' = longer /\ sinceFlush' = sinceFlush + 1
      BY <2>5 DEF Buffered
    <3>2. ASSUME NEW i \in 1..Len(longer) PROVE ~IsGap(longer[i])
      <4>1. CASE i = Len(buffer) + 1
        BY <2>3, <2>5, <4>1
      <4>2. CASE i # Len(buffer) + 1
        <5>1. i \in 1..Len(buffer)
          BY <2>1, <2>3, <4>2
        <5>2. QED
          BY <2>1, <2>3, <5>1
      <4>3. QED
        BY <4>1, <4>2
    <3>3. QED
      BY <2>1, <2>3, <2>5, <3>1, <3>2
  <2>6. QED
    BY <2>2, <2>4, <2>5
<1>6. CASE CloseStream
  BY <1>6 DEF CloseStream
<1>7. CASE ReleaseSource
  BY <1>7 DEF ReleaseSource
<1>8. CASE CloseSpool
  BY <1>8 DEF CloseSpool, Flushed
<1>9. CASE WriteLastMeta
  BY <1>9 DEF WriteLastMeta
<1>10. CASE IdentifyFails
  BY <1>10 DEF IdentifyFails
<1>11. CASE Pull
  BY <1>11 DEF Pull
<1>12. CASE \E how \in {"exhausted", "raised"} : StreamOver(how)
  BY <1>12 DEF StreamOver, Source!End, SpoolInv, Progress, Working
<1>13. CASE DurationOver
  BY <1>13 DEF DurationOver, SpoolInv, Progress, Working
<1>14. CASE Cancel
  BY <1>14 DEF Cancel, SpoolInv, Progress, Working
<1>24. CASE CancelExit
  BY <1>24 DEF CancelExit
<1>15. CASE WriteFails
  BY <1>15 DEF WriteFails
<1>16. CASE CloseSpoolFails
  BY <1>16 DEF CloseSpoolFails
<1>17. CASE WriteMetaFails
  BY <1>17 DEF WriteMetaFails
<1>18. CASE Spill
  <2>1. PICK n \in 0..Len(buffer) : buffer' = SubSeq(buffer, n + 1, Len(buffer))
    BY <1>18 DEF Spill
  <2> DEFINE rest == SubSeq(buffer, n + 1, Len(buffer))
  <2>2. /\ Len(rest) = Len(buffer) - n
        /\ \A i \in 1..Len(rest) : rest[i] = buffer[n + i]
    BY SplitLines DEF SpoolInv
  <2>3. UNCHANGED <<outcome, sinceFlush>>
    BY <1>18 DEF Spill
  <2>4. buffer' = rest /\ Len(buffer) \in Nat /\ sinceFlush \in Nat
    BY <2>1, LenProperties DEF SpoolInv
  <2> HIDE DEF rest
  <2>5. /\ Len(rest) <= Len(buffer)
        /\ \A i \in 1..Len(rest) : n + i \in 1..Len(buffer)
    BY <2>2, <2>4
  <2>6. QED
    BY <2>2, <2>3, <2>4, <2>5
<1>19. CASE Kill
  BY <1>19 DEF Kill, SpoolInv
<1>20. CASE CaptureAgain
  BY <1>20 DEF CaptureAgain
<1>21. CASE Done
  BY <1>21 DEF Done, vars
<1>22. CASE UNCHANGED vars
  BY <1>22 DEF vars
<1>23. QED
  BY <1>1, <1>2, <1>3, <1>4, <1>5, <1>6, <1>7, <1>8, <1>9, <1>10, 
     <1>11, <1>12, <1>13, <1>14, <1>15, <1>16, <1>17, <1>18, 
     <1>19, <1>20, <1>21, <1>22, <1>24
     DEF Next, Step

(* Every buffered line was accepted since the last flush (SpoolWriter). *)
THEOREM LossStays == Spec => []LossInv
<1>1. SpoolInv /\ LossInv /\ [Next]_vars => LossInv'
  BY LossNext
<1>2. QED
  BY SpoolStays, LossInit, <1>1, PTL DEF Spec

(* A kill costs fewer than flush_every lines, whatever flush_every is,     *)
(* unless it is the disk that fails (_write_obj).                          *)
THEOREM KillCostsLittle == Spec => []LossIsBounded
<1>1. SpoolInv /\ LossInv => LossIsBounded
  <2> SUFFICES ASSUME SpoolInv, LossInv, outcome # "unwritten"
               PROVE  Len(buffer) < FlushEvery
    BY DEF LossIsBounded
  <2>1. Len(buffer) \in Nat /\ sinceFlush \in Nat
    BY LenProperties DEF SpoolInv, Shape
  <2>2. Len(buffer) <= sinceFlush /\ sinceFlush < FlushEvery
    BY DEF LossInv
  <2>3. QED
    BY <2>1, <2>2
<1>2. QED
  BY SpoolStays, LossStays, <1>1, PTL

(* No kill and no failure of the stream takes an outage's mark with it,    *)
(* unless it is the disk that fails (write_gap).                           *)
THEOREM MarksAreDurable == Spec => []GapsAreDurable
<1>1. SpoolInv /\ LossInv => GapsAreDurable
  BY DEF SpoolInv, Shape, LossInv, GapsAreDurable
<1>2. QED
  BY SpoolStays, LossStays, <1>1, PTL

-----------------------------------------------------------------------------
(* The device *)

(* `source` follows `async with source`, `over` the generator inside it. *)
DeviceInv ==
    /\ DeviceReleased
    /\ pc = "releasing" => over
    /\ pc \in {"idle", "opening", "opening_meta", "ready"} => source # "entered"

LEMMA DeviceInit == Init => DeviceInv
  BY DEF Init, DeviceInv, DeviceReleased, AfterExits

(* Every way out of the stream passes through the source's exit. *)
LEMMA DeviceNext == DeviceInv /\ [Next]_vars => DeviceInv'
<1> SUFFICES ASSUME DeviceInv, [Next]_vars PROVE DeviceInv'
  OBVIOUS
<1> USE DEF DeviceInv, DeviceReleased, AfterExits, CutExit, Finished, stream
<1>1. CASE CreateSpool
  BY <1>1 DEF CreateSpool
<1>2. CASE TruncateMeta
  BY <1>2 DEF TruncateMeta
<1>3. CASE WriteFirstMeta
  BY <1>3 DEF WriteFirstMeta
<1>4. CASE EnterSource
  BY <1>4 DEF EnterSource
<1>5. CASE Write
  BY <1>5 DEF Write
<1>6. CASE CloseStream
  BY <1>6 DEF CloseStream
<1>7. CASE ReleaseSource
  BY <1>7 DEF ReleaseSource
<1>8. CASE CloseSpool
  BY <1>8 DEF CloseSpool
<1>9. CASE WriteLastMeta
  BY <1>9 DEF WriteLastMeta
<1>10. CASE IdentifyFails
  BY <1>10 DEF IdentifyFails
<1>11. CASE Pull
  BY <1>11 DEF Pull
<1>12. CASE \E how \in {"exhausted", "raised"} : StreamOver(how)
  BY <1>12 DEF StreamOver, Source!End
<1>13. CASE DurationOver
  BY <1>13 DEF DurationOver
<1>14. CASE Cancel
  BY <1>14 DEF Cancel
<1>24. CASE CancelExit
  BY <1>24 DEF CancelExit
<1>15. CASE WriteFails
  BY <1>15 DEF WriteFails
<1>16. CASE CloseSpoolFails
  BY <1>16 DEF CloseSpoolFails
<1>17. CASE WriteMetaFails
  BY <1>17 DEF WriteMetaFails
<1>18. CASE Spill
  BY <1>18 DEF Spill
<1>19. CASE Kill
  BY <1>19 DEF Kill
<1>20. CASE CaptureAgain
  BY <1>20 DEF CaptureAgain
<1>21. CASE Done
  BY <1>21 DEF Done, vars
<1>22. CASE UNCHANGED vars
  BY <1>22 DEF vars
<1>23. QED
  BY <1>1, <1>2, <1>3, <1>4, <1>5, <1>6, <1>7, <1>8, <1>9, <1>10, 
     <1>11, <1>12, <1>13, <1>14, <1>15, <1>16, <1>17, <1>18, 
     <1>19, <1>20, <1>21, <1>22, <1>24
     DEF Next, Step

(* The session is finalised only after the device has been let go of, and  *)
(* a capture that returns its result holds it no longer: nothing but a     *)
(* cancellation that lands in the exit itself leaves it half closed, and   *)
(* then nothing is returned (capture's `async with`).                      *)
THEOREM DeviceLetGo == Spec => []DeviceReleased
<1>1. DeviceInv /\ [Next]_vars => DeviceInv'
  BY DeviceNext
<1>2. DeviceInv => DeviceReleased
  BY DEF DeviceInv
<1>3. QED
  BY DeviceInit, <1>1, <1>2, PTL DEF Spec

-----------------------------------------------------------------------------
(* A capture that came to its end *)

(* From the stream's end on, the writer has accepted every item, and from  *)
(* the closed spool on they are on the disk; only a capture that closed    *)
(* its spool has a sidecar that says so.                                   *)
AfterStream == {"leaving", "releasing", "finalising"}
AfterSpool == {"spool_closed", "closing_meta"}
EndInv ==
    /\ shown = Len(items)
    /\ meta.ended => spool /\ pc \in Finished \cup {"idle"}
    /\ outcome # "unwritten" =>
          /\ pc \in AfterStream => Len(disk) + Len(buffer) = Len(items)
          /\ pc \in AfterSpool \/ meta.ended => Len(disk) = Len(items)

LEMMA EndInit == Init => EndInv
  BY DEF Init, Source!Init, EndInv, AfterStream, AfterSpool, NoMeta

(* What was shown is accepted, and what is closed is on the disk. *)
LEMMA EndNext == SpoolInv /\ EndInv /\ [Next]_vars => EndInv'
<1> SUFFICES ASSUME SpoolInv, EndInv, [Next]_vars PROVE EndInv'
  OBVIOUS
<1> USE DEF EndInv, AfterStream, AfterSpool, Finished, stream, file
<1>1. CASE CreateSpool
  BY <1>1 DEF CreateSpool, SpoolInv, Fresh, NoMeta
<1>2. CASE TruncateMeta
  BY <1>2 DEF TruncateMeta, Torn
<1>3. CASE WriteFirstMeta
  BY <1>3 DEF WriteFirstMeta, MetaAt
<1>4. CASE EnterSource
  BY <1>4 DEF EnterSource
<1>5. CASE Write
  <2>1. Len(disk') + Len(buffer') = Len(items')
    BY <1>5, LineWritten DEF Write
  <2>2. /\ pc = "got" /\ pc' \in {"leaving", "pulling"}
        /\ UNCHANGED <<items, shown, meta, spool>>
    BY <1>5 DEF Write
  <2>3. QED
    BY <2>1, <2>2
<1>6. CASE CloseStream
  BY <1>6 DEF CloseStream
<1>7. CASE ReleaseSource
  BY <1>7 DEF ReleaseSource
<1>8. CASE CloseSpool
  <2>1. Len(disk \o buffer) = Len(disk) + Len(buffer)
    BY JoinLines DEF SpoolInv, Shape
  <2>2. QED
    BY <1>8, <2>1 DEF CloseSpool, Flushed
<1>9. CASE WriteLastMeta
  BY <1>9 DEF WriteLastMeta, MetaAt, SpoolInv, Opened
<1>10. CASE IdentifyFails
  BY <1>10 DEF IdentifyFails
<1>11. CASE Pull
  <2>1. Len(items') = Len(items) + 1
    BY <1>11, ItemArrives DEF Pull
  <2>2. QED
    BY <1>11, <2>1 DEF Pull
<1>12. CASE \E how \in {"exhausted", "raised"} : StreamOver(how)
  BY <1>12 DEF StreamOver, Source!End, SpoolInv, Progress, Working, InHand
<1>13. CASE DurationOver
  BY <1>13 DEF DurationOver, SpoolInv, Progress, Working, InHand
<1>14. CASE Cancel
  BY <1>14 DEF Cancel, SpoolInv, Progress, Working, InHand
<1>24. CASE CancelExit
  BY <1>24 DEF CancelExit
<1>15. CASE WriteFails
  BY <1>15 DEF WriteFails, Buffered
<1>16. CASE CloseSpoolFails
  BY <1>16 DEF CloseSpoolFails
<1>17. CASE WriteMetaFails
  BY <1>17 DEF WriteMetaFails
<1>18. CASE Spill
  <2>1. PICK n \in 0..Len(buffer) :
          /\ disk' = disk \o SubSeq(buffer, 1, n)
          /\ buffer' = SubSeq(buffer, n + 1, Len(buffer))
    BY <1>18 DEF Spill
  <2>2. Len(disk') = Len(disk) + n /\ Len(buffer') = Len(buffer) - n
    BY <2>1, SplitLines DEF SpoolInv, Shape
  <2>3. Len(disk) \in Nat /\ Len(buffer) \in Nat
    BY LenProperties DEF SpoolInv, Shape
  <2>4. Len(disk') + Len(buffer') = Len(disk) + Len(buffer)
    BY <2>2, <2>3
  <2>5. pc \notin Finished \cup {"idle"} /\ n <= Len(buffer)
    BY <1>18 DEF Spill
  <2>6. CASE pc \in AfterSpool
    <3>1. outcome # "unwritten" => Len(buffer) = 0
      BY <2>6, AlignedLengths DEF SpoolInv, Shape
    <3>2. buffer # <<>> /\ UNCHANGED <<pc, outcome, items, shown, spool, meta>>
      BY <1>18 DEF Spill
    <3>3. buffer \in Seq(Entries)
      BY DEF SpoolInv, Shape
    <3>4. Len(buffer) # 0
      BY <3>2, <3>3, EmptySeq
    <3>5. outcome' = "unwritten"
      BY <3>1, <3>2, <3>4
    <3>6. QED
      BY <2>5, <3>2, <3>5
  <2>7. CASE pc \notin AfterSpool
    BY <1>18, <2>4, <2>5, <2>7 DEF Spill
  <2>8. QED
    BY <2>6, <2>7
<1>19. CASE Kill
  BY <1>19 DEF Kill
<1>20. CASE CaptureAgain
  BY <1>20 DEF CaptureAgain
<1>21. CASE Done
  BY <1>21 DEF Done, vars
<1>22. CASE UNCHANGED vars
  BY <1>22 DEF vars
<1>23. QED
  BY <1>1, <1>2, <1>3, <1>4, <1>5, <1>6, <1>7, <1>8, <1>9, <1>10, 
     <1>11, <1>12, <1>13, <1>14, <1>15, <1>16, <1>17, <1>18, 
     <1>19, <1>20, <1>21, <1>22, <1>24
     DEF Next, Step

(* A stop loses nothing: on every way out but a write error, cancellation  *)
(* included, a finalised session holds every item that was shown           *)
(* (capture).                                                              *)
THEOREM StopLosesNothing == Spec => []StoppedMeansStored
<1>1. SpoolInv /\ EndInv => StoppedMeansStored
  BY AlignedLengths DEF SpoolInv, Shape, EndInv, StoppedMeansStored
<1>2. SpoolInv /\ EndInv /\ [Next]_vars => EndInv'
  BY EndNext
<1>3. QED
  BY SpoolStays, EndInit, <1>1, <1>2, PTL DEF Spec

-----------------------------------------------------------------------------
(* Types *)

(* The counts are of items that were written. *)
CountInv ==
    /\ Len(items) <= MaxItems
    /\ records \in Nat /\ gaps \in Nat
    /\ records + gaps + InHand <= Len(items)

(* The types of the variables that are not lines or counts. *)
Scalars ==
    /\ pc \in {"idle", "opening", "opening_meta", "ready", "pulling", "got",
               "leaving", "releasing", "finalising", "spool_closed",
               "closing_meta"} \cup Finished
    /\ outcome \in {"none", "exhausted", "raised", "early", "cancelled",
                    "unwritten"}
    /\ source \in {"idle", "entered", "closed", "cut"}
    /\ last \in Nat /\ over \in BOOLEAN
    /\ spool \in BOOLEAN /\ torn \in BOOLEAN /\ trailer \in BOOLEAN
    /\ captures \in 1..MaxCaptures

LEMMA CountInit == Init => CountInv
  BY DEF Init, Source!Init, CountInv, InHand

(* An item is counted once, when it is written. *)
LEMMA CountNext == SpoolInv /\ CountInv /\ [Next]_vars => CountInv'
<1> SUFFICES ASSUME SpoolInv, CountInv, [Next]_vars PROVE CountInv'
  OBVIOUS
<1> USE DEF CountInv, InHand, stream, file
<1>1. CASE CreateSpool
  <2>1. Len(items) \in Nat /\ pc' # "got" /\ items' = items
    BY <1>1, LenProperties DEF CreateSpool, SpoolInv, Shape
  <2>2. QED
    BY <1>1, <2>1 DEF CreateSpool
<1>2. CASE TruncateMeta
  BY <1>2 DEF TruncateMeta
<1>3. CASE WriteFirstMeta
  BY <1>3 DEF WriteFirstMeta
<1>4. CASE EnterSource
  BY <1>4 DEF EnterSource
<1>5. CASE Write
  <2> DEFINE item == items[Len(items)]
  <2>1. item \in Entries /\ Len(items) \in Nat /\ pc = "got"
    BY <1>5, AddLine, LenProperties
       DEF Write, SpoolInv, Shape, Progress, Working
  <2>2. ~(IsRecord(item) /\ IsGap(item))
    BY <2>1, OneKind
  <2>3. /\ records' = records + (IF IsRecord(item) THEN 1 ELSE 0)
        /\ gaps' = IF IsGap(item) THEN gaps + 1 ELSE gaps
        /\ pc' \in {"leaving", "pulling"} /\ items' = items
    BY <1>5 DEF Write
  <2> HIDE DEF item
  <2>4. QED
    BY <2>1, <2>2, <2>3
<1>6. CASE CloseStream
  BY <1>6 DEF CloseStream
<1>7. CASE ReleaseSource
  BY <1>7 DEF ReleaseSource
<1>8. CASE CloseSpool
  BY <1>8 DEF CloseSpool
<1>9. CASE WriteLastMeta
  BY <1>9 DEF WriteLastMeta
<1>10. CASE IdentifyFails
  BY <1>10 DEF IdentifyFails
<1>11. CASE Pull
  <2>1. Len(items') = Len(items) + 1 /\ Len(items) \in Nat
    BY <1>11, ItemArrives, LenProperties DEF Pull, SpoolInv, Shape
  <2>2. /\ Len(items) < MaxItems /\ pc = "pulling" /\ pc' = "got"
        /\ UNCHANGED <<records, gaps>>
    BY <1>11 DEF Pull
  <2>3. QED
    BY <2>1, <2>2
<1>12. CASE \E how \in {"exhausted", "raised"} : StreamOver(how)
  BY <1>12 DEF StreamOver, Source!End
<1>13. CASE DurationOver
  BY <1>13 DEF DurationOver
<1>14. CASE Cancel
  BY <1>14 DEF Cancel
<1>24. CASE CancelExit
  BY <1>24 DEF CancelExit
<1>15. CASE WriteFails
  BY <1>15 DEF WriteFails, Buffered
<1>16. CASE CloseSpoolFails
  BY <1>16 DEF CloseSpoolFails
<1>17. CASE WriteMetaFails
  BY <1>17 DEF WriteMetaFails
<1>18. CASE Spill
  BY <1>18 DEF Spill
<1>19. CASE Kill
  BY <1>19 DEF Kill
<1>20. CASE CaptureAgain
  BY <1>20 DEF CaptureAgain
<1>21. CASE Done
  BY <1>21 DEF Done, vars
<1>22. CASE UNCHANGED vars
  BY <1>22 DEF vars
<1>23. QED
  BY <1>1, <1>2, <1>3, <1>4, <1>5, <1>6, <1>7, <1>8, <1>9, <1>10, 
     <1>11, <1>12, <1>13, <1>14, <1>15, <1>16, <1>17, <1>18, 
     <1>19, <1>20, <1>21, <1>22, <1>24
     DEF Next, Step

LEMMA ScalarsInit == Init => Scalars
<1> SUFFICES ASSUME Init PROVE Scalars
  OBVIOUS
<1>1. pc = "idle" /\ outcome = "none" /\ source = "idle" /\ captures = 1
  BY DEF Init
<1>2. /\ last = 0 /\ over = FALSE
      /\ spool = FALSE /\ torn = FALSE /\ trailer = FALSE
  BY DEF Init, Source!Init
<1>3. captures \in 1..MaxCaptures
  BY <1>1
<1>4. QED
  BY <1>1, <1>2, <1>3 DEF Scalars

(* The program's own variables keep their types. *)
LEMMA ScalarsNext == Scalars /\ [Next]_vars => Scalars'
<1> SUFFICES ASSUME Scalars, [Next]_vars PROVE Scalars'
  OBVIOUS
<1> USE DEF Scalars, Finished, stream, file
<1>1. CASE CreateSpool
  BY <1>1 DEF CreateSpool
<1>2. CASE TruncateMeta
  BY <1>2 DEF TruncateMeta
<1>3. CASE WriteFirstMeta
  BY <1>3 DEF WriteFirstMeta
<1>4. CASE EnterSource
  BY <1>4 DEF EnterSource
<1>5. CASE Write
  BY <1>5 DEF Write, WriteLine, Flushed, Buffered
<1>6. CASE CloseStream
  BY <1>6 DEF CloseStream
<1>7. CASE ReleaseSource
  BY <1>7 DEF ReleaseSource
<1>8. CASE CloseSpool
  BY <1>8 DEF CloseSpool, Flushed
<1>9. CASE WriteLastMeta
  BY <1>9 DEF WriteLastMeta
<1>10. CASE IdentifyFails
  BY <1>10 DEF IdentifyFails
<1>11. CASE Pull
  BY <1>11 DEF Pull, Source!YieldRecord, Source!YieldGap
<1>12. CASE \E how \in {"exhausted", "raised"} : StreamOver(how)
  BY <1>12 DEF StreamOver, Source!End
<1>13. CASE DurationOver
  BY <1>13 DEF DurationOver
<1>14. CASE Cancel
  BY <1>14 DEF Cancel
<1>24. CASE CancelExit
  BY <1>24 DEF CancelExit
<1>15. CASE WriteFails
  BY <1>15 DEF WriteFails, Buffered
<1>16. CASE CloseSpoolFails
  BY <1>16 DEF CloseSpoolFails
<1>17. CASE WriteMetaFails
  BY <1>17 DEF WriteMetaFails
<1>18. CASE Spill
  BY <1>18 DEF Spill
<1>19. CASE Kill
  BY <1>19 DEF Kill
<1>20. CASE CaptureAgain
  BY <1>20 DEF CaptureAgain
<1>21. CASE Done
  BY <1>21 DEF Done, vars
<1>22. CASE UNCHANGED vars
  BY <1>22 DEF vars
<1>23. QED
  BY <1>1, <1>2, <1>3, <1>4, <1>5, <1>6, <1>7, <1>8, <1>9, <1>10, 
     <1>11, <1>12, <1>13, <1>14, <1>15, <1>16, <1>17, <1>18, 
     <1>19, <1>20, <1>21, <1>22, <1>24
     DEF Next, Step

(* The sidecar's counts are within the bound. *)
LEMMA MetaNext ==
    SpoolInv /\ CountInv /\ meta \in Metas /\ [Next]_vars => (meta \in Metas)'
<1> SUFFICES ASSUME SpoolInv, CountInv, meta \in Metas, [Next]_vars
             PROVE  (meta \in Metas)'
  OBVIOUS
<1> USE DEF Metas, NoMeta, Torn, MetaAt, stream, file
<1>1. CASE CreateSpool
  BY <1>1 DEF CreateSpool
<1>2. CASE TruncateMeta
  BY <1>2 DEF TruncateMeta
<1>3. CASE WriteFirstMeta
  BY <1>3 DEF WriteFirstMeta
<1>4. CASE EnterSource
  BY <1>4 DEF EnterSource
<1>5. CASE Write
  BY <1>5 DEF Write
<1>6. CASE CloseStream
  BY <1>6 DEF CloseStream
<1>7. CASE ReleaseSource
  BY <1>7 DEF ReleaseSource
<1>8. CASE CloseSpool
  BY <1>8 DEF CloseSpool
<1>9. CASE WriteLastMeta
  <2>1. Len(items) \in Nat
    BY LenProperties DEF SpoolInv, Shape
  <2>2. records \in 0..MaxItems /\ gaps \in 0..MaxItems
    BY <2>1 DEF CountInv, InHand
  <2>3. QED
    BY <1>9, <2>2 DEF WriteLastMeta
<1>10. CASE IdentifyFails
  BY <1>10 DEF IdentifyFails
<1>11. CASE Pull
  BY <1>11 DEF Pull
<1>12. CASE \E how \in {"exhausted", "raised"} : StreamOver(how)
  BY <1>12 DEF StreamOver, Source!End
<1>13. CASE DurationOver
  BY <1>13 DEF DurationOver
<1>14. CASE Cancel
  BY <1>14 DEF Cancel
<1>24. CASE CancelExit
  BY <1>24 DEF CancelExit
<1>15. CASE WriteFails
  BY <1>15 DEF WriteFails
<1>16. CASE CloseSpoolFails
  BY <1>16 DEF CloseSpoolFails
<1>17. CASE WriteMetaFails
  BY <1>17 DEF WriteMetaFails
<1>18. CASE Spill
  BY <1>18 DEF Spill
<1>19. CASE Kill
  BY <1>19 DEF Kill
<1>20. CASE CaptureAgain
  BY <1>20 DEF CaptureAgain
<1>21. CASE Done
  BY <1>21 DEF Done, vars
<1>22. CASE UNCHANGED vars
  BY <1>22 DEF vars
<1>23. QED
  BY <1>1, <1>2, <1>3, <1>4, <1>5, <1>6, <1>7, <1>8, <1>9, <1>10, 
     <1>11, <1>12, <1>13, <1>14, <1>15, <1>16, <1>17, <1>18, 
     <1>19, <1>20, <1>21, <1>22, <1>24
     DEF Next, Step

(* Every variable stays in its type, and an item is shown at most once     *)
(* (capture).                                                              *)
THEOREM SessionTypeCorrect == Spec => []TypeOK
<1> DEFINE Inv == SpoolInv /\ EndInv /\ CountInv /\ Scalars /\ meta \in Metas
<1>1. Init => Inv
  BY SpoolInit, EndInit, CountInit, ScalarsInit DEF Init, Metas
<1>2. Inv /\ [Next]_vars => Inv'
  BY SpoolNext, EndNext, CountNext, ScalarsNext, MetaNext
<1>3. Inv => TypeOK
  <2> SUFFICES ASSUME Inv PROVE TypeOK
    OBVIOUS
  <2>1. /\ items \in Seq(Source!Records \cup Source!Gaps)
        /\ disk \in Seq(Source!Records \cup Source!Gaps)
        /\ buffer \in Seq(Source!Records \cup Source!Gaps)
        /\ sinceFlush \in Nat
    BY DEF SpoolInv, Shape, Entries
  <2>2. Len(items) \in Nat
    BY <2>1, LenProperties
  <2>3. shown \in 0..MaxItems /\ records \in Nat /\ gaps \in Nat
    BY <2>2 DEF EndInv, CountInv
  <2>4. QED
    BY <2>1, <2>3 DEF Scalars, TypeOK
<1> HIDE DEF Inv
<1>4. QED
  BY <1>1, <1>2, <1>3, PTL DEF Spec

-----------------------------------------------------------------------------
(* A sidecar that says so                                                  *)

(* An entry is a record or a gap. *)
LEMMA EntryTypes == \A x \in Entries : x.type \in {"record", "gap"}
  BY DEF Entries, Source!Records, Source!Gaps, Source!Rec, Source!GapFrom

(* How many of the first n entries are of a type. *)
Tally(said, n, type) == Cardinality({i \in 1..n : said[i].type = type})

LEMMA TallyNat ==
    ASSUME NEW said, NEW n \in Nat, NEW type
    PROVE  Tally(said, n, type) \in Nat
<1>1. IsFiniteSet(1..n)
  BY FS_Interval
<1>2. IsFiniteSet({i \in 1..n : said[i].type = type})
  BY <1>1, FS_Subset
<1>3. QED
  BY <1>2, FS_CardinalityType DEF Tally

(* One more entry is one more of its type. *)
LEMMA TallyStep ==
    ASSUME NEW said, NEW n \in Nat, NEW type
    PROVE  Tally(said, n + 1, type) =
               Tally(said, n, type) + (IF said[n + 1].type = type THEN 1 ELSE 0)
<1> DEFINE S == {i \in 1..n : said[i].type = type}
           T == {i \in 1..(n + 1) : said[i].type = type}
<1>1. IsFiniteSet(S)
  <2>1. IsFiniteSet(1..n)
    BY FS_Interval
  <2>2. QED
    BY <2>1, FS_Subset
<1>2. Cardinality(S) \in Nat
  BY <1>1, FS_CardinalityType
<1>3. n + 1 \notin S /\ 1..(n + 1) = 1..n \cup {n + 1}
  OBVIOUS
<1>4. T = IF said[n + 1].type = type THEN S \cup {n + 1} ELSE S
  BY <1>3
<1>5. Cardinality(S \cup {n + 1}) = Cardinality(S) + 1
  BY <1>1, <1>3, FS_AddElement
<1>6. Tally(said, n, type) = Cardinality(S) /\ Tally(said, n + 1, type) = Cardinality(T)
  BY DEF Tally
<1> HIDE DEF S, T
<1>7. QED
  BY <1>2, <1>4, <1>5, <1>6

(* A tally is of what was said, whoever repeats it. *)
LEMMA TallySame ==
    ASSUME NEW said, NEW again, NEW n \in Nat, NEW type,
           \A i \in 1..n : said[i] = again[i]
    PROVE  Tally(said, n, type) = Tally(again, n, type)
<1>1. {i \in 1..n : said[i].type = type} = {i \in 1..n : again[i].type = type}
  OBVIOUS
<1>2. QED
  BY <1>1 DEF Tally

(* While a capture is under way, what the writer has counted is what it has  *)
(* accepted, but for a line that the disk refused.                           *)
Accepted == Len(disk) + Len(buffer)
TallyInv ==
    pc \notin Finished \cup {"idle"} =>
        /\ records \in Nat /\ gaps \in Nat
        /\ records <= Tally(items, Accepted, "record")
        /\ gaps <= Tally(items, Accepted, "gap")
        /\ \/ Accepted = records + gaps
           \/ Accepted = records + gaps + 1 /\ outcome = "unwritten"

(* A destination without a spool has nothing counted, and a closed spool has *)
(* its trailer and nothing left to write.                                    *)
ClosedInv ==
    /\ pc \in AfterSpool => trailer /\ buffer = <<>> /\ ~torn
    /\ meta.ended => spool /\ pc \in Finished \cup {"idle"}
    /\ EndedMeansComplete

LEMMA TallyInit == Init => TallyInv /\ ClosedInv
  BY DEF Init, TallyInv, ClosedInv, AfterSpool, Finished, NoMeta,
         EndedMeansComplete

(* The lengths add up to a number. *)
LEMMA AcceptedNat ==
    ASSUME SpoolInv
    PROVE  /\ Len(disk) \in Nat /\ Len(buffer) \in Nat /\ Len(items) \in Nat
           /\ Accepted \in Nat /\ Accepted <= Len(items)
  BY LenProperties DEF SpoolInv, Shape, Aligned, Accepted

(* Nothing is counted, and no line is accepted. *)
LEMMA TallyStays ==
    ASSUME SpoolInv, TallyInv, pc \notin Finished \cup {"idle"},
           Accepted' = Accepted, UNCHANGED <<items, records, gaps>>,
           outcome = "unwritten" => outcome' = "unwritten"
    PROVE  TallyInv'
  BY AcceptedNat DEF TallyInv, Tally, SpoolInv

(* The line is accepted and counted. *)
LEMMA TallyWrite == ASSUME SpoolInv, TallyInv, Write PROVE TallyInv'
<1> DEFINE item == items[Len(items)]
<1>1. /\ pc = "got" /\ outcome = "none" /\ Accepted + 1 = Len(items)
      /\ Accepted \in Nat
  BY AcceptedNat DEF Write, SpoolInv, Progress, Working, InHand, Accepted
<1>2. Accepted' = Accepted + 1 /\ items' = items
  <2>1. items' = items /\ WriteLine(items[Len(items)])
    BY DEF Write, stream
  <2>2. Len(disk') + Len(buffer') = Len(items')
    BY <1>1, <2>1, LineWritten
  <2>3. QED
    BY <1>1, <2>1, <2>2 DEF Accepted
<1>3. item \in Entries /\ item = items[Accepted + 1]
  BY <1>1, ElementOfSeq, AcceptedNat DEF SpoolInv, Shape
<1>4. item.type \in {"record", "gap"}
  BY <1>3, EntryTypes
<1>5. /\ records' = records + (IF item.type = "record" THEN 1 ELSE 0)
      /\ gaps' = IF item.type = "gap" THEN gaps + 1 ELSE gaps
  BY DEF Write, IsRecord, IsGap
<1>6. /\ records \in Nat /\ gaps \in Nat /\ Accepted = records + gaps
      /\ records <= Tally(items, Accepted, "record")
      /\ gaps <= Tally(items, Accepted, "gap")
  BY <1>1 DEF TallyInv, Finished
<1>7. /\ Tally(items, Accepted + 1, "record") =
             Tally(items, Accepted, "record") + (IF item.type = "record" THEN 1 ELSE 0)
      /\ Tally(items, Accepted + 1, "gap") =
             Tally(items, Accepted, "gap") + (IF item.type = "gap" THEN 1 ELSE 0)
  BY <1>1, <1>3, TallyStep
<1>8. Tally(items, Accepted, "record") \in Nat /\ Tally(items, Accepted, "gap") \in Nat
  BY <1>1, TallyNat
<1>9. /\ Tally(items, Accepted', "record") = Tally(items, Accepted + 1, "record")
      /\ Tally(items, Accepted', "gap") = Tally(items, Accepted + 1, "gap")
  BY <1>2
<1> HIDE DEF item
<1>10. /\ records' \in Nat /\ gaps' \in Nat
       /\ records' <= Tally(items, Accepted + 1, "record")
       /\ gaps' <= Tally(items, Accepted + 1, "gap")
       /\ Accepted + 1 = records' + gaps'
  BY <1>4, <1>5, <1>6, <1>7, <1>8
<1>11. QED
  BY <1>2, <1>10 DEF TallyInv

(* The disk refuses the line, or only its flush. *)
LEMMA TallyWriteFails == ASSUME SpoolInv, TallyInv, WriteFails PROVE TallyInv'
<1> DEFINE item == items[Len(items)]
<1>1. /\ pc = "got" /\ outcome = "none" /\ Accepted + 1 = Len(items)
      /\ Accepted \in Nat /\ outcome' = "unwritten" /\ items' = items
  BY AcceptedNat
     DEF WriteFails, SpoolInv, Progress, Working, InHand, Accepted, stream
<1>2. /\ records \in Nat /\ gaps \in Nat /\ Accepted = records + gaps
      /\ records <= Tally(items, Accepted, "record")
      /\ gaps <= Tally(items, Accepted, "gap")
  BY <1>1 DEF TallyInv, Finished
<1>3. CASE UNCHANGED file
  <2>1. Accepted' = Accepted /\ UNCHANGED <<records, gaps>>
    BY <1>3 DEF file, Accepted
  <2>2. QED
    BY <1>1, <1>2, <2>1 DEF TallyInv
<1>4. CASE /\ Buffered(Append(buffer, item)) /\ UNCHANGED records
           /\ gaps' \in IF IsGap(item) THEN {gaps, gaps + 1} ELSE {gaps}
  <2>1. item \in Entries /\ item = items[Accepted + 1]
    BY <1>1, ElementOfSeq, AcceptedNat DEF SpoolInv, Shape
  <2>2. Accepted' = Accepted + 1
    <3>1. disk' = disk /\ buffer' = Append(buffer, item)
      BY <1>4 DEF Buffered
    <3>2. Len(Append(buffer, item)) = Len(buffer) + 1
      BY <2>1, AppendProperties DEF SpoolInv, Shape
    <3> HIDE DEF item
    <3>3. QED
      BY <3>1, <3>2, AcceptedNat DEF Accepted
  <2>3. /\ Tally(items, Accepted + 1, "record") =
               Tally(items, Accepted, "record") + (IF item.type = "record" THEN 1 ELSE 0)
        /\ Tally(items, Accepted + 1, "gap") =
               Tally(items, Accepted, "gap") + (IF item.type = "gap" THEN 1 ELSE 0)
    <3>1. Accepted \in Nat
      BY <1>1
    <3>2. \A type : Tally(items, Accepted + 1, type) = Tally(items, Accepted, type)
                      + (IF items[Accepted + 1].type = type THEN 1 ELSE 0)
      BY <3>1, TallyStep
    <3>3. item = items[Accepted + 1]
      BY <2>1
    <3> HIDE DEF item
    <3>4. QED
      BY <3>2, <3>3
  <2>4. Tally(items, Accepted, "record") \in Nat /\ Tally(items, Accepted, "gap") \in Nat
    BY <1>1, TallyNat
  <2>5. gaps' = gaps \/ (gaps' = gaps + 1 /\ item.type = "gap")
    BY <1>4 DEF IsGap
  <2>6. records' = records
    BY <1>4
  <2> HIDE DEF item
  <2>7. /\ records' \in Nat /\ gaps' \in Nat
        /\ records' <= Tally(items, Accepted + 1, "record")
        /\ gaps' <= Tally(items, Accepted + 1, "gap")
        /\ Accepted + 1 = records' + gaps' \/ Accepted + 1 = records' + gaps' + 1
    BY <1>2, <2>3, <2>4, <2>5, <2>6
  <2>8. QED
    BY <1>1, <2>2, <2>7 DEF TallyInv
<1>5. QED
  BY <1>3, <1>4 DEF WriteFails

(* What arrives is not counted yet. *)
LEMMA TallyPull == ASSUME SpoolInv, TallyInv, Pull PROVE TallyInv'
<1>1. PICK x \in Entries : items' = Append(items, x)
  BY EntriesAreItems DEF Pull, Source!YieldRecord, Source!YieldGap
<1>2. /\ Accepted \in Nat /\ Accepted <= Len(items) /\ Len(items) \in Nat
      /\ items \in Seq(Entries)
  BY AcceptedNat DEF SpoolInv, Shape
<1>3. \A i \in 1..Len(items) : items[i] = items'[i]
  BY <1>1, <1>2, AppendProperties
<1>4. \A i \in 1..Accepted : items[i] = items'[i]
  BY <1>2, <1>3
<1>5. /\ Tally(items', Accepted, "record") = Tally(items, Accepted, "record")
      /\ Tally(items', Accepted, "gap") = Tally(items, Accepted, "gap")
  <2>1. \A type : {i \in 1..Accepted : items'[i].type = type} =
                   {i \in 1..Accepted : items[i].type = type}
    BY <1>4
  <2>2. QED
    BY <2>1 DEF Tally
<1>6. /\ pc = "pulling" /\ Accepted' = Accepted
      /\ UNCHANGED <<outcome, records, gaps>>
  BY DEF Pull, file, Accepted
<1>7. QED
  BY <1>5, <1>6 DEF TallyInv, Finished

LEMMA TallyNext == ASSUME SpoolInv, TallyInv, [Next]_vars PROVE TallyInv'
<1> USE DEF Finished, stream, file
<1>0. ASSUME pc' \in Finished \cup {"idle"} PROVE TallyInv'
  BY <1>0 DEF TallyInv
<1>1. CASE CreateSpool
  <2>1. CASE spool
    BY <1>0, <1>1, <2>1 DEF CreateSpool
  <2>2. CASE ~spool
    <3>1. /\ records' = 0 /\ gaps' = 0 /\ Accepted' = 0 /\ items' = items
      BY <1>1, <2>2 DEF CreateSpool, SpoolInv, Fresh, Accepted
    <3>2. Tally(items, 0, "record") \in Nat /\ Tally(items, 0, "gap") \in Nat
      BY TallyNat
    <3>3. QED
      BY <3>1, <3>2 DEF TallyInv
  <2>3. QED
    BY <2>1, <2>2
<1>2. CASE TruncateMeta
  BY <1>2, TallyStays DEF TruncateMeta, Accepted
<1>3. CASE WriteFirstMeta
  BY <1>3, TallyStays DEF WriteFirstMeta, Accepted
<1>4. CASE EnterSource
  BY <1>4, TallyStays DEF EnterSource, Accepted
<1>5. CASE Write
  BY <1>5, TallyWrite
<1>6. CASE CloseStream
  BY <1>6, TallyStays DEF CloseStream, Accepted
<1>7. CASE ReleaseSource
  BY <1>7, TallyStays DEF ReleaseSource, Accepted
<1>8. CASE CloseSpool
  <2>1. Len(disk \o buffer) = Len(disk) + Len(buffer)
    BY JoinLines DEF SpoolInv, Shape
  <2>2. disk' = disk \o buffer /\ buffer' = <<>>
    BY <1>8 DEF CloseSpool, Flushed
  <2>3. Accepted' = Accepted
    BY <2>1, <2>2, AcceptedNat DEF Accepted
  <2>4. QED
    BY <1>8, <2>3, TallyStays DEF CloseSpool
<1>9. CASE WriteLastMeta
  BY <1>0, <1>9 DEF WriteLastMeta
<1>10. CASE IdentifyFails
  BY <1>0, <1>10 DEF IdentifyFails
<1>11. CASE Pull
  BY <1>11, TallyPull
<1>12. CASE \E how \in {"exhausted", "raised"} : StreamOver(how)
  <2>1. pc = "pulling" /\ UNCHANGED <<items, disk, buffer, records, gaps>>
    BY <1>12 DEF StreamOver, Source!End
  <2>2. outcome = "none" /\ Accepted' = Accepted
    BY <2>1 DEF SpoolInv, Progress, Working, Accepted
  <2>3. QED
    BY <2>1, <2>2, TallyStays
<1>13. CASE DurationOver
  <2>1. pc = "pulling" /\ UNCHANGED <<items, disk, buffer, records, gaps>>
    BY <1>13 DEF DurationOver
  <2>2. outcome = "none" /\ Accepted' = Accepted
    BY <2>1 DEF SpoolInv, Progress, Working, Accepted
  <2>3. QED
    BY <2>1, <2>2, TallyStays
<1>14. CASE Cancel
  <2>1. pc = "pulling" /\ UNCHANGED <<items, disk, buffer, records, gaps>>
    BY <1>14 DEF Cancel
  <2>2. outcome = "none" /\ Accepted' = Accepted
    BY <2>1 DEF SpoolInv, Progress, Working, Accepted
  <2>3. QED
    BY <2>1, <2>2, TallyStays
<1>24. CASE CancelExit
  <2>1. /\ pc \in {"leaving", "releasing"}
        /\ UNCHANGED <<items, disk, buffer, records, gaps>>
        /\ outcome = "unwritten" => outcome' = "unwritten"
    BY <1>24 DEF CancelExit
  <2>2. Accepted' = Accepted
    BY <2>1 DEF Accepted
  <2>3. QED
    BY <2>1, <2>2, TallyStays
<1>15. CASE WriteFails
  BY <1>15, TallyWriteFails
<1>16. CASE CloseSpoolFails
  BY <1>0, <1>16 DEF CloseSpoolFails
<1>17. CASE WriteMetaFails
  BY <1>0, <1>17 DEF WriteMetaFails
<1>18. CASE Spill
  <2>1. PICK n \in 0..Len(buffer) :
          /\ disk' = disk \o SubSeq(buffer, 1, n)
          /\ buffer' = SubSeq(buffer, n + 1, Len(buffer))
    BY <1>18 DEF Spill
  <2>2. Len(disk') = Len(disk) + n /\ Len(buffer') = Len(buffer) - n
    BY <2>1, SplitLines DEF SpoolInv, Shape
  <2>3. Accepted' = Accepted
    <3>1. n \in Nat
      OBVIOUS
    <3>2. QED
      BY <2>2, <3>1, AcceptedNat DEF Accepted
  <2>4. QED
    BY <1>18, <2>3, TallyStays DEF Spill
<1>19. CASE Kill
  BY <1>0, <1>19 DEF Kill
<1>20. CASE CaptureAgain
  BY <1>0, <1>20 DEF CaptureAgain
<1>21. CASE Done
  <2>1. UNCHANGED vars
    BY <1>21 DEF Done
  <2>2. QED
    BY <2>1 DEF vars, TallyInv, Accepted
<1>22. CASE UNCHANGED vars
  <2>1. UNCHANGED vars
    BY <1>22 DEF Done
  <2>2. QED
    BY <2>1 DEF vars, TallyInv, Accepted
<1>23. QED
  BY <1>1, <1>2, <1>3, <1>4, <1>5, <1>6, <1>7, <1>8, <1>9, <1>10,
     <1>11, <1>12, <1>13, <1>14, <1>15, <1>16, <1>17, <1>18,
     <1>19, <1>20, <1>21, <1>22, <1>24
     DEF Next, Step

LEMMA ClosedNext ==
    ASSUME SpoolInv, TallyInv, ClosedInv, [Next]_vars
    PROVE  ClosedInv'
<1> USE DEF Finished, AfterSpool, stream, file
<1>1. CASE CreateSpool
  <2>1. CASE spool
    BY <1>1, <2>1 DEF CreateSpool, ClosedInv, EndedMeansComplete, OnDisk
  <2>2. CASE ~spool
    <3>1. ~meta.ended
      BY <2>2 DEF ClosedInv
    <3>2. pc' = "opening" /\ meta' = meta
      BY <1>1, <2>2 DEF CreateSpool
    <3>3. QED
      BY <3>1, <3>2 DEF ClosedInv, EndedMeansComplete
  <2>3. QED
    BY <2>1, <2>2
<1>2. CASE TruncateMeta
  <2>1. /\ meta' = Torn /\ (pc' = "closing_meta" => pc = "spool_closed")
        /\ pc' # "spool_closed" /\ UNCHANGED <<trailer, buffer, torn>>
    BY <1>2 DEF TruncateMeta
  <2>2. QED
    BY <2>1 DEF ClosedInv, EndedMeansComplete, Torn
<1>3. CASE WriteFirstMeta
  BY <1>3 DEF WriteFirstMeta, ClosedInv, EndedMeansComplete, MetaAt
<1>4. CASE EnterSource
  <2>1. ~meta.ended /\ meta' = meta /\ pc' \notin AfterSpool
    BY <1>4 DEF EnterSource, ClosedInv
  <2>2. QED
    BY <2>1 DEF ClosedInv, EndedMeansComplete
<1>5. CASE Write
  <2>1. ~meta.ended /\ meta' = meta /\ pc' \notin AfterSpool
    BY <1>5 DEF Write, ClosedInv
  <2>2. QED
    BY <2>1 DEF ClosedInv, EndedMeansComplete
<1>6. CASE CloseStream
  <2>1. ~meta.ended /\ meta' = meta /\ pc' \notin AfterSpool
    BY <1>6 DEF CloseStream, ClosedInv
  <2>2. QED
    BY <2>1 DEF ClosedInv, EndedMeansComplete
<1>7. CASE ReleaseSource
  <2>1. ~meta.ended /\ meta' = meta /\ pc' \notin AfterSpool
    BY <1>7 DEF ReleaseSource, ClosedInv
  <2>2. QED
    BY <2>1 DEF ClosedInv, EndedMeansComplete
<1>8. CASE CloseSpool
  <2>1. /\ ~meta.ended /\ meta' = meta
        /\ trailer' = TRUE /\ buffer' = <<>> /\ torn' = FALSE
    BY <1>8 DEF CloseSpool, Flushed, ClosedInv
  <2>2. QED
    BY <2>1 DEF ClosedInv, EndedMeansComplete
<1>9. CASE WriteLastMeta
  <2>1. /\ pc = "closing_meta" /\ pc' \in Finished
        /\ meta' = MetaAt(TRUE, records, gaps)
        /\ UNCHANGED <<outcome, items, spool, disk, buffer, torn, trailer>>
    BY <1>9 DEF WriteLastMeta
  <2>2. trailer /\ buffer = <<>> /\ ~torn /\ spool
    BY <2>1 DEF ClosedInv, SpoolInv, Opened
  <2>3. /\ meta'.ended /\ meta'.records = records /\ meta'.gaps = gaps
    BY <2>1 DEF MetaAt
  <2>4. Accepted = Len(disk) /\ Len(disk) \in Nat
    BY <2>2, AcceptedNat DEF Accepted
  <2>5. /\ records \in Nat /\ gaps \in Nat
        /\ records <= Tally(items, Len(disk), "record")
        /\ gaps <= Tally(items, Len(disk), "gap")
        /\ \/ Len(disk) = records + gaps
           \/ Len(disk) = records + gaps + 1 /\ outcome = "unwritten"
    BY <2>1, <2>4 DEF TallyInv
  <2>6. \A type : Tally(items, Len(disk), type) = Cardinality(OnDisk(type))
    <3> TAKE type
    <3>1. \A i \in 1..Len(disk) : items[i] = disk[i]
      BY DEF SpoolInv, Aligned
    <3>2. Tally(items, Len(disk), type) = Tally(disk, Len(disk), type)
      BY <2>4, <3>1, TallySame
    <3>3. DOMAIN disk = 1..Len(disk)
      BY LenProperties DEF SpoolInv, Shape
    <3>4. QED
      BY <3>2, <3>3 DEF Tally, OnDisk
  <2>7. OnDisk("record")' = OnDisk("record") /\ OnDisk("gap")' = OnDisk("gap")
    BY <2>1 DEF OnDisk
  <2>8. EndedMeansComplete'
    <3>1. /\ meta'.records <= Cardinality(OnDisk("record"))
          /\ meta'.gaps <= Cardinality(OnDisk("gap"))
      BY <2>3, <2>5, <2>6
    <3>2. LET short == Len(disk) - (meta'.records + meta'.gaps)
          IN  short = 0 \/ (short = 1 /\ outcome = "unwritten")
      BY <2>3, <2>4, <2>5
    <3>3. QED
      BY <2>1, <2>2, <2>7, <3>1, <3>2 DEF EndedMeansComplete
  <2>9. QED
    BY <2>1, <2>2, <2>8 DEF ClosedInv
<1>10. CASE IdentifyFails
  BY <1>10 DEF IdentifyFails, ClosedInv, EndedMeansComplete, OnDisk
<1>11. CASE Pull
  <2>1. ~meta.ended /\ meta' = meta /\ pc' \notin AfterSpool
    BY <1>11 DEF Pull, ClosedInv
  <2>2. QED
    BY <2>1 DEF ClosedInv, EndedMeansComplete
<1>12. CASE \E how \in {"exhausted", "raised"} : StreamOver(how)
  <2>1. ~meta.ended /\ meta' = meta /\ pc' \notin AfterSpool
    BY <1>12 DEF StreamOver, Source!End, ClosedInv
  <2>2. QED
    BY <2>1 DEF ClosedInv, EndedMeansComplete
<1>13. CASE DurationOver
  <2>1. ~meta.ended /\ meta' = meta /\ pc' \notin AfterSpool
    BY <1>13 DEF DurationOver, ClosedInv
  <2>2. QED
    BY <2>1 DEF ClosedInv, EndedMeansComplete
<1>14. CASE Cancel
  <2>1. ~meta.ended /\ meta' = meta /\ pc' \notin AfterSpool
    BY <1>14 DEF Cancel, ClosedInv
  <2>2. QED
    BY <2>1 DEF ClosedInv, EndedMeansComplete
<1>24. CASE CancelExit
  <2>1. ~meta.ended /\ meta' = meta /\ pc' \notin AfterSpool
    BY <1>24 DEF CancelExit, ClosedInv
  <2>2. QED
    BY <2>1 DEF ClosedInv, EndedMeansComplete
<1>15. CASE WriteFails
  <2>1. ~meta.ended /\ meta' = meta /\ pc' \notin AfterSpool
    BY <1>15 DEF WriteFails, ClosedInv
  <2>2. QED
    BY <2>1 DEF ClosedInv, EndedMeansComplete
<1>16. CASE CloseSpoolFails
  <2>1. ~meta.ended /\ meta' = meta /\ pc' = "failed"
    BY <1>16 DEF CloseSpoolFails, ClosedInv
  <2>2. QED
    BY <2>1 DEF ClosedInv, EndedMeansComplete
<1>17. CASE WriteMetaFails
  <2>1. ~meta.ended /\ meta' = meta /\ pc' = "failed"
    BY <1>17 DEF WriteMetaFails, ClosedInv
  <2>2. QED
    BY <2>1 DEF ClosedInv, EndedMeansComplete
<1>18. CASE Spill
  <2>1. /\ pc \notin Finished \cup {"idle"} /\ buffer # <<>>
        /\ UNCHANGED <<pc, meta>>
    BY <1>18 DEF Spill
  <2>2. QED
    BY <2>1 DEF ClosedInv, EndedMeansComplete
<1>19. CASE Kill
  <2>1. /\ pc' = "killed" /\ buffer' = <<>>
        /\ UNCHANGED <<outcome, spool, disk, torn, trailer, meta>>
    BY <1>19 DEF Kill
  <2>2. QED
    BY <2>1 DEF ClosedInv, EndedMeansComplete, OnDisk
<1>20. CASE CaptureAgain
  BY <1>20 DEF CaptureAgain, ClosedInv, EndedMeansComplete, OnDisk
<1>21. CASE Done
  <2>1. UNCHANGED vars
    BY <1>21 DEF Done
  <2>2. QED
    BY <2>1 DEF vars, ClosedInv, EndedMeansComplete, OnDisk
<1>22. CASE UNCHANGED vars
  <2>1. UNCHANGED vars
    BY <1>22 DEF Done
  <2>2. QED
    BY <2>1 DEF vars, ClosedInv, EndedMeansComplete, OnDisk
<1>23. QED
  BY <1>1, <1>2, <1>3, <1>4, <1>5, <1>6, <1>7, <1>8, <1>9, <1>10,
     <1>11, <1>12, <1>13, <1>14, <1>15, <1>16, <1>17, <1>18,
     <1>19, <1>20, <1>21, <1>22, <1>24
     DEF Next, Step

(* A sidecar that says the capture ended describes a finished spool, for     *)
(* every stream, limit and flush interval, and whatever a later capture of   *)
(* the same destination tries (SessionWriter.close).                         *)
THEOREM EndedIsComplete == Spec => []EndedMeansComplete
<1>1. ClosedInv => EndedMeansComplete
  BY DEF ClosedInv
<1>2. SpoolInv /\ TallyInv /\ ClosedInv /\ [Next]_vars => (TallyInv /\ ClosedInv)'
  BY TallyNext, ClosedNext
<1>3. QED
  BY SpoolStays, TallyInit, <1>1, <1>2, PTL DEF Spec

=============================================================================
