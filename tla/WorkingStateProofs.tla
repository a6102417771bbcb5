------------------------- MODULE WorkingStateProofs -------------------------
(* Proofs about WorkingState: what the end of a run says, for any files and *)
(* any bounds.                                                              *)
EXTENDS WorkingState, SequenceTheorems, TLAPS

Endings == {End("completed"), End("failed")}
Item == Event \cup Endings

RowTyped ==
  /\ rowOf \in Row /\ mine \in Row /\ fresh \in BOOLEAN /\ accepted \in BOOLEAN /\ cancelled \in BOOLEAN
  /\ queue \in Seq(Item) /\ held \in Seq(Row) /\ tool \in Seq(Row)
  /\ phase \in {"loop", "mark", "closing", "check", "over", "down"}
  /\ unreviewed \subseteq File /\ said \in {"none", "completed", "failed"} /\ thrown \in 0..MaxThrown

\* An ending is queued behind all events, and waited for.
EndsLast ==
  /\ phase = "closing" => Len(queue) > 0 /\ tool = <<>> /\ ~cancelled
  /\ \A i \in 1..Len(queue) : queue[i] \in Endings <=> (phase = "closing" /\ i = Len(queue))
  /\ held # <<>> => queue # <<>>
  /\ phase = "mark" => cancelled

\* Once it is in the row, nothing is written but by the check of acceptance, or by fail().
EndingKept ==
  /\ said # "none" => ~cancelled /\ phase \in {"closing", "check", "over", "down"}
  /\ said # "none" /\ phase # "down" =>
       rowOf.status = said /\ (phase = "closing" => queue = <<End("failed")>>)
       /\ (tool # <<>> => phase = "check" /\ tool[1].status = said)
  /\ phase \in {"check", "over"} /\ ~cancelled => queue = <<>> /\ (said = "none" => thrown > 0)
  /\ phase \in {"loop", "mark", "closing", "check"} => ~accepted

\* The fresh tracker's copy knows every edit, and of no review.
TrackerCopied ==
  fresh => /\ held = <<>> /\ mine.review = FALSE
           /\ phase # "down" =>
                \A f \in unreviewed : f \in mine.changed \/ \E i \in 1..Len(queue) : f \in queue[i].file
           /\ phase = "check" /\ said # "none" => rowOf = mine /\ (tool # <<>> => tool[1] = mine)
           /\ phase = "over" /\ said # "none" /\ accepted => mine.changed = {}

WsInv == RowTyped /\ EndsLast /\ EndingKept /\ TrackerCopied

LEMMA WsInvInit == WsInit => WsInv
<1> SUFFICES ASSUME WsInit PROVE WsInv
  OBVIOUS
<1>1. Blank \in Row /\ Blank.review = FALSE
  BY DEF Row, Blank
<1>2. <<>> \in Seq(Item) /\ <<>> \in Seq(Row)
  OBVIOUS
<1>3. thrown \in 0..MaxThrown
  BY WsBoundAssumption DEF WsInit
<1>4. RowTyped
  BY <1>1, <1>2, <1>3 DEF WsInit, RowTyped
<1>5. EndsLast /\ EndingKept
  BY DEF WsInit, EndsLast, EndingKept
<1>6. TrackerCopied
  <2>1. held = <<>> /\ mine.review = FALSE /\ unreviewed = {} /\ phase = "loop"
    BY <1>1 DEF WsInit
  <2> QED  BY <2>1 DEF TrackerCopied
<1> QED  BY <1>4, <1>5, <1>6 DEF WsInv

\* What is written is a row.
LEMMA SpreadIsRow == ASSUME NEW r \in Row PROVE Spread(r) \in Row /\ Spread(r).status = r.status
BY DEF Row, Spread

\* Events and endings are told apart.
LEMMA Items ==
  /\ \A e \in Event : e \notin Endings /\ e.kind \notin {"completed", "failed"} /\ e.file \subseteq File
  /\ \A e \in Endings : e.kind \in {"completed", "failed"} /\ e.file = {}
BY DEF Event, Endings, End

\* A step that fails is counted.
LEMMA ThrowsTyped ==
  ASSUME RowTyped, Throws \/ UNCHANGED thrown
  PROVE  thrown' \in 0..MaxThrown /\ (Throws => thrown' > 0) /\ (thrown > 0 => thrown' > 0)
BY WsBoundAssumption DEF RowTyped, Throws

\* The tracker notes an item.
LEMMA NotedIsRow ==
  ASSUME NEW r \in Row, NEW e \in Item
  PROVE  /\ Noted(r, e) \in Row
         /\ Noted(r, e).changed = r.changed \cup e.file
         /\ Noted(r, e).review = r.review
         /\ e \in Endings => Noted(r, e).status = e.kind /\ e.kind \in {"completed", "failed"}
<1>1. e.file \subseteq File
  BY Items DEF Item
<1>2. e \in Endings => e.kind \in {"completed", "failed"}
  BY Items
<1>3. r.changed \cup e.file \in SUBSET File
  BY <1>1 DEF Row
<1>4. (IF e.kind \in {"completed", "failed"} THEN e.kind ELSE r.status)
        \in {"running", "completed", "failed", "interrupted"}
  BY DEF Row
<1> QED  BY <1>2, <1>3, <1>4 DEF Noted, Row

LEMMA MergedIsRow ==
  ASSUME NEW r \in Row, NEW e \in Item
  PROVE  /\ Merged(r, e) \in Row
         /\ e \in Endings => Merged(r, e).status = e.kind /\ e.kind \in {"completed", "failed"}
<1>1. e.file \subseteq File
  BY Items DEF Item
<1>2. e \in Endings => e.kind \in {"completed", "failed"}
  BY Items
<1> QED  BY <1>1, <1>2 DEF Merged, Spread, Row

LEMMA AppendFacts ==
  ASSUME NEW q \in Seq(Item), NEW e \in Item
  PROVE  /\ Append(q, e) \in Seq(Item) /\ Len(Append(q, e)) = Len(q) + 1
         /\ \A i \in 1..Len(q) : Append(q, e)[i] = q[i]
         /\ Append(q, e)[Len(q) + 1] = e
OBVIOUS

LEMMA TailFacts ==
  ASSUME NEW q \in Seq(Item), q # <<>>
  PROVE  /\ Head(q) = q[1] /\ Head(q) \in Item /\ Len(q) > 0 /\ 1 \in 1..Len(q)
         /\ Tail(q) \in Seq(Item) /\ Len(Tail(q)) = Len(q) - 1
         /\ \A i \in 1..Len(Tail(q)) : Tail(q)[i] = q[i + 1] /\ i + 1 \in 1..Len(q)
OBVIOUS

-----------------------------------------------------------------------------
\* An event joins the queue.
LEMMA InvLoopEvent == ASSUME WsInv, NEW e \in Event, LoopEvent(e) PROVE WsInv'
<1> USE DEF WsInv, LoopEvent
<1>1. e \in Item /\ e \notin Endings /\ e.file \subseteq File /\ queue \in Seq(Item)
  BY Items DEF Item, RowTyped
<1>2. /\ queue' \in Seq(Item) /\ Len(queue') = Len(queue) + 1
      /\ \A i \in 1..Len(queue) : queue'[i] = queue[i]
      /\ queue'[Len(queue) + 1] = e
  BY <1>1, AppendFacts
<1>3. RowTyped'
  BY <1>1, <1>2 DEF RowTyped
<1>4. Len(queue) \in Nat
  BY <1>1
<1>5. \A i \in 1..Len(queue') : queue'[i] \notin Endings
  BY <1>1, <1>2, <1>4 DEF EndsLast
<1>6. EndsLast'
  BY <1>2, <1>4, <1>5 DEF EndsLast
<1>7. EndingKept'
  BY DEF EndingKept
<1>8. TrackerCopied'
  <2> SUFFICES ASSUME fresh, NEW g \in unreviewed'
               PROVE  g \in mine.changed \/ \E i \in 1..Len(queue') : g \in queue'[i].file
    BY DEF TrackerCopied
  <2>1. CASE g \in unreviewed
    BY <2>1, <1>2, <1>4 DEF TrackerCopied
  <2>2. CASE g \in e.file
    BY <2>2, <1>2, <1>4
  <2> QED  BY <2>1, <2>2
<1> QED  BY <1>3, <1>6, <1>7, <1>8

\* The loop ends.
LEMMA InvEndLoop ==
  ASSUME WsInv, NEW how \in {"completed", "failed", "cancelled"}, EndLoop(how) PROVE WsInv'
<1> USE DEF WsInv, EndLoop
<1>1. CASE how = "cancelled"
  <2>1. RowTyped' /\ EndsLast'
    BY <1>1 DEF RowTyped, EndsLast
  <2>2. EndingKept' /\ TrackerCopied'
    BY <1>1 DEF EndingKept, TrackerCopied
  <2> QED  BY <2>1, <2>2
<1>2. CASE how # "cancelled"
  <2>1. End(how) \in Endings /\ End(how) \in Item /\ queue \in Seq(Item)
    BY <1>2 DEF Endings, Item, RowTyped
  <2>2. /\ queue' \in Seq(Item) /\ Len(queue') = Len(queue) + 1
        /\ \A i \in 1..Len(queue) : queue'[i] = queue[i]
        /\ queue'[Len(queue) + 1] = End(how)
    BY <1>2, <2>1, AppendFacts
  <2>3. Len(queue) \in Nat
    BY <2>1
  <2>4. phase' = "closing" /\ cancelled' = FALSE
    BY <1>2
  <2>5. RowTyped'
    BY <2>2, <2>4 DEF RowTyped
  <2>6. \A i \in 1..Len(queue) : queue'[i] \notin Endings
    BY <2>2 DEF EndsLast
  <2>7. \A i \in 1..Len(queue') : queue'[i] \in Endings <=> i = Len(queue')
    BY <2>1, <2>2, <2>3, <2>6
  <2>8. EndsLast'
    BY <2>2, <2>3, <2>4, <2>7 DEF EndsLast
  <2>9. EndingKept'
    BY <2>4 DEF EndingKept
  <2>10. TrackerCopied'
    <3> SUFFICES ASSUME fresh, NEW g \in unreviewed
                 PROVE  g \in mine.changed \/ \E i \in 1..Len(queue') : g \in queue'[i].file
      BY <2>4 DEF TrackerCopied
    <3> QED  BY <2>2, <2>3 DEF TrackerCopied
  <2> QED  BY <2>5, <2>8, <2>9, <2>10
<1> QED  BY <1>1, <1>2

\* What the queue and the phase are once its first item is done.
LEMMA AfterItem ==
  ASSUME WsInv, queue # <<>>, phase' = AfterRecord(Head(queue)), queue' = Tail(queue)
  PROVE  /\ queue' \in Seq(Item)
         /\ phase' \in {"loop", "mark", "closing", "check", "over", "down"}
         /\ Head(queue) \in Endings => /\ phase = "closing" /\ queue' = <<>> /\ phase' \in {"check", "over"}
                                       /\ said # "none" => phase' = "over"
         /\ Head(queue) \notin Endings => /\ phase' = phase
                                          /\ phase = "closing" => Len(queue') > 0
                                          /\ Head(queue).kind \notin {"completed", "failed"}
                                          /\ phase \in {"check", "over"} => cancelled
                                          /\ said # "none" => phase = "down"
         /\ \A i \in 1..Len(queue') : queue'[i] \in Endings <=> (phase' = "closing" /\ i = Len(queue'))
<1> USE DEF WsInv
<1>1. queue \in Seq(Item) /\ Len(queue) \in Nat
  BY DEF RowTyped
<1>2. /\ Head(queue) = queue[1] /\ Head(queue) \in Item /\ Len(queue) > 0 /\ 1 \in 1..Len(queue)
      /\ queue' \in Seq(Item) /\ Len(queue') = Len(queue) - 1
      /\ \A i \in 1..Len(queue') : queue'[i] = queue[i + 1] /\ i + 1 \in 1..Len(queue)
  BY <1>1, TailFacts
<1>3. Head(queue) \in Endings <=> (phase = "closing" /\ Len(queue) = 1)
  BY <1>1, <1>2 DEF EndsLast
<1>4. CASE Head(queue) \in Endings
  <2>1. phase' \in {"check", "over"}
    BY <1>4, Items DEF AfterRecord
  <2>5. said # "none" => phase' = "over"
    BY <1>2, <1>3, <1>4 DEF EndingKept, AfterRecord, End
  <2>2. phase = "closing" /\ Len(queue) = 1 /\ Len(queue') = 0
    BY <1>2, <1>3, <1>4
  <2>3. queue' = <<>>
    BY <1>2, <2>2, EmptySeq
  <2>4. ASSUME NEW i \in 1..Len(queue') PROVE queue'[i] \in Endings <=> (phase' = "closing" /\ i = Len(queue'))
    <3>1. Len(queue') = 0
      BY <2>2
    <3>2. i \in 1..0
      BY <3>1, Zenon
    <3> QED  BY <3>2
  <2> QED  BY <1>2, <1>4, <2>1, <2>2, <2>3, <2>4, <2>5
<1>5. CASE Head(queue) \notin Endings
  <2>1. Head(queue) \in Event
    BY <1>2, <1>5 DEF Item
  <2>2. phase' = phase
    BY <2>1, Items DEF AfterRecord
  <2>3. phase = "closing" => Len(queue') > 0
    BY <1>1, <1>2, <1>3, <1>5
  <2>4. \A i \in 1..Len(queue') : queue'[i] \in Endings <=> (phase' = "closing" /\ i = Len(queue'))
    <3> SUFFICES ASSUME NEW i \in 1..Len(queue')
                 PROVE  queue'[i] \in Endings <=> (phase' = "closing" /\ i = Len(queue'))
      OBVIOUS
    <3>1. queue[i + 1] \in Endings <=> (phase = "closing" /\ i + 1 = Len(queue))
      BY <1>2 DEF EndsLast
    <3>2. i = Len(queue') <=> i + 1 = Len(queue)
      BY <1>1, <1>2
    <3> QED  BY <1>2, <2>2, <3>1, <3>2
  <2>5. phase' \in {"loop", "mark", "closing", "check", "over", "down"}
    BY <2>2 DEF RowTyped
  <2>6. Head(queue).kind \notin {"completed", "failed"}
    BY <2>1, Items
  <2>7. phase \in {"check", "over"} => cancelled
    BY DEF EndingKept
  <2>8. said # "none" => phase = "down"
    <3>1. End("failed") \in Endings  BY DEF Endings
    <3>2. ASSUME said # "none", phase = "closing"  PROVE FALSE
      <4>1. queue = <<End("failed")>>  BY <3>2 DEF EndingKept
      <4> QED  BY <4>1, <3>1, <1>2, <1>5
    <3>3. said # "none" /\ phase # "down" => phase = "closing"
      BY <2>7 DEF EndingKept
    <3> QED  BY <3>2, <3>3
  <2> QED  BY <1>2, <1>5, <2>2, <2>3, <2>4, <2>5, <2>6, <2>7, <2>8
<1> QED  BY <1>4, <1>5

\* The fresh tracker notes an item and writes its copy.
LEMMA InvFreshRecord == ASSUME WsInv, FreshRecord PROVE WsInv'
<1> USE DEF WsInv, FreshRecord
<1>1. queue \in Seq(Item) /\ mine \in Row
  BY DEF RowTyped
<1>2. /\ Head(queue) = queue[1] /\ Head(queue) \in Item
      /\ Len(queue) \in Nat /\ Len(queue') = Len(queue) - 1
      /\ \A i \in 1..Len(queue') : queue'[i] = queue[i + 1]
  BY <1>1, TailFacts
<1>3. /\ queue' \in Seq(Item)
      /\ phase' \in {"loop", "mark", "closing", "check", "over", "down"}
      /\ Head(queue) \in Endings => /\ phase = "closing" /\ queue' = <<>> /\ phase' \in {"check", "over"}
                                    /\ said # "none" => phase' = "over"
      /\ Head(queue) \notin Endings => /\ phase' = phase
                                       /\ phase = "closing" => Len(queue') > 0
                                       /\ Head(queue).kind \notin {"completed", "failed"}
                                       /\ phase \in {"check", "over"} => cancelled
                                       /\ said # "none" => phase = "down"
      /\ \A i \in 1..Len(queue') : queue'[i] \in Endings <=> (phase' = "closing" /\ i = Len(queue'))
  BY AfterItem
<1>4. /\ mine' \in Row /\ mine'.review = FALSE
      /\ mine'.changed = mine.changed \cup Head(queue).file
      /\ Head(queue) \in Endings => mine'.status = Head(queue).kind /\ Head(queue).kind \in {"completed", "failed"}
  BY <1>1, <1>2, NotedIsRow DEF TrackerCopied
<1>11. thrown' \in 0..MaxThrown /\ (Throws => thrown' > 0) /\ (thrown > 0 => thrown' > 0)
  BY ThrowsTyped
<1>12. \/ rowOf' = mine' /\ said' = IF Head(queue).kind \in {"completed", "failed"} THEN Head(queue).kind ELSE said
       \/ Throws /\ rowOf' = rowOf /\ said' = said
  BY DEF Records
<1>5. RowTyped'
  BY <1>3, <1>4, <1>11, <1>12 DEF RowTyped
<1>6. held = <<>> /\ (phase = "closing" => tool = <<>>)
  BY DEF TrackerCopied, EndsLast
<1>7. EndsLast'
  BY <1>3, <1>6 DEF EndsLast
<1>8. EndingKept'
  <2>1. CASE Head(queue) \in Endings
    <3>1. /\ phase = "closing" /\ queue' = <<>> /\ phase' \in {"check", "over"} /\ tool' = <<>>
          /\ ~cancelled' /\ ~accepted'
      BY <2>1, <1>3, <1>6 DEF EndingKept, EndsLast
    <3>2. CASE rowOf' = mine' /\ said' = Head(queue).kind
      <4>1. rowOf'.status = said' /\ said' \in {"completed", "failed"} /\ said' # "none" /\ tool' = <<>>
        BY <2>1, <3>1, <3>2, <1>4
      <4> QED  BY <4>1, <3>1 DEF EndingKept
    <3>3. CASE Throws /\ rowOf' = rowOf /\ said' = said
      BY <3>1, <3>3, <1>11 DEF EndingKept
    <3> QED  BY <2>1, <3>2, <3>3, <1>4, <1>12
  <2>2. CASE Head(queue) \notin Endings
    BY <2>2, <1>3, <1>11, <1>12 DEF EndingKept
  <2> QED  BY <2>1, <2>2
<1>9. \A g \in unreviewed' : phase' # "down" => g \in mine'.changed \/ \E i \in 1..Len(queue') : g \in queue'[i].file
  <2> SUFFICES ASSUME NEW g \in unreviewed, phase' # "down"
               PROVE  g \in mine'.changed \/ \E i \in 1..Len(queue') : g \in queue'[i].file
    OBVIOUS
  <2>1. phase # "down"
    BY <1>3
  <2>2. g \in mine.changed \/ \E i \in 1..Len(queue) : g \in queue[i].file
    BY <2>1 DEF TrackerCopied
  <2>3. CASE g \in mine.changed
    BY <2>3, <1>4
  <2>4. ASSUME NEW i \in 1..Len(queue), g \in queue[i].file
        PROVE  g \in mine'.changed \/ \E j \in 1..Len(queue') : g \in queue'[j].file
    <3>1. CASE i = 1
      BY <3>1, <2>4, <1>2, <1>4
    <3>2. CASE i # 1
      <4>1. i - 1 \in 1..Len(queue') /\ (i - 1) + 1 = i
        BY <3>2, <1>2
      <4>2. queue'[i - 1] = queue[i]
        BY <4>1, <1>2
      <4> QED  BY <4>1, <4>2, <2>4
    <3> QED  BY <3>1, <3>2
  <2> QED  BY <2>2, <2>3, <2>4
<1>10. TrackerCopied'
  <2>1. CASE Head(queue) \in Endings
    BY <2>1, <1>3, <1>4, <1>6, <1>9, <1>12 DEF TrackerCopied, EndingKept
  <2>2. CASE Head(queue) \notin Endings
    BY <2>2, <1>3, <1>4, <1>6, <1>9, <1>12 DEF TrackerCopied, EndingKept
  <2> QED  BY <2>1, <2>2
<1> QED  BY <1>5, <1>7, <1>8, <1>10

\* The resumed tracker loads, and saves.
LEMMA InvResumedLoad == ASSUME WsInv, ResumedLoad PROVE WsInv'
<1> USE DEF WsInv, ResumedLoad
<1>1. RowTyped'
  BY DEF RowTyped
<1>2. EndsLast' /\ EndingKept'
  BY DEF EndsLast, EndingKept
<1>3. TrackerCopied'
  BY DEF TrackerCopied
<1> QED  BY <1>1, <1>2, <1>3

LEMMA InvResumedSave == ASSUME WsInv, ResumedSave PROVE WsInv'
<1> USE DEF WsInv, ResumedSave
<1>1. /\ queue \in Seq(Item) /\ queue # <<>> /\ fresh = FALSE
      /\ phase = "closing" => tool = <<>>
  BY DEF RowTyped, EndsLast, TrackerCopied
<1>2. held[1] \in Row
  BY DEF RowTyped
<1>3. Head(queue) \in Item
  BY <1>1, TailFacts
<1>4. /\ queue' \in Seq(Item)
      /\ phase' \in {"loop", "mark", "closing", "check", "over", "down"}
      /\ Head(queue) \in Endings => /\ phase = "closing" /\ queue' = <<>> /\ phase' \in {"check", "over"}
                                    /\ said # "none" => phase' = "over"
      /\ Head(queue) \notin Endings => /\ phase' = phase
                                       /\ phase = "closing" => Len(queue') > 0
                                       /\ Head(queue).kind \notin {"completed", "failed"}
                                       /\ phase \in {"check", "over"} => cancelled
                                       /\ said # "none" => phase = "down"
      /\ \A i \in 1..Len(queue') : queue'[i] \in Endings <=> (phase' = "closing" /\ i = Len(queue'))
  BY <1>1, AfterItem
<1>5. /\ rowOf' \in Row
      /\ Head(queue) \in Endings => rowOf'.status = Head(queue).kind /\ Head(queue).kind \in {"completed", "failed"}
      /\ said' = IF Head(queue).kind \in {"completed", "failed"} THEN Head(queue).kind ELSE said
  BY <1>2, <1>3, MergedIsRow DEF Records
<1>6. RowTyped'
  BY <1>4, <1>5 DEF RowTyped
<1>7. EndsLast'
  BY <1>1, <1>4 DEF EndsLast
<1>8. EndingKept'
  <2>1. CASE Head(queue) \in Endings
    <3>1. /\ phase = "closing" /\ queue' = <<>> /\ phase' \in {"check", "over"} /\ tool' = <<>>
          /\ ~cancelled' /\ ~accepted'
      <4>1. phase = "closing" /\ ~accepted /\ tool = <<>> /\ ~cancelled
        BY <2>1, <1>1, <1>4 DEF EndingKept, EndsLast
      <4> QED  BY <2>1, <1>4, <4>1
    <3>2. rowOf'.status = said' /\ said' \in {"completed", "failed"} /\ said' # "none"
      BY <2>1, <1>5
    <3> QED  BY <3>1, <3>2 DEF EndingKept
  <2>2. CASE Head(queue) \notin Endings
    BY <2>2, <1>1, <1>4, <1>5 DEF EndingKept
  <2> QED  BY <2>1, <2>2
<1>9. TrackerCopied'
  BY <1>1 DEF TrackerCopied
<1> QED  BY <1>6, <1>7, <1>8, <1>9

\* The resumed tracker's ending is not saved: the route calls fail(), or is left.
LEMMA InvResumedThrow == ASSUME WsInv, ResumedThrow PROVE WsInv'
<1> USE DEF WsInv, ResumedThrow
<1>1. /\ End("failed") \in Endings /\ End("failed") \in Item /\ End("failed").kind = "failed"
      /\ <<End("failed")>> \in Seq(Item) /\ Len(<<End("failed")>>) = 1 /\ <<End("failed")>>[1] = End("failed")
      /\ <<>> \in Seq(Item) /\ <<>> \in Seq(Row) /\ Len(<<>>) = 0
  BY DEF Endings, Item, End
<1>2. thrown' \in 0..MaxThrown /\ thrown' > 0  BY ThrowsTyped
<1>3. /\ fresh = FALSE /\ phase = "closing" /\ tool = <<>> /\ ~accepted /\ held' = <<>>
      /\ \/ phase' = "closing" /\ queue' = <<End("failed")>>
         \/ phase' = "over" /\ queue' = <<>>
  BY DEF RowTyped, EndsLast, EndingKept
<1>4. RowTyped'
  BY <1>1, <1>2, <1>3 DEF RowTyped
<1>5. EndsLast'
  BY <1>1, <1>3 DEF EndsLast
<1>6. EndingKept'
  BY <1>2, <1>3 DEF EndingKept
<1>7. TrackerCopied'
  BY <1>3 DEF TrackerCopied
<1> QED  BY <1>4, <1>5, <1>6, <1>7

\* The other writers.
LEMMA InvLoad == ASSUME WsInv, Load PROVE WsInv'
<1> USE DEF WsInv, Load
<1>1. rowOf \in Row /\ <<rowOf>> \in Seq(Row) /\ <<rowOf>>[1] = rowOf
  BY DEF RowTyped
<1>2. RowTyped'
  BY <1>1 DEF RowTyped
<1>3. EndsLast'
  BY DEF EndsLast
<1>4. EndingKept'
  BY <1>1 DEF EndingKept
<1>5. TrackerCopied'
  BY <1>1 DEF TrackerCopied
<1> QED  BY <1>2, <1>3, <1>4, <1>5

LEMMA InvSave ==
  ASSUME WsInv, NEW r \in Row, Saved(r), phase = "loop", phase' = phase,
         unreviewed' = unreviewed \/ unreviewed' = {},
         accepted' = accepted, cancelled' = cancelled
  PROVE  WsInv'
<1> USE DEF WsInv, Saved
<1>1. <<>> \in Seq(Row)
  OBVIOUS
<1>2. unreviewed' \subseteq File
  BY DEF RowTyped
<1>3. RowTyped'
  BY <1>1, <1>2 DEF RowTyped
<1>4. EndsLast'
  BY DEF EndsLast
<1>5. EndingKept'
  BY DEF EndingKept, EndsLast
<1>6. TrackerCopied'
  BY DEF TrackerCopied, EndsLast
<1> QED  BY <1>3, <1>4, <1>5, <1>6

LEMMA InvMark == ASSUME WsInv, MarkInterrupted PROVE WsInv'
<1> USE DEF WsInv, MarkInterrupted, Saved
<1>1. <<>> \in Seq(Row) /\ tool[1] \in Row
  BY DEF RowTyped
<1>2. rowOf' \in Row
  BY <1>1, SpreadIsRow DEF Row
<1>3. RowTyped'
  BY <1>1, <1>2 DEF RowTyped
<1>4. EndsLast'
  BY DEF EndsLast
<1>5. EndingKept'
  BY DEF EndingKept, EndsLast
<1>6. TrackerCopied'
  <2>1. phase' = "check" /\ said' = "none"
    BY DEF EndingKept
  <2> QED  BY <2>1 DEF TrackerCopied
<1> QED  BY <1>3, <1>4, <1>5, <1>6

LEMMA InvWriters ==
  ASSUME WsInv, KeepRecord \/ RecordReview \/ (CheckAcceptance /\ phase = "loop")
  PROVE  WsInv'
<1>1. tool # <<>> => tool[1] \in Row
  BY DEF WsInv, RowTyped
<1>2. CASE KeepRecord
  <2>1. PICK r \in {tool[1], Spread(tool[1])} : Saved(r)
    BY <1>2 DEF KeepRecord
  <2>3. r \in Row
    BY <1>1, <1>2, <2>1, SpreadIsRow DEF KeepRecord
  <2>2. /\ Saved(r) /\ phase = "loop" /\ phase' = phase
        /\ unreviewed' = unreviewed \/ unreviewed' = {}
        /\ accepted' = accepted /\ cancelled' = cancelled
    BY <1>2, <2>1 DEF KeepRecord
  <2> QED  BY <2>2, <2>3, InvSave
<1>3. CASE RecordReview
  <2>1. [tool[1] EXCEPT !.review = TRUE] \in Row
    BY <1>1, <1>3 DEF RecordReview, Row
  <2>2. /\ Saved([tool[1] EXCEPT !.review = TRUE]) /\ phase = "loop" /\ phase' = phase
        /\ unreviewed' = unreviewed \/ unreviewed' = {}
        /\ accepted' = accepted /\ cancelled' = cancelled
    BY <1>3 DEF RecordReview
  <2> QED  BY <2>1, <2>2, InvSave
<1>5. CASE CheckAcceptance /\ phase = "loop"
  <2>1. Spread(tool[1]) \in Row
    BY <1>1, <1>5, SpreadIsRow DEF CheckAcceptance
  <2>2. /\ Saved(Spread(tool[1])) /\ phase = "loop" /\ phase' = phase
        /\ unreviewed' = unreviewed \/ unreviewed' = {}
        /\ accepted' = accepted /\ cancelled' = cancelled
    BY <1>5 DEF CheckAcceptance
  <2> QED  BY <2>1, <2>2, InvSave
<1> QED  BY <1>2, <1>3, <1>5

\* The last check: what it found is what the tracker's copy says.
LEMMA InvLastCheck == ASSUME WsInv, CheckAcceptance, phase = "check" PROVE WsInv'
<1> USE DEF WsInv, CheckAcceptance, Saved
<1>1. tool # <<>> /\ tool[1] \in Row /\ phase' = "over" /\ accepted' = Proven(tool[1])
  BY DEF RowTyped
<1>2. Spread(tool[1]) \in Row /\ Spread(tool[1]).status = tool[1].status
  BY <1>1, SpreadIsRow
<1>3. accepted' \in BOOLEAN /\ <<>> \in Seq(Row)
  BY <1>1 DEF Proven, Row
<1>4. RowTyped'
  BY <1>1, <1>2, <1>3 DEF RowTyped
<1>5. EndsLast'
  BY <1>1 DEF EndsLast
<1>6. EndingKept'
  BY <1>1, <1>2 DEF EndingKept
<1>7. TrackerCopied'
  <2> SUFFICES ASSUME fresh PROVE TrackerCopied'
    BY DEF TrackerCopied
  <2>1. said # "none" => tool[1] = mine
    BY <1>1 DEF TrackerCopied
  <2>2. said # "none" /\ accepted' => mine.changed = {}
    BY <1>1, <2>1 DEF Proven, TrackerCopied
  <2> QED  BY <1>1, <2>2 DEF TrackerCopied
<1> QED  BY <1>4, <1>5, <1>6, <1>7

\* A tool's save fails.
LEMMA InvToolThrow == ASSUME WsInv, ToolThrow PROVE WsInv'
<1> USE DEF WsInv, ToolThrow
<1>1. <<>> \in Seq(Row)  OBVIOUS
<1>2. thrown' \in 0..MaxThrown  BY ThrowsTyped
<1>3. RowTyped'
  BY <1>1, <1>2 DEF RowTyped
<1>4. EndsLast'
  BY DEF EndsLast
<1>5. EndingKept' /\ TrackerCopied'
  BY DEF EndingKept, TrackerCopied
<1> QED  BY <1>3, <1>4, <1>5

\* The end of the route fails: fail() is the last in the queue, and the row keeps its ending.
LEMMA InvRouteThrow == ASSUME WsInv, RouteThrow PROVE WsInv'
<1> USE DEF WsInv, RouteThrow
<1>1. End("failed") \in Endings /\ End("failed") \in Item /\ End("failed").file = {} /\ queue \in Seq(Item)
  BY DEF Endings, Item, End, RowTyped
<1>2. /\ queue' \in Seq(Item) /\ Len(queue') = Len(queue) + 1
      /\ \A i \in 1..Len(queue) : queue'[i] = queue[i]
      /\ queue'[Len(queue) + 1] = End("failed")
  BY <1>1, AppendFacts
<1>3. Len(queue) \in Nat /\ <<>> \in Seq(Row)
  BY <1>1
<1>4. thrown' \in 0..MaxThrown  BY ThrowsTyped
<1>5. rowOf' \in Row /\ (said # "none" => rowOf'.status = said)
  <2>1. CASE UNCHANGED rowOf
    BY <2>1 DEF RowTyped, EndingKept
  <2>2. CASE phase = "check" /\ tool # <<>> /\ rowOf' = Spread(tool[1])
    <3>1. tool[1] \in Row  BY <2>2 DEF RowTyped
    <3> QED  BY <2>2, <3>1, SpreadIsRow DEF EndingKept
  <2> QED  BY <2>1, <2>2
<1>6. RowTyped'
  BY <1>2, <1>3, <1>4, <1>5 DEF RowTyped
<1>7. \A i \in 1..Len(queue) : queue[i] \notin Endings
  BY DEF EndsLast
<1>8. \A i \in 1..Len(queue') : queue'[i] \in Endings <=> i = Len(queue')
  BY <1>1, <1>2, <1>3, <1>7
<1>9. EndsLast'
  BY <1>2, <1>3, <1>8 DEF EndsLast
<1>10. said # "none" => queue' = <<End("failed")>>
  <2>1. said # "none" => queue = <<>>  BY DEF EndingKept
  <2> QED  BY <2>1
<1>11. EndingKept'
  BY <1>5, <1>10 DEF EndingKept
<1>12. TrackerCopied'
  <2> SUFFICES ASSUME fresh, NEW g \in unreviewed
               PROVE  g \in mine.changed \/ \E i \in 1..Len(queue') : g \in queue'[i].file
    BY DEF TrackerCopied
  <2> QED  BY <1>2, <1>3 DEF TrackerCopied
<1> QED  BY <1>6, <1>9, <1>11, <1>12

LEMMA InvCrash == ASSUME WsInv, Crash PROVE WsInv'
<1> USE DEF WsInv, Crash
<1>1. <<>> \in Seq(Row) /\ <<>> \in Seq(Item) /\ Len(<<>>) = 0
  OBVIOUS
<1>2. RowTyped'
  BY <1>1 DEF RowTyped
<1>3. EndsLast'
  BY <1>1 DEF EndsLast
<1>4. EndingKept' /\ TrackerCopied'
  BY DEF EndingKept, TrackerCopied
<1> QED  BY <1>2, <1>3, <1>4

LEMMA InvResume == ASSUME WsInv, Resume PROVE WsInv'
<1> USE DEF WsInv, Resume
<1>1. rowOf' \in Row
  BY SpreadIsRow DEF RowTyped, Row
<1>2. RowTyped'
  BY <1>1 DEF RowTyped
<1>3. EndsLast'
  BY DEF EndsLast
<1>4. EndingKept' /\ TrackerCopied'
  BY DEF EndingKept, TrackerCopied
<1> QED  BY <1>2, <1>3, <1>4

LEMMA WsInvStep == WsInv /\ [WsNext]_wsVars => WsInv'
<1> SUFFICES ASSUME WsInv, [WsNext]_wsVars PROVE WsInv'
  OBVIOUS
<1>1. ASSUME NEW e \in Event, LoopEvent(e) PROVE WsInv'
  BY <1>1, InvLoopEvent
<1>2. ASSUME NEW how \in {"completed", "failed", "cancelled"}, EndLoop(how) PROVE WsInv'
  BY <1>2, InvEndLoop
<1>3. CASE FreshRecord
  BY <1>3, InvFreshRecord
<1>4. CASE ResumedLoad \/ ResumedSave \/ ResumedThrow
  BY <1>4, InvResumedLoad, InvResumedSave, InvResumedThrow
<1>5. CASE Load
  BY <1>5, InvLoad
<1>6. CASE KeepRecord \/ RecordReview \/ MarkInterrupted
  BY <1>6, InvWriters, InvMark
<1>7. CASE CheckAcceptance
  BY <1>7, InvWriters, InvLastCheck DEF CheckAcceptance
<1>8. CASE Crash \/ Resume
  BY <1>8, InvCrash, InvResume
<1>10. CASE ToolThrow \/ RouteThrow
  BY <1>10, InvToolThrow, InvRouteThrow
<1>9. CASE UNCHANGED wsVars
  BY <1>9 DEF WsInv, wsVars, RowTyped, EndsLast, EndingKept, TrackerCopied
<1> QED  BY <1>1, <1>2, <1>3, <1>4, <1>5, <1>6, <1>7, <1>8, <1>9, <1>10 DEF WsNext

THEOREM RowInvariant == WsSpec => []WsInv
BY WsInvInit, WsInvStep, PTL DEF WsSpec

-----------------------------------------------------------------------------
\* acceptanceCheck.ok (agent.ts) of a run that was not resumed and whose end was saved: every
\* file that it edited has been reviewed since, whatever other saves were lost.
THEOREM AcceptanceIsReviewed == WsSpec => []AcceptedIsReviewed
<1>1. WsInv => AcceptedIsReviewed
  <2> SUFFICES ASSUME WsInv, Ended, fresh, accepted, said # "none", NEW g \in unreviewed PROVE FALSE
    BY DEF AcceptedIsReviewed
  <2>1. mine.changed = {} /\ queue = <<>> /\ phase # "down"
    BY DEF WsInv, Ended, TrackerCopied, EndingKept
  <2>2. \A i \in 1..Len(queue) : FALSE
    BY <2>1
  <2> QED  BY <2>1, <2>2 DEF WsInv, TrackerCopied
<1> QED  BY <1>1, RowInvariant, PTL

\* Such an acceptance is of runs without edits: the tracker's copy, which has no review,
\* is the row that the last check reads (run-state-tracker.ts, complete).
THEOREM OnlyWithoutEdits == WsSpec => [](Ended /\ fresh /\ accepted /\ said # "none" => mine.changed = {})
<1>1. WsInv => (Ended /\ fresh /\ accepted /\ said # "none" => mine.changed = {})
  BY DEF WsInv, Ended, TrackerCopied
<1> QED  BY <1>1, RowInvariant, PTL

\* What the tracker last saved of a run's end stays in the row, and a row that says nothing of
\* it is of a run in which a step failed (run-state-tracker.ts and resumed-run-state-tracker.ts,
\* complete and fail; agent.ts, the end of a run).
THEOREM EndingIsRecorded == WsSpec => []EndIsRecorded
<1>1. WsInv => EndIsRecorded
  BY DEF WsInv, Ended, EndingKept, EndIsRecorded
<1> QED  BY <1>1, RowInvariant, PTL

-----------------------------------------------------------------------------
\* What waits was queued by an event of the loop, or is the ending; a writer has one row in hand.
Short ==
  /\ events \in 0..MaxEvents
  /\ Len(queue) <= events + 1 /\ (phase # "closing" => Len(queue) <= events)
  /\ Len(held) <= 1 /\ Len(tool) <= 1

LEMMA ShortInit == WsInit => Short
<1>1. Len(<<>>) = 0  OBVIOUS
<1> QED  BY <1>1, WsBoundAssumption DEF WsInit, Short

LEMMA ShortStep == WsInv /\ Short /\ [WsNext]_wsVars => Short'
<1> SUFFICES ASSUME WsInv, Short, [WsNext]_wsVars PROVE Short'
  OBVIOUS
<1>0. /\ queue \in Seq(Item) /\ Len(queue) \in Nat /\ Len(<<>>) = 0 /\ \A r : Len(<<r>>) = 1
      /\ MaxEvents \in Nat
  BY WsBoundAssumption DEF WsInv, RowTyped
<1> USE <1>0
<1>1. ASSUME NEW e \in Event, LoopEvent(e) PROVE Short'
  <2>1. e \in Item  BY DEF Item
  <2>2. Len(queue') = Len(queue) + 1  BY <1>1, <2>1, AppendFacts DEF LoopEvent
  <2> QED  BY <1>1, <2>2 DEF LoopEvent, Short
<1>2. ASSUME NEW how \in {"completed", "failed", "cancelled"}, EndLoop(how) PROVE Short'
  <2>1. CASE how = "cancelled"  BY <1>2, <2>1 DEF EndLoop, Short
  <2>2. CASE how # "cancelled"
    <3>1. End(how) \in Item  BY <2>2 DEF Item, Endings
    <3>2. Len(queue') = Len(queue) + 1 /\ phase' = "closing"
      BY <1>2, <2>2, <3>1, AppendFacts DEF EndLoop
    <3> QED  BY <1>2, <3>2 DEF EndLoop, Short
  <2> QED  BY <2>1, <2>2
<1>10. CASE ResumedThrow
  <2>1. Len(queue) = 1 /\ Len(<<End("failed")>>) = 1  BY <1>10 DEF ResumedThrow
  <2>2. events' = events /\ Len(tool') <= 1 /\ Len(held') <= 1 /\ events \in 0..MaxEvents
    BY <1>10 DEF ResumedThrow, Short
  <2>3. (phase' = "closing" /\ Len(queue') = 1) \/ Len(queue') = 0
    BY <1>10, <2>1 DEF ResumedThrow
  <2>4. 0 <= events /\ 1 <= events + 1 /\ 0 <= events + 1
    BY <2>2
  <2>5. Len(queue') <= events + 1 /\ (phase' # "closing" => Len(queue') <= events)
    BY <2>3, <2>4, Zenon
  <2> QED  BY <2>2, <2>5 DEF Short
<1>11. CASE ToolThrow  BY <1>11 DEF ToolThrow, Short
<1>12. CASE RouteThrow
  <2>1. End("failed") \in Item  BY DEF Item, Endings
  <2>2. Len(queue') = Len(queue) + 1  BY <1>12, <2>1, AppendFacts DEF RouteThrow
  <2> QED  BY <1>12, <2>2 DEF RouteThrow, Short
<1>3. CASE FreshRecord \/ ResumedSave
  <2>1. queue # <<>>  BY <1>3 DEF FreshRecord, ResumedSave, WsInv, EndsLast
  <2>2. Len(queue') = Len(queue) - 1  BY <1>3, <2>1, TailFacts DEF FreshRecord, ResumedSave
  <2>3. UNCHANGED <<events, tool>> /\ (held' = held \/ held' = <<>>)
    BY <1>3 DEF FreshRecord, ResumedSave
  <2> QED  BY <2>2, <2>3 DEF Short
<1>4. CASE ResumedLoad  BY <1>4 DEF ResumedLoad, Short
<1>5. CASE Load  BY <1>5 DEF Load, Short
<1>6. CASE KeepRecord \/ RecordReview \/ CheckAcceptance \/ MarkInterrupted
  BY <1>6 DEF KeepRecord, RecordReview, CheckAcceptance, MarkInterrupted, Saved, Short
<1>7. CASE Crash  BY <1>7 DEF Crash, Short
<1>8. CASE Resume  BY <1>8 DEF Resume, Short
<1>9. CASE UNCHANGED wsVars  BY <1>9 DEF wsVars, Short
<1> QED  BY <1>1, <1>2, <1>3, <1>4, <1>5, <1>6, <1>7, <1>8, <1>9, <1>10, <1>11, <1>12 DEF WsNext

\* The row, the tracker's copy and the queues stay what they are: nothing but the loop's events
\* and one ending waits to be recorded (run-state-tracker.ts, resumed-run-state-tracker.ts).
THEOREM WsTypeCorrect == WsSpec => []WsTypeOK
<1>1. WsInv /\ Short => WsTypeOK
  <2> SUFFICES ASSUME WsInv, Short PROVE WsTypeOK
    OBVIOUS
  <2>1. \A i \in 1..Len(queue) : queue[i] \in Item  BY DEF WsInv, RowTyped
  <2>2. \A i \in 1..Len(held) : held[i] \in Row  BY DEF WsInv, RowTyped
  <2>3. Len(queue) <= MaxEvents + 1  BY WsBoundAssumption DEF WsInv, RowTyped, Short
  <2> QED  BY <2>1, <2>2, <2>3 DEF WsInv, RowTyped, Short, WsTypeOK, Item, Endings
<1> QED  BY <1>1, ShortInit, ShortStep, RowInvariant, PTL DEF WsSpec
=============================================================================
