--------------------- MODULE MutationTransactionProofs ---------------------
(***************************************************************************)
(* What holds of every transaction, for any files, contents and gates, any *)
(* spellings of the paths, and any number of mutations, edits and failures:*)
(* rollback has what it needs for every file that was copied once,         *)
(* evidence is about the diff it was given for, and, without the tool that *)
(* copies files, the executor implements RecoveryPoint.                    *)
(***************************************************************************)
EXTENDS MutationTransaction, TLAPS

\* The parts of TxTypeOK, each with the variables that one kind of step changes.
Files     == work \in [Path -> Value] /\ backup \in [Path -> Value]
TxTyped   == /\ tx \in [status : {"none", "active", "rollback_recommended", "rollback_failed"},
                        pre : Partial, post : Partial, failures : 0..2]
             /\ DOMAIN tx.pre = DOMAIN tx.post /\ (tx.status = "none" => tx = NoTx)
PlanTyped == /\ plan \in [fp : Partial, gates : SUBSET Gate, passed : SUBSET Gate]
             /\ plan.passed \subseteq plan.gates
StepTyped == pc \in {"idle", "before", "mutate", "after", "verify", "restore", "committed", "rolledBack"}
CallTyped == call \in [own : SUBSET Path, paths : SUBSET Path, snap : Partial, before : Partial, ok : BOOLEAN]
SetsTyped == todo \subseteq Path /\ gated \subseteq Path
PastTyped == /\ touched \subseteq Path /\ respelled \subseteq Path /\ ran \in [Gate -> [Path -> Value]]
             /\ astray \subseteq Gate /\ blind \in BOOLEAN
UsedTyped == calls \in 0..MaxCalls /\ edits \in 0..MaxEdits /\ faults \in 0..MaxFaults

LEMMA TypeParts ==
  TxTypeOK <=> /\ Files /\ TxTyped /\ PlanTyped /\ StepTyped /\ CallTyped /\ SetsTyped
               /\ PastTyped /\ UsedTyped
BY DEF TxTypeOK, Files, TxTyped, PlanTyped, StepTyped, CallTyped, SetsTyped, PastTyped, UsedTyped

LEMMA TypePartsNext ==
  TxTypeOK' <=> (/\ Files /\ TxTyped /\ PlanTyped /\ StepTyped /\ CallTyped /\ SetsTyped
                 /\ PastTyped /\ UsedTyped)'
BY DEF TxTypeOK, Files, TxTyped, PlanTyped, StepTyped, CallTyped, SetsTyped, PastTyped, UsedTyped

-----------------------------------------------------------------------------
(* Functions on some of the paths. *)

LEMMA PartialFunction ==
  ASSUME NEW f
  PROVE  f \in Partial <=> /\ f = [p \in DOMAIN f |-> f[p]] /\ DOMAIN f \subseteq Path
                           /\ \A p \in DOMAIN f : f[p] \in Value
<1>1. ASSUME f \in Partial
      PROVE  f = [p \in DOMAIN f |-> f[p]] /\ DOMAIN f \subseteq Path /\ \A p \in DOMAIN f : f[p] \in Value
  <2>1. PICK S \in SUBSET Path : f \in [S -> Value]  BY <1>1 DEF Partial
  <2> QED  BY <2>1
<1>2. ASSUME f = [p \in DOMAIN f |-> f[p]], DOMAIN f \subseteq Path, \A p \in DOMAIN f : f[p] \in Value
      PROVE  f \in Partial
  <2>1. f \in [DOMAIN f -> Value]  BY <1>2
  <2> QED  BY <2>1, <1>2 DEF Partial
<1> QED  BY <1>1, <1>2

LEMMA NothingIsPartial == Nothing \in Partial /\ DOMAIN Nothing = {}
<1>1. Nothing \in [{} -> Value]  BY DEF Nothing
<1> QED  BY <1>1 DEF Partial

LEMMA OverIsPartial ==
  ASSUME NEW f \in Partial, NEW g \in Partial
  PROVE  /\ Over(f, g) \in Partial /\ DOMAIN Over(f, g) = DOMAIN f \cup DOMAIN g
         /\ \A p \in DOMAIN f : Over(f, g)[p] = f[p]
         /\ \A p \in DOMAIN g \ DOMAIN f : Over(f, g)[p] = g[p]
<1>1. /\ DOMAIN Over(f, g) = DOMAIN f \cup DOMAIN g
      /\ \A p \in DOMAIN f : Over(f, g)[p] = f[p]
      /\ \A p \in DOMAIN g \ DOMAIN f : Over(f, g)[p] = g[p]
  BY DEF Over
<1>2. Over(f, g) = [p \in DOMAIN Over(f, g) |-> Over(f, g)[p]]  BY DEF Over
<1>3. DOMAIN f \cup DOMAIN g \subseteq Path  BY PartialFunction
<1>4. \A p \in DOMAIN f \cup DOMAIN g : Over(f, g)[p] \in Value
  <2>1. \A p \in DOMAIN f : f[p] \in Value  BY PartialFunction
  <2>2. \A p \in DOMAIN g : g[p] \in Value  BY PartialFunction
  <2> QED  BY <1>1, <2>1, <2>2
<1> QED  BY <1>1, <1>2, <1>3, <1>4, PartialFunction

\* What some files hold.
LEMMA AtIsPartial ==
  ASSUME Files, NEW P \in SUBSET Path
  PROVE  At(P) \in Partial /\ DOMAIN At(P) = P /\ \A p \in P : At(P)[p] = work[p]
<1>1. At(P) \in [P -> Value]  BY DEF At, Files
<1> QED  BY <1>1 DEF Partial, At

\* What a mutation copies: the files of some paths, and what the directory holds of the others
\* is what it held, or nothing in a new one.
LEMMA BeginCopies ==
  ASSUME Files, NEW t \in Targets, Begin(t)
  PROVE  \E done \in SUBSET Path :
           /\ backup' \in [Path -> Value]
           /\ \A p \in done : work[p] # Absent => backup'[p] = work[p]
           /\ Active => \A p \in Path \ done : backup'[p] = backup[p]
           /\ respelled' = Replaced \cup (done \cap DOMAIN Existing.pre)
           /\ \/ /\ pc' = "before" /\ UNCHANGED faults
                 /\ call' = [NoCall EXCEPT !.own = t.own, !.paths = t.own \cup t.other, !.snap = At(done)]
              \/ Fault /\ UNCHANGED <<pc, call>>
<1> DEFINE new == (t.own \ DOMAIN Existing.pre) \cup t.other
           old == IF Active THEN backup ELSE Empty
<1>1. t.own \in SUBSET Path /\ t.other \in SUBSET Path /\ new \in SUBSET Path  BY LimitAssumption
<1>2. PICK done \in SUBSET new :
        /\ backup' = Over(At({p \in done : work[p] # Absent}), old)
        /\ respelled' = Replaced \cup (done \cap DOMAIN Existing.pre)
        /\ \/ /\ done = new /\ pc' = "before"
              /\ call' = [NoCall EXCEPT !.own = t.own, !.paths = t.own \cup t.other, !.snap = At(new)]
              /\ UNCHANGED faults
           \/ Fault /\ UNCHANGED <<pc, call>>
  BY DEF Begin
<1> DEFINE there == {p \in done : work[p] # Absent}
<1>3. done \in SUBSET Path /\ there \in SUBSET Path  BY <1>1
<1>4. At(there) \in Partial /\ DOMAIN At(there) = there /\ \A p \in there : At(there)[p] = work[p]
  BY <1>3, AtIsPartial
<1>5. old \in Partial /\ DOMAIN old = Path
  <2>1. old \in [Path -> Value]  BY DEF Files, Empty, Value
  <2> QED  BY <2>1 DEF Partial
<1>6. Active => old = backup  OBVIOUS
<1>7. backup' = Over(At(there), old)  BY <1>2
<1> HIDE DEF there, old
<1>8. /\ backup' \in Partial /\ DOMAIN backup' = Path
      /\ \A p \in there : backup'[p] = work[p]
      /\ \A p \in Path \ there : backup'[p] = old[p]
  <2>1. /\ Over(At(there), old) \in Partial
        /\ DOMAIN Over(At(there), old) = DOMAIN At(there) \cup DOMAIN old
        /\ \A p \in DOMAIN At(there) : Over(At(there), old)[p] = At(there)[p]
        /\ \A p \in DOMAIN old \ DOMAIN At(there) : Over(At(there), old)[p] = old[p]
    BY <1>4, <1>5, OverIsPartial
  <2> QED  BY <2>1, <1>3, <1>4, <1>5, <1>7
<1>9. backup' \in [Path -> Value]  BY <1>8, PartialFunction
<1>10. \A p \in done : work[p] # Absent => backup'[p] = work[p]  BY <1>8 DEF there
<1>11. Active => \A p \in Path \ done : backup'[p] = backup[p]  BY <1>6, <1>8 DEF there
<1> QED  BY <1>2, <1>3, <1>9, <1>10, <1>11

LEMMA NoTxTyped == NoTx \in [status : {"none", "active", "rollback_recommended", "rollback_failed"},
                             pre : Partial, post : Partial, failures : 0..2]
                   /\ DOMAIN NoTx.pre = DOMAIN NoTx.post
BY NothingIsPartial DEF NoTx

LEMMA NoCallTyped == NoCall \in [own : SUBSET Path, paths : SUBSET Path, snap : Partial, before : Partial, ok : BOOLEAN]
                     /\ NoCall.snap = Nothing
BY NothingIsPartial DEF NoCall

LEMMA ExistingTyped ==
  ASSUME TxTyped
  PROVE  Existing \in [status : {"none", "active", "rollback_recommended", "rollback_failed"},
                       pre : Partial, post : Partial, failures : 0..2]
         /\ DOMAIN Existing.pre = DOMAIN Existing.post
BY NoTxTyped DEF TxTyped, Existing

LEMMA ShownTyped ==
  ASSUME NEW w \in [Path -> Value]  PROVE Shown(w) \in Partial
<1>1. \A p \in Path : (IF p \in Tracked \/ w[p] = Absent THEN w[p] ELSE CHOOSE c \in Content : TRUE) \in Value
  <2> SUFFICES ASSUME NEW p \in Path, w[p] # Absent
               PROVE  (CHOOSE c \in Content : TRUE) \in Content
    BY DEF Value
  <2>1. w[p] \in Content  BY DEF Value
  <2> QED  BY <2>1
<1>2. Shown(w) \in [Path -> Value]  BY <1>1 DEF Shown
<1> QED  BY <1>2 DEF Partial

LEMMA NeededTyped ==
  ASSUME NEW w  PROVE Needed(w) \subseteq Gate
BY WorkAssumption DEF Needed

LEMMA MakePlanTyped ==
  ASSUME PlanTyped, NEW w \in [Path -> Value], plan' = MakePlan(w)
  PROVE  PlanTyped'
BY ShownTyped, NeededTyped DEF PlanTyped, MakePlan

LEMMA RebuildTyped ==
  ASSUME PlanTyped, UsedTyped, NEW w \in [Path -> Value],
         Rebuild(w) \/ NoRebuild
  PROVE  PlanTyped' /\ blind' \in BOOLEAN /\ faults' \in 0..MaxFaults
<1>1. PlanTyped'
  BY MakePlanTyped DEF Rebuild, NoRebuild, PlanTyped
<1>2. blind' \in BOOLEAN  BY DEF Rebuild, NoRebuild
<1>3. faults' \in 0..MaxFaults
  BY LimitAssumption DEF Rebuild, NoRebuild, Fault, UsedTyped
<1> QED  BY <1>1, <1>2, <1>3

LEMMA FaultTyped ==
  ASSUME UsedTyped, Fault \/ UNCHANGED faults  PROVE faults' \in 0..MaxFaults
BY LimitAssumption DEF Fault, UsedTyped

LEMMA TypeInit == TxInit => TxTypeOK
<1> SUFFICES ASSUME TxInit PROVE TxTypeOK
  OBVIOUS
<1>1. Files /\ StepTyped /\ SetsTyped
  BY WorkAssumption DEF TxInit, Files, StepTyped, SetsTyped, Empty, Value
<1>2. TxTyped  BY NoTxTyped DEF TxInit, TxTyped
<1>3. PlanTyped  BY NothingIsPartial DEF TxInit, PlanTyped, NoPlan
<1>4. CallTyped  BY NoCallTyped DEF TxInit, CallTyped
<1>5. PastTyped  BY WorkAssumption DEF TxInit, PastTyped
<1>6. UsedTyped  BY LimitAssumption DEF TxInit, UsedTyped
<1> QED  BY <1>1, <1>2, <1>3, <1>4, <1>5, <1>6, TypeParts

LEMMA TypeStep == TxTypeOK /\ [TxNext]_txVars => TxTypeOK'
<1> SUFFICES ASSUME TxTypeOK, [TxNext]_txVars PROVE TxTypeOK'
  OBVIOUS
<1> USE TypeParts, TypePartsNext
<1> DEFINE Parts == /\ Files /\ TxTyped /\ PlanTyped /\ StepTyped /\ CallTyped /\ SetsTyped
                    /\ PastTyped /\ UsedTyped
<1>0. Parts  OBVIOUS
<1>1. ASSUME NEW t \in Targets, Begin(t)  PROVE TxTypeOK'
  <2>1. PICK done \in SUBSET Path :
          /\ backup' \in [Path -> Value]
          /\ respelled' = Replaced \cup (done \cap DOMAIN Existing.pre)
          /\ \/ /\ pc' = "before" /\ UNCHANGED faults
                /\ call' = [NoCall EXCEPT !.own = t.own, !.paths = t.own \cup t.other, !.snap = At(done)]
             \/ Fault /\ UNCHANGED <<pc, call>>
    BY <1>0, <1>1, BeginCopies
  <2>2. Files'  BY <1>0, <1>1, <2>1 DEF Begin, Files
  <2>3. TxTyped' /\ PlanTyped'  BY <1>0, <1>1 DEF Begin, TxTyped, PlanTyped, row, NoTx
  <2>4. CallTyped'
    <3>1. t.own \in SUBSET Path /\ t.own \cup t.other \in SUBSET Path  BY LimitAssumption
    <3>2. At(done) \in Partial  BY <1>0, AtIsPartial
    <3> QED  BY <1>0, <2>1, <3>1, <3>2, NoCallTyped DEF CallTyped
  <2>5. StepTyped' /\ SetsTyped'
    BY <1>0, <1>1, <2>1 DEF Begin, StepTyped, SetsTyped
  <2>6. PastTyped'
    BY <1>0, <1>1, <2>1 DEF Begin, PastTyped, Replaced
  <2>7. UsedTyped'
    <3>1. faults' \in 0..MaxFaults  BY <1>0, <2>1, FaultTyped
    <3> QED  BY <3>1, <1>0, <1>1, LimitAssumption DEF Begin, UsedTyped
  <2> QED  BY <2>2, <2>3, <2>4, <2>5, <2>6, <2>7
<1>2. ASSUME FingerprintBefore  PROVE TxTypeOK'
  <2>1. CallTyped'
    BY <1>0, <1>2, AtIsPartial, NoCallTyped DEF FingerprintBefore, CallTyped, Return
  <2>2. Files' /\ TxTyped' /\ PlanTyped' /\ StepTyped' /\ SetsTyped' /\ PastTyped'
    BY <1>0, <1>2 DEF FingerprintBefore, Return, Files, TxTyped, PlanTyped, StepTyped, SetsTyped, PastTyped,
       row, ghosts, NoTx
  <2>3. UsedTyped'
    BY <1>0, <1>2, FaultTyped DEF FingerprintBefore, UsedTyped
  <2> QED  BY <2>1, <2>2, <2>3
<1>3. ASSUME Mutate  PROVE TxTypeOK'
  <2>1. work' \in [Path -> Value]  BY <1>0, <1>3 DEF Mutate, Written, Files
  <2>2. Files' /\ TxTyped' /\ StepTyped' /\ SetsTyped'
    BY <1>0, <1>3, <2>1 DEF Mutate, Files, TxTyped, StepTyped, SetsTyped, NoTx
  <2>3. CallTyped'  BY <1>0, <1>3 DEF Mutate, CallTyped
  <2>4. PlanTyped' /\ blind' \in BOOLEAN /\ faults' \in 0..MaxFaults
    <3>1. CASE Rebuild(work') \/ NoRebuild  BY <3>1, <2>1, <1>0, RebuildTyped
    <3>2. CASE UNCHANGED <<plan, faults>> /\ blind' = (blind \/ work' # work)
      BY <3>2, <1>0 DEF PlanTyped, UsedTyped
    <3>3. CASE UNCHANGED <<plan, blind, faults>>
      BY <3>3, <1>0 DEF PlanTyped, UsedTyped, PastTyped
    <3> QED  BY <1>3, <3>1, <3>2, <3>3 DEF Mutate
  <2>5. PastTyped' /\ UsedTyped'
    BY <1>0, <1>3, <2>4 DEF Mutate, PastTyped, UsedTyped
  <2> QED  BY <2>2, <2>3, <2>4, <2>5
<1>4. ASSUME FingerprintAfter  PROVE TxTypeOK'
  <2>1. TxTyped'
    <3>1. ASSUME NEW unread \in SUBSET (DOMAIN Existing.pre \ call.paths), tx' = Recorded(unread)
          PROVE  TxTyped'
      <4> DEFINE D == DOMAIN Existing.pre \cup DOMAIN call.snap
                 post == [p \in D |-> IF p \in unread THEN Existing.post[p] ELSE work[p]]
      <4>1. /\ Existing.pre \in Partial /\ Existing.post \in Partial
            /\ DOMAIN Existing.pre = DOMAIN Existing.post /\ Existing.failures \in 0..2
        BY <1>0, ExistingTyped
      <4>2. call.snap \in Partial  BY <1>0 DEF CallTyped
      <4>3. D \subseteq Path  BY <4>1, <4>2, PartialFunction
      <4>4. \A p \in D : post[p] \in Value
        <5> TAKE p \in D
        <5>1. CASE p \in unread  BY <5>1, <4>1, PartialFunction
        <5>2. CASE p \notin unread  BY <5>2, <4>3, <1>0 DEF Files
        <5> QED  BY <5>1, <5>2
      <4>5. post \in [D -> Value]  BY <4>4
      <4>6. post \in Partial /\ DOMAIN post = D  BY <4>5, <4>3 DEF Partial
      <4>7. Over(Existing.pre, call.snap) \in Partial /\ DOMAIN Over(Existing.pre, call.snap) = D
        BY <4>1, <4>2, OverIsPartial
      <4>8. tx' = [status |-> "active", failures |-> Existing.failures,
                   pre |-> Over(Existing.pre, call.snap), post |-> post]
        BY <3>1 DEF Recorded
      <4> HIDE DEF D, post
      <4> QED  BY <4>1, <4>6, <4>7, <4>8 DEF TxTyped
    <3>2. CASE UNCHANGED tx  BY <3>2, <1>0 DEF TxTyped, NoTx
    <3> QED  BY <1>4, <3>1, <3>2 DEF FingerprintAfter
  <2>2. Files'
    <3>1. Empty \in [Path -> Value]  BY DEF Empty, Value
    <3>2. backup' \in {Empty, backup}  BY <1>4 DEF FingerprintAfter, DirectoryIfUnchanged
    <3> QED  BY <3>1, <3>2, <1>0, <1>4 DEF FingerprintAfter, Files
  <2>3. CallTyped'  BY <1>0, <1>4, NoCallTyped DEF FingerprintAfter, CallTyped, Return
  <2>4. PlanTyped' /\ StepTyped' /\ SetsTyped' /\ PastTyped'
    BY <1>0, <1>4 DEF FingerprintAfter, Return, PlanTyped, StepTyped, SetsTyped, PastTyped, ghosts
  <2>5. UsedTyped'
    <3>1. Fault \/ UNCHANGED faults  BY <1>4 DEF FingerprintAfter
    <3> QED  BY <3>1, <1>0, <1>4, FaultTyped DEF FingerprintAfter, UsedTyped
  <2> QED  BY <2>1, <2>2, <2>3, <2>4, <2>5
<1>5. ASSUME PlanTool  PROVE TxTypeOK'
  <2>1. PlanTyped' /\ blind' \in BOOLEAN /\ faults' \in 0..MaxFaults
    BY <1>0, <1>5, RebuildTyped DEF PlanTool, Files
  <2>2. Files' /\ TxTyped' /\ StepTyped' /\ CallTyped' /\ SetsTyped' /\ PastTyped' /\ UsedTyped'
    BY <1>0, <1>5, <2>1 DEF PlanTool, mem, Files, TxTyped, StepTyped, CallTyped, SetsTyped, PastTyped,
       UsedTyped, NoTx
  <2> QED  BY <2>1, <2>2
<1>6. ASSUME NEW g \in Gate, NEW passes \in BOOLEAN, NEW names \in BOOLEAN, NEW fast \in BOOLEAN,
             Validate(g, passes, names, fast)
      PROVE  TxTypeOK'
  <2> DEFINE failures == IF Active /\ ~passes /\ names THEN tx.failures + 1 ELSE tx.failures
  <2>1. failures \in 0..2 /\ (failures # tx.failures => Active /\ names)
    BY <1>0, <1>6 DEF Validate, TxTyped
  <2>2. TxTyped'
    <3>1. CASE failures = tx.failures
      BY <3>1, <1>0, <1>6 DEF Validate, TxTyped, NoTx
    <3>2. CASE failures # tx.failures
      <4>1. tx' = [tx EXCEPT !.failures = failures, !.status = "rollback_recommended"]
        BY <3>2, <1>6 DEF Validate
      <4> HIDE DEF failures
      <4> QED  BY <4>1, <2>1, <1>0 DEF TxTyped
    <3> QED  BY <3>1, <3>2
  <2>3. PlanTyped'  BY <1>0, <1>6 DEF Validate, PlanTyped
  <2>4. ran' \in [Gate -> [Path -> Value]] /\ astray' \subseteq Gate
    BY <1>0, <1>6, WorkAssumption DEF Validate, PastTyped, Files
  <2>5. Files' /\ StepTyped' /\ CallTyped' /\ SetsTyped' /\ PastTyped' /\ UsedTyped'
    BY <1>0, <1>6, <2>4 DEF Validate, used, Files, StepTyped, CallTyped, SetsTyped, PastTyped, UsedTyped
  <2> QED  BY <2>2, <2>3, <2>5
<1>7. ASSUME Commit \/ AskRollback \/ RolledBack  PROVE TxTypeOK'
  <2>1. TxTyped'  BY <1>0, <1>7, NoTxTyped DEF Commit, AskRollback, RolledBack, row, TxTyped, NoTx
  <2>2. Files' /\ PlanTyped' /\ StepTyped' /\ CallTyped' /\ SetsTyped' /\ PastTyped' /\ UsedTyped'
    BY <1>0, <1>7 DEF Commit, AskRollback, RolledBack, row, used, ghosts, Files, PlanTyped, StepTyped,
       CallTyped, SetsTyped, PastTyped, UsedTyped
  <2> QED  BY <2>1, <2>2
<1>8. ASSUME Verify  PROVE TxTypeOK'
  <2>1. TxTyped'  BY <1>0, <1>8 DEF Verify, GiveUp, TxTyped, NoTx
  <2>2. SetsTyped'
    <3>1. DOMAIN tx.pre \subseteq Path  BY <1>0, PartialFunction DEF TxTyped
    <3> QED  BY <3>1, <1>0, <1>8 DEF Verify, SetsTyped
  <2>3. faults' \in 0..MaxFaults
    <3>1. Fault \/ UNCHANGED faults  BY <1>8 DEF Verify
    <3> QED  BY <3>1, <1>0, FaultTyped
  <2>4. Files' /\ PlanTyped' /\ StepTyped' /\ CallTyped' /\ PastTyped' /\ UsedTyped'
    BY <1>0, <1>8, <2>3 DEF Verify, GiveUp, Files, PlanTyped, StepTyped, CallTyped, PastTyped, UsedTyped
  <2> QED  BY <2>1, <2>2, <2>4
<1>9. ASSUME NEW p \in Path, Restore(p)  PROVE TxTypeOK'
  <2>1. TxTyped'
    <3>1. CASE GiveUp  BY <3>1, <1>0 DEF GiveUp, TxTyped, NoTx
    <3>2. CASE UNCHANGED tx  BY <3>2, <1>0 DEF TxTyped, NoTx
    <3> QED  BY <1>9, <3>1, <3>2 DEF Restore, CopyTool, Shell
  <2>2. work' \in [Path -> Value]
    <3>1. Absent \in Value /\ backup[p] \in Value  BY <1>0 DEF Files, Value
    <3>2. \E v \in Value : work' = work \/ work' = [work EXCEPT ![p] = v]
      BY <3>1, <1>9 DEF Restore, CopyTool, Shell
    <3> QED  BY <3>2, <1>0 DEF Files
  <2>3. SetsTyped'
    <3>1. todo' \subseteq todo /\ gated' \subseteq gated \cup {p}
      BY <1>9 DEF Restore, CopyTool, Shell, GiveUp
    <3> QED  BY <3>1, <1>0 DEF SetsTyped
  <2>4. StepTyped'
    <3>1. pc' \in {pc, "idle"}  BY <1>9 DEF Restore, CopyTool, Shell, GiveUp
    <3> QED  BY <3>1, <1>0 DEF StepTyped
  <2>5. faults' \in 0..MaxFaults
    <3>1. Fault \/ UNCHANGED faults  BY <1>9 DEF Restore
    <3> QED  BY <3>1, <1>0, FaultTyped
  <2>6. Files' /\ PlanTyped' /\ CallTyped' /\ PastTyped' /\ UsedTyped'
    BY <1>0, <1>9, <2>2, <2>5 DEF Restore, Files, PlanTyped, CallTyped, PastTyped, UsedTyped
  <2> QED  BY <2>1, <2>3, <2>4, <2>6
<1>10. ASSUME CleanUp  PROVE TxTypeOK'
  <2>1. PlanTyped' /\ blind' \in BOOLEAN /\ faults' \in 0..MaxFaults
    <3>1. CASE Rebuild(work) \/ NoRebuild  BY <3>1, <1>0, RebuildTyped DEF Files
    <3>2. CASE UNCHANGED <<plan, blind, faults>>  BY <3>2, <1>0 DEF PlanTyped, PastTyped, UsedTyped
    <3> QED  BY <1>10, <3>1, <3>2 DEF CleanUp
  <2>2. backup' \in [Path -> Value]
    <3>1. Empty \in [Path -> Value]  BY DEF Empty, Value
    <3> QED  BY <3>1, <1>0, <1>10 DEF CleanUp, Files
  <2>3. Files' /\ TxTyped' /\ StepTyped' /\ CallTyped' /\ SetsTyped' /\ PastTyped' /\ UsedTyped'
    BY <1>0, <1>10, <2>1, <2>2 DEF CleanUp, Files, TxTyped, StepTyped, CallTyped, SetsTyped, PastTyped,
       UsedTyped, NoTx
  <2> QED  BY <2>1, <2>3
<1>11. ASSUME Interrupt  PROVE TxTypeOK'
  <2>1. work' \in [Path -> Value]  BY <1>0, <1>11 DEF Interrupt, Written, Files
  <2>2. CallTyped'  BY <1>0, <1>11, NoCallTyped DEF Interrupt, Return, CallTyped
  <2>3. faults' \in 0..MaxFaults  BY <1>0, <1>11, FaultTyped DEF Interrupt
  <2>4. Files' /\ TxTyped' /\ PlanTyped' /\ StepTyped' /\ SetsTyped' /\ PastTyped' /\ UsedTyped'
    BY <1>0, <1>11, <2>1, <2>3 DEF Interrupt, Return, row, Files, TxTyped, PlanTyped, StepTyped, SetsTyped,
       PastTyped, UsedTyped, NoTx
  <2> QED  BY <2>2, <2>4
<1>12. ASSUME NEW p \in Path, NEW v \in Value, UserEdit(p, v)  PROVE TxTypeOK'
  <2>1. Files' /\ PastTyped'  BY <1>0, <1>12 DEF UserEdit, Files, PastTyped
  <2>2. UsedTyped'  BY <1>0, <1>12, LimitAssumption DEF UserEdit, UsedTyped
  <2>3. TxTyped' /\ PlanTyped' /\ StepTyped' /\ CallTyped' /\ SetsTyped'
    BY <1>0, <1>12 DEF UserEdit, row, mem, TxTyped, PlanTyped, StepTyped, CallTyped, SetsTyped, NoTx
  <2> QED  BY <2>1, <2>2, <2>3
<1>13. CASE UNCHANGED txVars
  BY <1>0, <1>13 DEF txVars, row, mem, used, ghosts, Files, TxTyped, PlanTyped, StepTyped, CallTyped,
     SetsTyped, PastTyped, UsedTyped, NoTx
<1> QED
  BY <1>1, <1>2, <1>3, <1>4, <1>5, <1>6, <1>7, <1>8, <1>9, <1>10, <1>11, <1>12, <1>13 DEF TxNext

-----------------------------------------------------------------------------
(* Backups.                                                                *)

\* What is being done agrees with the transaction.
Doing ==
  /\ pc \in {"verify", "restore"} => Active
  /\ pc \in {"committed", "rolledBack"} => ~Active
  /\ pc \notin {"before", "mutate", "after"} => call.snap = Nothing
  /\ pc = "restore" => todo \subseteq DOMAIN tx.pre
  /\ pc \in {"before", "mutate", "after"} /\ ~Active => respelled = {}

\* What a call copied is in the directory.
Copied == \A p \in DOMAIN call.snap : call.snap[p] # Absent => backup[p] = call.snap[p]

Recoverable == Doing /\ Copied /\ RecoverableUnlessRespelled

LEMMA RecoverableInit == TxInit => Recoverable
BY NothingIsPartial, NoCallTyped
DEF TxInit, Recoverable, Doing, Copied, RecoverableUnlessRespelled, Active, NoTx

\* Steps that leave the transaction, the call and the directory alone.
LEMMA RecoverableKept ==
  ASSUME Recoverable, UNCHANGED <<tx, backup, respelled>>, call'.snap = call.snap \/ call'.snap = Nothing,
         pc' \in {"verify", "restore"} => Active,
         pc' \in {"committed", "rolledBack"} => pc' = pc,
         pc' \notin {"before", "mutate", "after"} => call'.snap = Nothing,
         pc' = "restore" => todo' \subseteq DOMAIN tx.pre,
         pc' \in {"before", "mutate", "after"} => pc \in {"before", "mutate", "after"}
  PROVE  Recoverable'
<1>1. Copied'
  <2>1. CASE call'.snap = call.snap  BY <2>1 DEF Recoverable, Copied
  <2>2. CASE call'.snap = Nothing  BY <2>2, NothingIsPartial DEF Copied
  <2> QED  BY <2>1, <2>2
<1>2. RecoverableUnlessRespelled'  BY DEF Recoverable, RecoverableUnlessRespelled, Active
<1>3. Doing'  BY DEF Recoverable, Doing, Active
<1> QED  BY <1>1, <1>2, <1>3 DEF Recoverable

LEMMA RecoverableStep == TxTypeOK /\ Recoverable /\ [TxNext]_txVars => Recoverable'
<1> SUFFICES ASSUME TxTypeOK, Recoverable, [TxNext]_txVars PROVE Recoverable'
  OBVIOUS
<1>0. Files /\ TxTyped /\ CallTyped /\ StepTyped  BY TypeParts
<1>1. ASSUME NEW t \in Targets, Begin(t)  PROVE Recoverable'
  <2>1. UNCHANGED <<work, tx>> /\ pc = "idle"  BY <1>1 DEF Begin, row
  <2>2. PICK done \in SUBSET Path :
          /\ \A p \in done : work[p] # Absent => backup'[p] = work[p]
          /\ Active => \A p \in Path \ done : backup'[p] = backup[p]
          /\ respelled' = Replaced \cup (done \cap DOMAIN Existing.pre)
          /\ \/ /\ pc' = "before"
                /\ call' = [NoCall EXCEPT !.own = t.own, !.paths = t.own \cup t.other, !.snap = At(done)]
             \/ UNCHANGED <<pc, call>>
    BY <1>0, <1>1, BeginCopies
  <2>3. (pc' = "before" /\ call'.snap = At(done)) \/ (pc' = "idle" /\ call'.snap = Nothing)
    BY <2>1, <2>2 DEF NoCall, Recoverable, Doing
  <2>4. Copied'
    <3>1. DOMAIN At(done) = done /\ \A p \in done : At(done)[p] = work[p]  BY <1>0, AtIsPartial
    <3> QED  BY <2>2, <2>3, <3>1, NothingIsPartial DEF Copied
  <2>5. RecoverableUnlessRespelled'
    <3> SUFFICES ASSUME Active, NEW p \in DOMAIN tx.pre \ respelled', tx.pre[p] # Absent
                 PROVE  backup'[p] = tx.pre[p]
      BY <2>1 DEF RecoverableUnlessRespelled, Active
    <3>1. Existing = tx /\ Replaced = respelled  BY DEF Existing, Replaced
    <3>2. p \notin respelled /\ p \notin done  BY <2>2, <3>1
    <3>3. p \in Path  BY <1>0, PartialFunction DEF TxTyped
    <3>4. backup'[p] = backup[p]  BY <2>2, <3>2, <3>3
    <3> QED  BY <3>2, <3>4 DEF Recoverable, RecoverableUnlessRespelled
  <2>6. ~Active => respelled' = {}
    BY <2>2, NothingIsPartial DEF Replaced, Existing, NoTx
  <2>7. Doing'  BY <2>1, <2>3, <2>6 DEF Doing, Active
  <2> QED  BY <2>4, <2>5, <2>7 DEF Recoverable
<1>2. ASSUME FingerprintBefore \/ Mutate  PROVE Recoverable'
  <2>1. UNCHANGED <<tx, backup, respelled>> /\ pc \in {"before", "mutate"}
    BY <1>2 DEF FingerprintBefore, Mutate, row, ghosts
  <2>2. call'.snap = call.snap \/ call'.snap = Nothing
    BY <1>2, <1>0, NoCallTyped DEF FingerprintBefore, Mutate, Return, CallTyped
  <2>3. pc' \in {"mutate", "after"} \/ (pc' = "idle" /\ call'.snap = Nothing)
    BY <1>2, NoCallTyped DEF FingerprintBefore, Mutate, Return
  <2> QED  BY <2>1, <2>2, <2>3, RecoverableKept
<1>3. ASSUME FingerprintAfter  PROVE Recoverable'
  <2>0. UNCHANGED respelled  BY <1>3 DEF FingerprintAfter, ghosts
  <2>1. ASSUME NEW unread, tx' = Recorded(unread), UNCHANGED backup, call' = NoCall,
               pc' \in {"idle", "verify"}
        PROVE  Recoverable'
    <3>1. Existing.pre \in Partial /\ call.snap \in Partial  BY <1>0, ExistingTyped DEF CallTyped
    <3>2. tx'.pre = Over(Existing.pre, call.snap) /\ tx'.status = "active"
      BY <2>1 DEF Recorded
    <3>3. RecoverableUnlessRespelled'
      <4> SUFFICES ASSUME NEW p \in DOMAIN tx'.pre \ respelled, tx'.pre[p] # Absent
                   PROVE  backup[p] = tx'.pre[p]
        BY <2>0, <2>1 DEF RecoverableUnlessRespelled
      <4>1. CASE p \in DOMAIN Existing.pre
        <5>1. Active /\ p \in DOMAIN tx.pre /\ Existing.pre = tx.pre
          BY <4>1, NothingIsPartial DEF Existing, NoTx
        <5>2. Over(Existing.pre, call.snap)[p] = Existing.pre[p]  BY <4>1, <3>1, OverIsPartial
        <5> QED  BY <5>1, <5>2, <3>2 DEF Recoverable, RecoverableUnlessRespelled
      <4>2. CASE p \notin DOMAIN Existing.pre
        <5>1. DOMAIN Over(Existing.pre, call.snap) = DOMAIN Existing.pre \cup DOMAIN call.snap
          BY <3>1, OverIsPartial
        <5>2. p \in DOMAIN call.snap \ DOMAIN Existing.pre  BY <5>1, <4>2, <3>2
        <5>3. \A q \in DOMAIN call.snap \ DOMAIN Existing.pre :
                Over(Existing.pre, call.snap)[q] = call.snap[q]
          BY <3>1, OverIsPartial
        <5> QED  BY <5>2, <5>3, <3>2 DEF Recoverable, Copied
      <4> QED  BY <4>1, <4>2
    <3>4. call'.snap = Nothing  BY <2>1, NoCallTyped
    <3>5. Copied'  BY <3>4, NothingIsPartial DEF Copied
    <3>6. Doing'  BY <3>2, <3>4, <2>1 DEF Doing, Active
    <3> QED  BY <3>3, <3>5, <3>6 DEF Recoverable
  <2>2. ASSUME UNCHANGED tx, pc' = "idle", call' = NoCall, backup' \in DirectoryIfUnchanged
        PROVE  Recoverable'
    <3>1. call'.snap = Nothing  BY <2>2, NoCallTyped
    <3>2. Copied'  BY <3>1, NothingIsPartial DEF Copied
    <3>3. RecoverableUnlessRespelled'
      BY <2>0, <2>2 DEF RecoverableUnlessRespelled, Recoverable, Active, DirectoryIfUnchanged
    <3>4. Doing'  BY <3>1, <2>2 DEF Doing
    <3> QED  BY <3>2, <3>3, <3>4 DEF Recoverable
  <2>3. backup \in DirectoryIfUnchanged  BY DEF DirectoryIfUnchanged
  <2> QED  BY <1>3, <2>1, <2>2, <2>3 DEF FingerprintAfter, Return
<1>4. ASSUME PlanTool \/ AskRollback  PROVE Recoverable'
  <2>1. UNCHANGED <<tx, backup, call, todo, respelled>> /\ (pc = "idle" /\ (pc' = "idle" \/ (pc' = "verify" /\ Active)))
    <3>1. CASE PlanTool
      <4>1. UNCHANGED <<tx, backup, mem, respelled>> /\ pc = "idle"  BY <3>1 DEF PlanTool
      <4> QED  BY <4>1 DEF mem
    <3>2. CASE AskRollback  BY <3>2 DEF AskRollback, row, ghosts
    <3> QED  BY <1>4, <3>1, <3>2
  <2>2. call.snap = Nothing  BY <2>1 DEF Recoverable, Doing
  <2> QED  BY <2>1, <2>2, RecoverableKept
<1>5. ASSUME NEW g \in Gate, NEW passes \in BOOLEAN, NEW names \in BOOLEAN, NEW fast \in BOOLEAN,
             Validate(g, passes, names, fast)
      PROVE  Recoverable'
  <2>1. /\ pc = "idle" /\ pc' \in {"idle", "verify"} /\ (pc' = "verify" => Active)
        /\ UNCHANGED <<backup, call, respelled>>
        /\ tx' = tx \/ (Active /\ \E n : tx' = [tx EXCEPT !.failures = n, !.status = "rollback_recommended"])
    BY <1>5 DEF Validate
  <2>2. tx'.pre = tx.pre /\ (Active <=> Active')  BY <2>1, <1>0 DEF TxTyped, Active
  <2>3. RecoverableUnlessRespelled'  BY <2>1, <2>2 DEF Recoverable, RecoverableUnlessRespelled
  <2>4. Copied' /\ Doing'  BY <2>1, <2>2 DEF Recoverable, Copied, Doing
  <2> QED  BY <2>3, <2>4 DEF Recoverable
<1>6. ASSUME ~Active', UNCHANGED call, call.snap = Nothing,
             pc' \in {"idle", "committed", "rolledBack"}
      PROVE  Recoverable'
  <2>1. Copied'  BY <1>6, NothingIsPartial DEF Copied
  <2>2. RecoverableUnlessRespelled' /\ Doing'  BY <1>6 DEF RecoverableUnlessRespelled, Doing
  <2> QED  BY <2>1, <2>2 DEF Recoverable
<1>7. ASSUME GiveUp  PROVE ~Active' /\ pc' = "idle"
  BY <1>7, <1>0 DEF GiveUp, TxTyped, Active
<1>8. ASSUME Commit \/ RolledBack  PROVE Recoverable'
  BY <1>6, <1>8 DEF Commit, RolledBack, Active, NoTx, Recoverable, Doing
<1>9. ASSUME Verify  PROVE Recoverable'
  <2>1. UNCHANGED <<backup, call, respelled>> /\ call.snap = Nothing /\ Active
    BY <1>9 DEF Verify, Recoverable, Doing
  <2>2. CASE GiveUp  BY <2>1, <2>2, <1>6, <1>7
  <2>3. CASE UNCHANGED tx /\ (pc' = "idle" \/ (pc' = "restore" /\ todo' = DOMAIN tx.pre))
    <3>1. call'.snap = Nothing /\ pc' \in {"idle", "restore"}  BY <2>1, <2>3
    <3>2. pc' = "restore" => todo' \subseteq DOMAIN tx.pre  BY <2>3
    <3> QED  BY <3>1, <3>2, <2>1, <2>3, RecoverableKept
  <2>4. GiveUp \/ (UNCHANGED tx /\ (pc' = "idle" \/ (pc' = "restore" /\ todo' = DOMAIN tx.pre)))
    BY <1>9 DEF Verify
  <2> QED  BY <2>2, <2>3, <2>4
<1>10. ASSUME NEW p \in Path, Restore(p)  PROVE Recoverable'
  <2>1. UNCHANGED <<backup, call, respelled>> /\ call.snap = Nothing /\ Active /\ todo \subseteq DOMAIN tx.pre /\ pc = "restore"
    BY <1>10 DEF Restore, Recoverable, Doing
  <2>2. CASE GiveUp  BY <2>1, <2>2, <1>6, <1>7
  <2>3. CASE UNCHANGED <<tx, pc>> /\ todo' = todo \ {p}
    BY <2>1, <2>3, RecoverableKept
  <2> QED  BY <1>10, <2>2, <2>3 DEF Restore, CopyTool, Shell
<1>11. ASSUME CleanUp  PROVE Recoverable'
  BY <1>6, <1>11 DEF CleanUp, Recoverable, Doing, Active
<1>12. ASSUME Interrupt  PROVE Recoverable'
  <2>1. UNCHANGED <<tx, backup, respelled>> /\ pc' = "idle" /\ call'.snap = Nothing
    BY <1>12, NoCallTyped DEF Interrupt, Return, row
  <2> QED  BY <2>1, RecoverableKept
<1>13. ASSUME NEW p \in Path, NEW v \in Value, UserEdit(p, v)  PROVE Recoverable'
  <2>1. UNCHANGED <<tx, backup, call, pc, todo, respelled>>  BY <1>13 DEF UserEdit, row, mem
  <2> QED  BY <2>1, RecoverableKept DEF Recoverable, Doing
<1>14. CASE UNCHANGED txVars
  <2>1. UNCHANGED <<tx, backup, call, pc, todo, respelled>>  BY <1>14 DEF txVars, row, mem, ghosts
  <2> QED  BY <2>1, RecoverableKept DEF Recoverable, Doing
<1> QED
  BY <1>1, <1>2, <1>3, <1>4, <1>5, <1>8, <1>9, <1>10, <1>11, <1>12, <1>13, <1>14 DEF TxNext

-----------------------------------------------------------------------------
(* The refinement.  Every step is one of RecoveryPoint, or changes nothing *)
(* of what RecoveryPoint sees.                                             *)

LEMMA RefineInit == TxInit => RP!Init
<1> SUFFICES ASSUME TxInit PROVE RP!Init
  OBVIOUS
<1>1. work \in [Path -> Value]  BY WorkAssumption DEF TxInit
<1>2. call.snap = Nothing /\ RP!Nothing = Nothing  BY NoCallTyped DEF TxInit, RP!Nothing, Nothing
<1>3. Phase = "none" /\ ~Active /\ PutBack = {} /\ Replaced = {}
  BY DEF TxInit, Phase, Active, NoTx, PutBack, Replaced
<1>4. Existing.pre = Nothing /\ Existing.post = Nothing  BY <1>3 DEF Existing, NoTx
<1> QED  BY <1>1, <1>2, <1>3, <1>4 DEF RP!Init

\* The point is the same when the transaction is, unless restoring begins or ends.
LEMMA SamePoint ==
  ASSUME UNCHANGED <<tx, respelled>>, pc # "restore", pc' # "restore"
  PROVE  RP!point' = RP!point
<1>1. Active' <=> Active  BY DEF Active
<1>2. Existing' = Existing  BY <1>1 DEF Existing, NoTx
<1>3. Phase' = Phase  BY <1>1 DEF Phase
<1>4. PutBack = {} /\ PutBack' = {}  BY DEF PutBack
<1>5. Replaced' = Replaced  BY <1>1 DEF Replaced
<1> QED  BY <1>2, <1>3, <1>4, <1>5 DEF RP!point

\* Files may change, and what was read be dropped, at any time.
LEMMA AsWrite ==
  ASSUME RP!point' = RP!point, work' \in [Path -> Value], call'.snap = call.snap \/ call'.snap = Nothing
  PROVE  RP!Next
<1>1. RP!Nothing = Nothing  BY DEF RP!Nothing, Nothing
<1>2. RP!Write  BY <1>1 DEF RP!Write
<1> QED  BY <1>2 DEF RP!Next

\* A transaction that ends, as what and in which phase.
LEMMA Closed ==
  ASSUME UNCHANGED <<work, call>>, ~Active', PutBack' = {}
  PROVE  RP!Close(Phase')
<1>1. Existing'.pre = Nothing /\ Existing'.post = Nothing  BY DEF Existing, NoTx
<1>2. RP!Nothing = Nothing  BY DEF RP!Nothing, Nothing
<1>3. Replaced' = {}  BY DEF Replaced
<1> QED  BY <1>1, <1>2, <1>3 DEF RP!Close

LEMMA PhaseOfActive ==
  ASSUME TxTyped, Active
  PROVE  /\ Phase = IF pc = "restore" THEN "restoring" ELSE "open"
         /\ Existing = tx /\ Replaced = respelled
BY DEF TxTyped, Active, Phase, Existing, Replaced

LEMMA NothingActive ==
  ASSUME TxTyped, ~Active
  PROVE  Phase \in {"none", "abandoned"} /\ PutBack = {}
BY DEF TxTyped, Active, Phase, PutBack

LEMMA RefineStep ==
  ASSUME HasCopyTool = FALSE
  PROVE  TxTypeOK /\ Recoverable /\ TxTypeOK' /\ [TxNext]_txVars => [RP!Next]_RP!vars
<1> SUFFICES ASSUME TxTypeOK, Recoverable, TxTypeOK', [TxNext]_txVars PROVE [RP!Next]_RP!vars
  OBVIOUS
<1>0. /\ Files /\ TxTyped /\ CallTyped /\ StepTyped
      /\ Files' /\ TxTyped'
  BY TypeParts, TypePartsNext
<1>1. ASSUME NEW t \in Targets, Begin(t)  PROVE RP!Next
  <2>1. UNCHANGED <<work, tx>> /\ pc = "idle"  BY <1>1 DEF Begin, row
  <2>2. PICK done \in SUBSET Path :
          /\ respelled' = Replaced \cup (done \cap DOMAIN Existing.pre)
          /\ \/ /\ pc' = "before"
                /\ call' = [NoCall EXCEPT !.own = t.own, !.paths = t.own \cup t.other, !.snap = At(done)]
             \/ UNCHANGED <<pc, call>>
    BY <1>0, <1>1, BeginCopies
  <2>3. (pc' = "before" /\ call'.snap = At(done)) \/ (pc' = "idle" /\ call'.snap = Nothing)
    BY <2>1, <2>2 DEF NoCall, Recoverable, Doing
  <2>4. Active' = Active /\ Existing' = Existing /\ Phase' = Phase /\ PutBack = {} /\ PutBack' = {}
    BY <2>1, <2>3 DEF Active, Existing, NoTx, Phase, PutBack
  <2>5. Replaced' = Replaced \cup (done \cap DOMAIN Existing.pre)
    BY <2>2, <2>4, NothingIsPartial DEF Replaced, Existing, NoTx
  <2>6. Phase # "restoring"  BY <1>0, <2>1, PhaseOfActive, NothingActive
  <2>7. At(done) = [p \in done |-> work[p]] /\ RP!Nothing = Nothing  BY DEF At, RP!Nothing, Nothing
  <2>8. RP!Capture(done)  BY <2>1, <2>3, <2>4, <2>5, <2>6, <2>7 DEF RP!Capture
  <2> QED  BY <2>8 DEF RP!Next
<1>2. ASSUME FingerprintBefore \/ Mutate  PROVE RP!Next
  <2>1. UNCHANGED <<tx, respelled>> /\ pc # "restore" /\ pc' # "restore"
    BY <1>2 DEF FingerprintBefore, Mutate, Return, row, ghosts
  <2>2. work' \in [Path -> Value]  BY <1>0 DEF Files
  <2>3. call'.snap = call.snap \/ call'.snap = Nothing
    BY <1>2, <1>0, NoCallTyped DEF FingerprintBefore, Mutate, Return, CallTyped
  <2> QED  BY <2>1, <2>2, <2>3, SamePoint, AsWrite
<1>3. ASSUME FingerprintAfter  PROVE RP!Next
  <2>1. ASSUME NEW unread \in SUBSET (DOMAIN Existing.pre \ call.paths), tx' = Recorded(unread),
               pc' \in {"idle", "verify"}, pc = "after", call' = NoCall, UNCHANGED <<work, respelled>>
        PROVE  RP!Protect
    <3>1. Phase # "restoring" /\ PutBack = {}
      BY <1>0, <2>1, PhaseOfActive, NothingActive DEF PutBack
    <3>2. Active' /\ Existing' = tx' /\ Phase' = "open" /\ PutBack' = {}
      BY <2>1 DEF Recorded, Active, Existing, Phase, PutBack
    <3>3. RP!Over(Existing.pre, call.snap) = Over(Existing.pre, call.snap)  BY DEF RP!Over, Over
    <3>4. tx'.pre = Over(Existing.pre, call.snap)  BY <2>1 DEF Recorded
    <3>5. tx'.post \in [DOMAIN tx'.pre -> Value]
      <4>1. tx'.post \in Partial /\ DOMAIN tx'.post = DOMAIN tx'.pre  BY <1>0 DEF TxTyped
      <4> QED  BY <4>1, PartialFunction
    <3>6. call'.snap = Nothing /\ RP!Nothing = Nothing
      BY <2>1, NoCallTyped DEF RP!Nothing, Nothing
    <3>7. Replaced' = Replaced
      BY <2>1, <3>2 DEF Replaced, Recoverable, Doing
    <3> QED  BY <2>1, <3>1, <3>2, <3>3, <3>4, <3>5, <3>6, <3>7 DEF RP!Protect
  <2>2. ASSUME UNCHANGED <<tx, work, respelled>>, pc = "after", pc' = "idle", call' = NoCall
        PROVE  RP!Next
    BY <2>2, <1>0, NoCallTyped, SamePoint, AsWrite DEF Files
  <2>3. UNCHANGED <<work, respelled>> /\ pc = "after"  BY <1>3 DEF FingerprintAfter, ghosts
  <2> QED  BY <1>3, <2>1, <2>2, <2>3 DEF FingerprintAfter, Return, RP!Next
<1>4. ASSUME PlanTool \/ AskRollback \/ CleanUp  PROVE UNCHANGED RP!vars
  <2>1. UNCHANGED <<tx, work, call, respelled>> /\ pc # "restore" /\ pc' # "restore"
    BY <1>4 DEF PlanTool, AskRollback, CleanUp, mem, row, ghosts
  <2> QED  BY <2>1, SamePoint DEF RP!vars
<1>5. ASSUME NEW g \in Gate, NEW passes \in BOOLEAN, NEW names \in BOOLEAN, NEW fast \in BOOLEAN,
             Validate(g, passes, names, fast)
      PROVE  UNCHANGED RP!vars
  <2>1. UNCHANGED <<work, call, respelled>> /\ pc = "idle" /\ pc' # "restore"
    BY <1>5 DEF Validate
  <2>2. CASE UNCHANGED tx  BY <2>1, <2>2, SamePoint DEF RP!vars
  <2>3. CASE tx' # tx
    <3>1. Active /\ \E n : tx' = [tx EXCEPT !.failures = n, !.status = "rollback_recommended"]
      BY <1>5, <2>3 DEF Validate
    <3>2. tx'.pre = tx.pre /\ tx'.post = tx.post /\ tx'.status = "rollback_recommended"
      BY <3>1, <1>0 DEF TxTyped
    <3>3. Active' /\ Existing' = tx' /\ Phase' = "open" /\ PutBack' = {} /\ Replaced' = respelled
      BY <3>2, <2>1 DEF Active, Existing, Phase, PutBack, Replaced
    <3>4. Existing = tx /\ Phase = "open" /\ PutBack = {} /\ Replaced = respelled
      BY <3>1, <2>1, <1>0, PhaseOfActive DEF PutBack
    <3> QED  BY <2>1, <3>2, <3>3, <3>4 DEF RP!vars, RP!point
  <2> QED  BY <2>2, <2>3
<1>6. ASSUME GiveUp
      PROVE  ~Active' /\ Phase' = "abandoned" /\ PutBack' = {}
  BY <1>6, <1>0 DEF GiveUp, TxTyped, Active, Phase, PutBack
<1>7. ASSUME Commit  PROVE RP!Next
  <2>1. Active /\ pc = "idle" /\ tx' = NoTx /\ UNCHANGED <<work, call>>  BY <1>7 DEF Commit
  <2>2. ~Active' /\ Phase' = "none" /\ PutBack' = {}  BY <2>1 DEF Active, Phase, PutBack, NoTx
  <2>3. RP!Close("none")  BY <2>1, <2>2, Closed
  <2>4. Phase = "open"  BY <1>0, <2>1, PhaseOfActive
  <2> QED  BY <2>3, <2>4 DEF RP!Commit, RP!Next
<1>8. ASSUME Verify  PROVE RP!Next \/ UNCHANGED RP!vars
  <2>1. pc = "verify" /\ Active /\ UNCHANGED <<work, call, respelled>>
    BY <1>8 DEF Verify, Recoverable, Doing
  <2>2. Phase = "open" /\ Existing = tx /\ PutBack = {} /\ Replaced = respelled
    BY <1>0, <2>1, PhaseOfActive DEF PutBack
  <2>3. ASSUME Safe, pc' = "restore", todo' = DOMAIN tx.pre, UNCHANGED tx  PROVE RP!Verify
    <3>1. Active' /\ Existing' = tx /\ Phase' = "restoring" /\ PutBack' = {} /\ Replaced' = respelled
      BY <2>1, <2>2, <2>3, <1>0 DEF Active, Existing, Phase, PutBack, TxTyped, Replaced
    <3> QED  BY <2>1, <2>2, <2>3, <3>1 DEF RP!Verify, Safe
  <2>4. ASSUME GiveUp  PROVE RP!Abandon
    BY <2>1, <2>2, <2>4, <1>6, Closed DEF RP!Abandon
  <2>5. ASSUME UNCHANGED tx, pc' = "idle"  PROVE UNCHANGED RP!vars
    BY <2>1, <2>5, SamePoint DEF RP!vars
  <2> QED  BY <1>8, <2>3, <2>4, <2>5 DEF Verify, RP!Next
<1>9. ASSUME NEW p \in Path, Restore(p)  PROVE RP!Next
  <2>1. pc = "restore" /\ p \in todo /\ Active /\ todo \subseteq DOMAIN tx.pre /\ UNCHANGED <<call, respelled>>
    BY <1>9 DEF Restore, Recoverable, Doing
  <2>2. Phase = "restoring" /\ Existing = tx /\ PutBack = DOMAIN tx.pre \ todo /\ Replaced = respelled
    BY <1>0, <2>1, PhaseOfActive DEF PutBack
  <2>3. ASSUME Shell(p)  PROVE RP!Restore(p)
    <3>1. UNCHANGED <<tx, pc>> /\ todo' = todo \ {p}  BY <2>3 DEF Shell
    <3>2. /\ Active' /\ Existing' = tx /\ Phase' = "restoring" /\ Replaced' = respelled
          /\ PutBack' = DOMAIN tx.pre \ (todo \ {p})
      BY <2>1, <2>2, <3>1, <1>0 DEF Active, Existing, Phase, PutBack, TxTyped, Replaced
    <3>3. PutBack' = PutBack \cup {p} /\ p \in DOMAIN tx.pre \ PutBack  BY <2>1, <2>2, <3>2
    <3>4. \E v \in IF p \in respelled THEN Value ELSE {tx.pre[p]} : work' = [work EXCEPT ![p] = v]
      <4>1. CASE p \in respelled
        BY <4>1, <2>3, <1>0 DEF Shell, Files, Value
      <4>2. CASE p \notin respelled
        BY <4>2, <2>1, <2>3 DEF Shell, Recoverable, RecoverableUnlessRespelled
      <4> QED  BY <4>1, <4>2
    <3> QED  BY <2>1, <2>2, <3>2, <3>3, <3>4 DEF RP!Restore
  <2>4. ASSUME GiveUp, UNCHANGED work  PROVE RP!Abandon
    BY <2>1, <2>2, <2>4, <1>6, Closed DEF RP!Abandon
  <2>5. Shell(p) \/ (GiveUp /\ UNCHANGED work)  BY <1>9 DEF Restore
  <2> QED  BY <2>3, <2>4, <2>5 DEF RP!Next
<1>10. ASSUME RolledBack  PROVE RP!Next
  <2>1. pc = "restore" /\ todo = {} /\ Active /\ tx' = NoTx /\ UNCHANGED <<work, call>>
    BY <1>10 DEF RolledBack, Recoverable, Doing
  <2>2. ~Active' /\ Phase' = "none" /\ PutBack' = {}  BY <2>1 DEF Active, Phase, PutBack, NoTx
  <2>3. RP!Close("none")  BY <2>1, <2>2, Closed
  <2>4. Phase = "restoring" /\ Existing = tx /\ PutBack = DOMAIN tx.pre
    BY <1>0, <2>1, PhaseOfActive DEF PutBack
  <2> QED  BY <2>3, <2>4 DEF RP!RolledBack, RP!Next
<1>11. ASSUME Interrupt  PROVE RP!Next
  <2>1. UNCHANGED <<tx, respelled>> /\ pc' = "idle" /\ call'.snap = Nothing
    BY <1>11, NoCallTyped DEF Interrupt, Return, row
  <2>2. CASE pc # "restore"
    BY <2>1, <2>2, <1>0, SamePoint, AsWrite DEF Files
  <2>3. CASE pc = "restore"
    <3>1. Active /\ call.snap = Nothing  BY <2>3 DEF Recoverable, Doing
    <3>2. UNCHANGED work  BY <1>11, <2>3 DEF Interrupt
    <3>3. Phase = "restoring" /\ Existing = tx /\ Replaced = respelled  BY <1>0, <2>3, <3>1, PhaseOfActive
    <3>4. Active' /\ Existing' = tx /\ Phase' = "open" /\ PutBack' = {} /\ Replaced' = respelled
      BY <2>1, <3>1, <3>3, <1>0 DEF Active, Existing, Phase, PutBack, TxTyped, Replaced
    <3>5. RP!Interrupt  BY <2>1, <3>1, <3>2, <3>3, <3>4 DEF RP!Interrupt
    <3> QED  BY <3>5 DEF RP!Next
  <2> QED  BY <2>2, <2>3
<1>12. ASSUME NEW p \in Path, NEW v \in Value, UserEdit(p, v)  PROVE RP!Next
  <2>1. UNCHANGED <<tx, pc, todo, call, respelled>>  BY <1>12 DEF UserEdit, row, mem
  <2>2. Active' = Active /\ Existing' = Existing /\ Phase' = Phase /\ PutBack' = PutBack /\ Replaced' = Replaced
    BY <2>1 DEF Active, Existing, Phase, PutBack, NoTx, Replaced
  <2>3. UNCHANGED RP!point  BY <2>2 DEF RP!point
  <2> QED  BY <2>1, <2>3, <1>0, AsWrite DEF Files
<1>13. CASE UNCHANGED txVars
  <2>1. UNCHANGED <<work, tx, pc, todo, call, respelled>>  BY <1>13 DEF txVars, row, mem, ghosts
  <2>2. Active' = Active /\ Existing' = Existing /\ Phase' = Phase /\ PutBack' = PutBack /\ Replaced' = Replaced
    BY <2>1 DEF Active, Existing, Phase, PutBack, NoTx, Replaced
  <2> QED  BY <2>1, <2>2 DEF RP!vars, RP!point
<1> QED
  BY <1>1, <1>2, <1>3, <1>4, <1>5, <1>7, <1>8, <1>9, <1>10, <1>11, <1>12, <1>13 DEF TxNext

-----------------------------------------------------------------------------
(* Evidence.                                                               *)

\* A gate that stands passed ran on the diff that the plan is of.
Evidence ==
  /\ plan # NoPlan /\ ~blind => Same
  /\ \A g \in plan.passed \ astray : Shown(ran[g]) = plan.fp

LEMMA EvidenceInit == TxInit => Evidence
BY DEF TxInit, Evidence, NoPlan

LEMMA EvidenceShown == Evidence => EvidenceIsCurrent
BY DEF Evidence, EvidenceIsCurrent, Same

\* Building the plan drops what was given for another diff.
LEMMA RebuildKeeps ==
  ASSUME Evidence, Rebuild(work') \/ NoRebuild, UNCHANGED <<ran, astray>>
  PROVE  Evidence'
<1>1. CASE Rebuild(work')
  <2>1. plan'.fp = Shown(work') /\ (plan'.passed # {} => plan.fp = plan'.fp /\ plan'.passed \subseteq plan.passed)
    BY <1>1 DEF Rebuild, MakePlan
  <2>2. Same'  BY <2>1 DEF Same, Shown
  <2>3. \A g \in plan'.passed \ astray' : Shown(ran[g]) = plan'.fp  BY <2>1 DEF Evidence
  <2>4. \A g \in plan'.passed \ astray' : Shown(ran[g])' = plan'.fp  BY <2>3 DEF Shown
  <2> QED  BY <2>2, <2>4 DEF Evidence
<1>2. CASE NoRebuild
  BY <1>2 DEF NoRebuild, Evidence, Shown
<1> QED  BY <1>1, <1>2

\* Without a new plan, files only change when the plan is not told.
LEMMA EvidenceKept ==
  ASSUME Evidence, UNCHANGED <<plan, ran, astray>>, blind' \/ UNCHANGED <<work, blind>>
  PROVE  Evidence'
<1>1. plan'.passed \ astray' = plan.passed \ astray  OBVIOUS
<1>2. \A g \in plan.passed \ astray : Shown(ran[g])' = plan'.fp  BY DEF Evidence, Shown
<1>3. CASE blind'  BY <1>1, <1>2, <1>3 DEF Evidence
<1>4. CASE UNCHANGED <<work, blind>>
  <2>1. Same' <=> Same  BY <1>4 DEF Same, Shown
  <2>2. (plan # NoPlan /\ ~blind) => Same  BY DEF Evidence
  <2>3. (plan' # NoPlan /\ ~blind') => Same'  BY <1>4, <2>1, <2>2, Zenon
  <2> QED  BY <1>1, <1>2, <2>3 DEF Evidence
<1> QED  BY <1>3, <1>4

LEMMA EvidenceStep == TxTypeOK /\ Evidence /\ [TxNext]_txVars => Evidence'
<1> SUFFICES ASSUME TxTypeOK, Evidence, [TxNext]_txVars PROVE Evidence'
  OBVIOUS
<1>1. ASSUME NEW t \in Targets, Begin(t)  PROVE Evidence'
  BY <1>1, EvidenceKept DEF Begin, row
<1>2. ASSUME FingerprintBefore \/ FingerprintAfter \/ Commit \/ AskRollback \/ Verify \/ RolledBack
      PROVE  Evidence'
  <2>1. UNCHANGED <<work, plan, ran, astray, blind>>
    BY <1>2 DEF FingerprintBefore, FingerprintAfter, Commit, AskRollback, Verify, RolledBack, row, ghosts
  <2> QED  BY <2>1, EvidenceKept
<1>3. ASSUME Mutate  PROVE Evidence'
  <2>1. UNCHANGED <<ran, astray>>  BY <1>3 DEF Mutate
  <2>2. CASE Rebuild(work') \/ NoRebuild  BY <2>1, <2>2, RebuildKeeps
  <2>3. CASE UNCHANGED plan /\ blind' = (blind \/ work' # work)
    <3>1. blind' \/ UNCHANGED <<work, blind>>  BY <2>3, TypeParts, Zenon DEF PastTyped
    <3> QED  BY <2>1, <2>3, <3>1, EvidenceKept
  <2>4. CASE UNCHANGED <<work, plan, blind>>  BY <2>1, <2>4, EvidenceKept
  <2> QED  BY <1>3, <2>2, <2>3, <2>4 DEF Mutate
<1>4. ASSUME PlanTool \/ CleanUp  PROVE Evidence'
  <2>1. UNCHANGED <<ran, astray, work>>  BY <1>4 DEF PlanTool, CleanUp
  <2>2. CASE Rebuild(work) \/ NoRebuild
    <3>1. Rebuild(work') \/ NoRebuild  BY <2>1, <2>2
    <3> QED  BY <2>1, <3>1, RebuildKeeps
  <2>3. CASE UNCHANGED <<plan, blind>>  BY <2>1, <2>3, EvidenceKept
  <2> QED  BY <1>4, <2>2, <2>3 DEF PlanTool, CleanUp
<1>5. ASSUME NEW g \in Gate, NEW passes \in BOOLEAN, NEW names \in BOOLEAN, NEW fast \in BOOLEAN,
             Validate(g, passes, names, fast)
      PROVE  Evidence'
  <2>1. UNCHANGED <<work, blind>> /\ plan'.fp = plan.fp /\ plan'.passed \subseteq plan.passed \cup {g}
        /\ (plan = NoPlan => plan' = NoPlan)
    <3>1. UNCHANGED <<work, blind>>  BY <1>5 DEF Validate, used
    <3>2. plan' = IF g \notin plan.gates THEN plan
                  ELSE [plan EXCEPT !.passed = IF passes THEN @ \cup {g} ELSE @ \ {g}]
      BY <1>5 DEF Validate
    <3>3. PlanTyped  BY TypeParts
    <3>4. plan'.fp = plan.fp /\ plan'.passed \subseteq plan.passed \cup {g}
      BY <3>2, <3>3 DEF PlanTyped
    <3>5. plan = NoPlan => plan' = NoPlan  BY <3>2 DEF NoPlan
    <3> QED  BY <3>1, <3>4, <3>5
  <2>2. (plan' # NoPlan /\ ~blind') => Same'
    <3>1. (plan # NoPlan /\ ~blind) => Same  BY DEF Evidence
    <3>2. Same' <=> Same  BY <2>1 DEF Same, Shown
    <3> QED  BY <2>1, <3>1, <3>2, Zenon
  <2>3. ASSUME NEW h \in plan'.passed \ astray'  PROVE Shown(ran'[h]) = plan.fp
    <3>1. CASE h # g
      <4>1. h \in plan.passed  BY <3>1, <2>1, <2>3
      <4>2. ran' = [ran EXCEPT ![g] = work] \/ ran' = [ran EXCEPT ![g] = AtHead]
        BY <1>5 DEF Validate
      <4>3. h \in Gate  BY <4>1, TypeParts DEF PlanTyped
      <4>4. ran'[h] = ran[h]  BY <3>1, <4>2, <4>3, TypeParts DEF PastTyped
      <4>5. astray' \in {astray \ {g}, astray \cup {g}}  BY <1>5 DEF Validate
      <4>6. h \notin astray  BY <3>1, <4>5, <2>3
      <4> QED  BY <4>1, <4>4, <4>6 DEF Evidence
    <3>2. CASE h = g
      <4>1. g \in plan'.passed  BY <3>2, <2>3
      <4>2. ran' = [ran EXCEPT ![g] = work] /\ astray' = IF Same THEN astray \ {g} ELSE astray \cup {g}
        BY <4>1, <1>5 DEF Validate
      <4>3. Same  BY <3>2, <2>3, <4>2
      <4> QED  BY <3>2, <4>2, <4>3, TypeParts DEF Same, PastTyped
    <3> QED  BY <3>1, <3>2
  <2>4. \A h : Shown(ran[h])' = Shown(ran'[h])  BY DEF Shown
  <2>5. \A h \in plan'.passed \ astray' : Shown(ran[h])' = plan'.fp  BY <2>1, <2>3, <2>4, Zenon
  <2> QED  BY <2>2, <2>5 DEF Evidence
<1>6. ASSUME NEW p \in Path, Restore(p)  PROVE Evidence'
  <2>1. blind' \/ UNCHANGED <<work, blind>>
    <3>1. blind' = (blind \/ work' # work)  BY <1>6 DEF Restore
    <3> QED  BY <3>1, TypeParts, Zenon DEF PastTyped
  <2> QED  BY <2>1, <1>6, EvidenceKept DEF Restore
<1>7. ASSUME Interrupt  PROVE Evidence'
  <2>1. blind' \/ UNCHANGED <<work, blind>>
    <3>1. blind' = (blind \/ work' # work)  BY <1>7 DEF Interrupt
    <3> QED  BY <3>1, TypeParts, Zenon DEF PastTyped
  <2> QED  BY <2>1, <1>7, EvidenceKept DEF Interrupt, row
<1>8. ASSUME NEW p \in Path, NEW v \in Value, UserEdit(p, v)  PROVE Evidence'
  BY <1>8, EvidenceKept DEF UserEdit, row
<1>9. CASE UNCHANGED txVars
  BY <1>9, EvidenceKept DEF txVars, row, ghosts
<1> QED  BY <1>1, <1>2, <1>3, <1>4, <1>5, <1>6, <1>7, <1>8, <1>9 DEF TxNext

-----------------------------------------------------------------------------
(* The theorems.                                                           *)

\* The transaction's record, its directory, the plan and the step of the executor stay what
\* they are in every run (transactional-mutation-executor.ts).
THEOREM TxTypeCorrect == TxSpec => []TxTypeOK
<1>1. TxInit => TxTypeOK  BY TypeInit
<1>2. TxTypeOK /\ [TxNext]_txVars => TxTypeOK'  BY TypeStep
<1> QED  BY <1>1, <1>2, PTL DEF TxSpec

\* A crash, an abort, a failing snapshot or fingerprint, or a clean-up never takes away the
\* original of a file that an active transaction changed; only copying the file again does,
\* which takes a call that spells its path otherwise (transactional-mutation-executor.ts:746).
THEOREM OriginalsAreKept == TxSpec => []RecoverableUnlessRespelled
<1>1. TxInit => Recoverable  BY RecoverableInit
<1>2. TxTypeOK /\ Recoverable /\ [TxNext]_txVars => Recoverable'  BY RecoverableStep
<1>3. Recoverable => RecoverableUnlessRespelled  BY DEF Recoverable
<1> QED  BY <1>1, <1>2, <1>3, TxTypeCorrect, PTL DEF TxSpec

\* A commit never rests on a gate that was passed for another diff than the plan's.
THEOREM EvidenceStaysCurrent == TxSpec => []EvidenceIsCurrent
<1>1. TxInit => Evidence  BY EvidenceInit
<1>2. TxTypeOK /\ Evidence /\ [TxNext]_txVars => Evidence'  BY EvidenceStep
<1>3. Evidence => EvidenceIsCurrent  BY EvidenceShown
<1> QED  BY <1>1, <1>2, <1>3, TxTypeCorrect, PTL DEF TxSpec

\* Without the tool that copies files, the executor implements a recovery point that loses the
\* originals of the files it captures twice, and of no others.
THEOREM ImplementsRecoveryPoint ==
  ASSUME HasCopyTool = FALSE
  PROVE  TxSpec => RefinesRecoveryPoint
<1>1. TxInit => RP!Init  BY RefineInit
<1>2. TxTypeOK /\ Recoverable /\ TxTypeOK' /\ [TxNext]_txVars => [RP!Next]_RP!vars
  BY RefineStep
<1>3. TxInit => Recoverable  BY RecoverableInit
<1>4. TxTypeOK /\ Recoverable /\ [TxNext]_txVars => Recoverable'  BY RecoverableStep
<1> QED  BY <1>1, <1>2, <1>3, <1>4, TxTypeCorrect, PTL DEF TxSpec, RefinesRecoveryPoint, RP!Spec
=============================================================================
