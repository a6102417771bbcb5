--------------------------- MODULE AgentRunProofs ---------------------------
(* Proofs about AgentRun, for every set of calls, artifacts, callers and   *)
(* requests, and every budget and limit; at the end, that the loop in its  *)
(* graph implements the account of a run.                                  *)
EXTENDS AgentRun, TLAPS, SequenceTheorems, FiniteSetTheorems

----------------------------------------------------------------------------
(* Types *)

LEMMA InitTyped == Init => TypeOK
<1> SUFFICES ASSUME Init PROVE TypeOK
  OBVIOUS
<1>1. ControlTyped
  <2>1. options \in Options /\ aborted = FALSE /\ pc = "idle"
    BY DEF Init, LoopInit
  <2> QED
    BY <2>1, OptionAssumption DEF ControlTyped
<1>2. TurnTyped
  <2>1. turns = 0 /\ used = 0 /\ unproductive = 0 /\ executed \in BOOLEAN
    BY Zenon DEF Init, LoopInit
  <2>2. seen = {} /\ queue = <<>> /\ hidden = {} /\ batch = {}
    BY DEF Init, LoopInit
  <2> QED
    BY <2>1, <2>2, BoundAssumption DEF TurnTyped
<1>3. MoodTyped
  <2>1. deep \in BOOLEAN /\ failures = 0 /\ rejected = 0
    BY Zenon DEF Init, LoopInit
  <2> QED
    BY <2>1 DEF MoodTyped
<1>4. CallsTyped
  <2>1. running = {} /\ started = [c \in Call |-> 0]
    BY DEF Init, LoopInit
  <2> QED
    BY <2>1 DEF CallsTyped
<1>5. ChecksTyped
  <2>1. gen = 0 /\ validGen = 0 /\ repository \in BOOLEAN /\ artifacts = {} /\ evidence \in BOOLEAN /\ log = <<>>
    BY Zenon DEF Init, LoopInit
  <2> QED
    BY <2>1 DEF ChecksTyped
<1>6. ResultTyped
  BY DEF Init, LoopInit, ResultTyped, StopReason, State, Content
<1>7. /\ pc = "idle" /\ phase \in {"bootstrap", "execute"}
      /\ cycle = 0 /\ reviewPassed \in BOOLEAN /\ remembered \in BOOLEAN /\ owed = {}
  BY Zenon DEF Init, LoopInit
<1> QED
  BY <1>1, <1>2, <1>3, <1>4, <1>5, <1>6, <1>7 DEF TypeOK, LoopTypeOK, Settled

LEMMA ExitTyped ==
  ASSUME TypeOK, NEW reason \in StopReason, NEW state \in State, NEW text \in Content \cup {"none"},
         Exit(reason, state, text), UNCHANGED nudged, approved' \in BOOLEAN
  PROVE  ResultTyped' /\ pc' = "done"
BY DEF Exit, ResultTyped, StopReason, State, TypeOK, LoopTypeOK

LEMMA AskTyped ==
  ASSUME TypeOK, NEW counter \in Counter, Ask(counter)
  PROVE  ResultTyped' /\ pc' = "turn"
BY DEF Ask, ResultTyped, result, TypeOK, LoopTypeOK

LEMMA MoodKept ==
  ASSUME TypeOK, NEW f \in {0, 1}, NEW r \in {0, 1}, NEW d \in BOOLEAN,
         Mood(f, r, d), r = 1 /\ ~d => rejected = 0
  PROVE  MoodTyped'
BY DEF Mood, MoodTyped, TypeOK, LoopTypeOK

LEMMA CalmKept == ASSUME TypeOK, Calm PROVE MoodTyped'
BY DEF Calm, MoodTyped, TypeOK, LoopTypeOK

\* What an action leaves alone stays typed.
LEMMA Framed ==
  ASSUME TypeOK
  PROVE  /\ UNCHANGED <<turns, turn, unproductive>> => TurnTyped'
         /\ UNCHANGED mood => MoodTyped'
         /\ UNCHANGED checks => ChecksTyped'
         /\ UNCHANGED <<nudged, result>> => ResultTyped'
         /\ UNCHANGED calls => CallsTyped'
<1> USE DEF TypeOK, LoopTypeOK
<1>1. UNCHANGED <<turns, turn, unproductive>> => TurnTyped'
  BY DEF turn, TurnTyped
<1>2. UNCHANGED mood => MoodTyped'
  BY DEF mood, MoodTyped
<1>3. UNCHANGED checks => ChecksTyped'
  BY DEF checks, ChecksTyped
<1>4. UNCHANGED <<nudged, result>> => ResultTyped'
  BY DEF result, ResultTyped
<1>5. UNCHANGED calls => CallsTyped'
  BY DEF calls, CallsTyped
<1> QED
  BY <1>1, <1>2, <1>3, <1>4, <1>5

LEMMA ReturnTyped ==
  ASSUME TypeOK, NEW c \in Call, NEW ok \in BOOLEAN, Returns(c, ok),
         UNCHANGED <<options, aborted>>
  PROVE  ControlTyped' /\ TurnTyped' /\ ResultTyped' /\ CallsTyped' /\ evidence' \in BOOLEAN
<1> USE DEF TypeOK, LoopTypeOK, Returns
<1>1. queue # <<>> /\ queue \in Seq(Call)
  BY DEF ControlTyped, TurnTyped
<1>2. Tail(queue) \in Seq(Call)
  BY <1>1
<1>3. ControlTyped'
  BY DEF ControlTyped
<1>4. TurnTyped'
  BY <1>2 DEF TurnTyped
<1>5. ResultTyped' /\ CallsTyped' /\ evidence' \in BOOLEAN
  BY Framed DEF CallsTyped, ChecksTyped
<1> QED
  BY <1>3, <1>4, <1>5

LEMMA StepTyped == TypeOK /\ [Next]_vars => TypeOK'
<1> SUFFICES ASSUME TypeOK, [Next]_vars PROVE TypeOK'
  OBVIOUS
<1> DEFINE Loop == ControlTyped' /\ TurnTyped' /\ MoodTyped' /\ ChecksTyped' /\ ResultTyped' /\ CallsTyped'
<1>0. LoopTypeOK /\ (Loop <=> LoopTypeOK')
  BY DEF TypeOK, LoopTypeOK
<1>1. ASSUME UNCHANGED <<calls, loop>>, options' \in Option, aborted' \in BOOLEAN PROVE Loop
  BY <1>0, <1>1, Framed DEF LoopTypeOK, ControlTyped, loop, turn, mood
<1>2. CASE Bootstrap \/ Refused \/ Direct \/ ReviewPasses \/ UNCHANGED vars
  <2>1. Loop
    BY <1>0, <1>1, <1>2 DEF Bootstrap, Refused, Direct, ReviewPasses, vars, LoopTypeOK, ControlTyped
  <2> QED
    BY <1>0, <1>2, <2>1
    DEF TypeOK, Settled, Bootstrap, Refused, Direct, ReviewPasses, vars, run, loop
<1>3. CASE Leaves \/ Orphans
  <2>1. Loop
    BY <1>0, <1>3, Framed
    DEF Leaves, Orphans, Abort, Settle, LoopTypeOK, ControlTyped, CallsTyped, loop, turn, mood
  <2> QED
    BY <1>0, <1>3, <2>1 DEF TypeOK, Settled, Leaves, Orphans, run, loop
<1>4. CASE Execution
  <2>0. Begin /\ phase = "execute" /\ UNCHANGED <<aborted, running, run>>
    BY <1>4 DEF Execution
  <2>1. ControlTyped'
    <3>1. options' \in Option
      <4>1. options \in Option
        BY <1>0 DEF LoopTypeOK, ControlTyped
      <4>2. [options EXCEPT !.mutate = TRUE] \in Option
        BY <4>1 DEF Option
      <4> QED
        BY <1>4, <4>1, <4>2 DEF Execution
    <3>2. pc' = "turn" /\ aborted' = aborted
      BY <2>0 DEF Begin
    <3> QED
      BY <1>0, <3>1, <3>2 DEF LoopTypeOK, ControlTyped
  <2>2. TurnTyped'
    <3>1. turns' = 0 /\ used' = 0 /\ unproductive' = 0 /\ executed' \in BOOLEAN
      BY <2>0, Zenon DEF Begin
    <3>2. seen' = {} /\ queue' = <<>> /\ hidden' = {} /\ batch' = {}
      BY <2>0 DEF Begin
    <3> QED
      BY <3>1, <3>2, BoundAssumption DEF TurnTyped
  <2>3. MoodTyped'
    <3>1. deep' \in BOOLEAN /\ failures' = 0 /\ rejected' = 0
      BY <2>0 DEF Begin
    <3> QED
      BY <3>1 DEF MoodTyped
  <2>4. CallsTyped'
    <3>1. started' = [c \in Call |-> 0] /\ running' = running
      BY <2>0 DEF Begin
    <3> QED
      BY <1>0, <3>1 DEF LoopTypeOK, CallsTyped
  <2>5. ChecksTyped'
    <3>1. /\ gen' = 0 /\ validGen' = 0 /\ repository' \in BOOLEAN /\ artifacts' = {}
          /\ evidence' \in BOOLEAN /\ log' = <<>>
      BY <2>0, Zenon DEF Begin
    <3> QED
      BY <3>1 DEF ChecksTyped
  <2>6. ResultTyped'
    BY <2>0 DEF Begin, ResultTyped, StopReason, State
  <2> QED
    BY <1>0, <2>0, <2>1, <2>2, <2>3, <2>4, <2>5, <2>6 DEF TypeOK, run, Settled
<1>5. CASE ReviewFixes
  <2>1. Loop
    BY <1>0, <1>1, <1>5, Framed DEF ReviewFixes, Again, loop, turn, mood, LoopTypeOK, ControlTyped
  <2> QED
    <3>1. reviewPassed' \in BOOLEAN /\ remembered' \in BOOLEAN
      BY <1>5, Zenon DEF ReviewFixes, TypeOK
    <3>2. /\ phase = "execute" /\ cycle <= 1 /\ cycle \in 0..2 /\ owed \subseteq Call
          /\ cycle' = cycle + 1
      BY <1>5 DEF ReviewFixes, TypeOK
    <3>3. CASE cycle < 1
      <4>1. phase' = "execute" /\ owed' \subseteq Call
        BY <1>5, <3>3 DEF ReviewFixes, Again, Unbacked
      <4> QED
        BY <1>0, <2>1, <3>1, <3>2, <3>3, <4>1 DEF TypeOK, Settled
    <3>4. CASE ~(cycle < 1)
      <4>1. phase' = "finalize" /\ owed' = owed /\ pc' = "done"
        BY <1>5, <3>4 DEF ReviewFixes, loop
      <4> QED
        BY <1>0, <2>1, <3>1, <3>2, <3>4, <4>1 DEF TypeOK, Settled
    <3> QED
      BY <3>3, <3>4
<1>6. CASE Finalize
  <2>1. Loop
    BY <1>0, <1>6, Framed
    DEF Finalize, LoopTypeOK, ControlTyped, ResultTyped, StopReason, State, Content, turn, mood
  <2> QED
    BY <1>0, <1>6, <2>1 DEF TypeOK, Settled, Finalize, Claimed
<1>7. CASE InLoop
  <2>1. phase = "execute" /\ LoopStep /\ UNCHANGED <<options, aborted, run>>
    BY <1>7 DEF InLoop
  <2>2. SUFFICES Loop /\ (pc # "idle" /\ pc' # "idle")
    BY <1>0, <2>1 DEF TypeOK, run, Settled
  <2>3. ASSUME pc' # "tool", pc' \in {"turn", "model", "guard", "calls", "done"} PROVE ControlTyped'
    BY <1>0, <2>1, <2>3 DEF LoopTypeOK, ControlTyped
  <2>4. ASSUME UNCHANGED calls,
               OutOfTurns \/ CancelTurn \/ ProviderFails \/ CancelCalls \/ SpendBudget
        PROVE  Loop /\ (pc # "idle" /\ pc' # "idle")
    <3>1. \E reason \in StopReason, state \in State : Exit(reason, state, "none")
      BY <2>4, <1>0 DEF OutOfTurns, CancelTurn, ProviderFails, CancelCalls, SpendBudget, StopReason, State,
        LoopTypeOK, ResultTyped
    <3>2. UNCHANGED <<turns, turn, mood, checks, nudged, approved, calls>> /\ pc # "idle"
      BY <2>4 DEF OutOfTurns, CancelTurn, ProviderFails, CancelCalls, SpendBudget
    <3>3. ResultTyped' /\ pc' = "done"
      BY <3>1, <3>2, <1>0, ExitTyped DEF LoopTypeOK, ResultTyped
    <3> QED
      BY <3>2, <3>3, <2>3, Framed DEF mood
  <2>5. CASE Turn /\ UNCHANGED calls
    <3>1. MoodTyped'
      BY <2>5, <1>0, Framed, MoodKept DEF Turn, LoopTypeOK, MoodTyped, mood
    <3> QED
      BY <2>5, <3>1, <2>3, <1>0, Framed, BoundAssumption DEF Turn, LoopTypeOK, TurnTyped, turn
  <2>6. CASE Propose /\ UNCHANGED calls
    <3>1. PICK c \in Content, off \in BOOLEAN :
            \/ AskForEvidence(c, off) \/ AskForAlignment(c, off) \/ Wait(c, off) \/ Block(c, off)
            \/ AskForMutation(c, off) \/ AskForValidation(c, off) \/ AskForSignal(c, off)
            \/ AskGuard(c, off) \/ Accept(c, off)
      BY <2>6 DEF Propose
    <3>2. pc # "idle" /\ UNCHANGED <<turns, turn, unproductive, checks>>
      BY <2>6 DEF Propose
    <3>3. ASSUME NEW counter \in Counter, Ask(counter) PROVE ResultTyped' /\ pc' = "turn"
      BY <3>3, AskTyped
    <3>4. ASSUME NEW reason \in StopReason, NEW state \in State, Exit(reason, state, c),
                 UNCHANGED <<nudged, approved>>
          PROVE  ResultTyped' /\ pc' = "done"
      BY <3>4, <1>0, ExitTyped DEF LoopTypeOK, ResultTyped
    <3>5. MoodTyped'
      BY <3>1, CalmKept, MoodKept
      DEF AskForEvidence, AskForAlignment, Wait, Block, AskForMutation, AskForValidation, AskForSignal,
          AskGuard, Accept
    <3>6. ResultTyped' /\ pc' \in {"turn", "guard", "done"}
      BY <3>1, <3>3, <3>4, <1>0, Framed
      DEF AskForEvidence, AskForAlignment, Wait, Block, AskForMutation, AskForValidation, AskForSignal,
          AskGuard, Accept, Accepted, GiveUp, StopReason, State, Counter, LoopTypeOK, ResultTyped
    <3> QED
      BY <2>6, <3>2, <3>5, <3>6, <2>3, Framed
  <2>7. CASE GuardAccepts /\ UNCHANGED calls
    <3>1. ResultTyped' /\ pc' = "done"
      BY <2>7, ExitTyped DEF GuardAccepts, Accepted, StopReason, State, Content
    <3> QED
      BY <2>7, <3>1, <2>3, Framed DEF GuardAccepts, mood
  <2>8. CASE GuardRefuses /\ UNCHANGED calls
    <3>1. ResultTyped' /\ pc' \in {"turn", "done"}
      BY <2>8, <1>0, ExitTyped, AskTyped
      DEF GuardRefuses, GiveUp, StopReason, State, Content, Counter, LoopTypeOK, ResultTyped
    <3> QED
      BY <2>8, <3>1, <2>3, Framed DEF GuardRefuses, mood
  <2>9. CASE TurnEnds /\ UNCHANGED calls
    <3>1. MoodTyped'
      BY <2>9, CalmKept, MoodKept DEF TurnEnds
    <3>2. ResultTyped' /\ pc' \in {"turn", "done"}
      BY <2>9, <1>0, ExitTyped, Framed DEF TurnEnds, StopReason, State, LoopTypeOK, ResultTyped, result
    <3>3. TurnTyped'
      <4>1. executed' \in BOOLEAN /\ hidden' = {} /\ batch' = {} /\ UNCHANGED <<turns, used, seen, queue>>
        BY <2>9, Zenon DEF TurnEnds
      <4>2. \/ unproductive' = 0 \/ unproductive' = Patience
            \/ unproductive' = unproductive + 1 /\ unproductive + 1 < Patience
        BY <2>9, Zenon DEF TurnEnds
      <4> QED
        BY <1>0, <4>1, <4>2, BoundAssumption DEF LoopTypeOK, TurnTyped
    <3> QED
      BY <2>9, <3>1, <3>2, <3>3, <2>3, Framed DEF TurnEnds
  <2>10. ASSUME NEW c \in Call, RejectUnknown(c) \/ RejectDuplicate(c), UNCHANGED calls
         PROVE  Loop /\ (pc # "idle" /\ pc' # "idle")
    <3>1. PICK f \in {0, 1} : Reject(f) /\ Considers(c)
      BY <2>10 DEF RejectUnknown, RejectDuplicate
    <3>2. MoodTyped'
      <4>1. deep \in BOOLEAN /\ rejected \in {0, 1}
        BY <1>0 DEF LoopTypeOK, MoodTyped
      <4> QED
        BY <3>1, <4>1, MoodKept DEF Reject
    <3>3. TurnTyped'
      BY <3>1, <1>0 DEF Reject, Considers, LoopTypeOK, TurnTyped
    <3> QED
      BY <2>10, <3>1, <3>2, <3>3, <2>3, Framed DEF Reject, Considers
  <2>11. ASSUME NEW q \in Requests, NEW h \in SUBSET (Hidden \cap Asked(q)), Request(q, h)
         PROVE  Loop /\ (pc # "idle" /\ pc' # "idle")
    <3>1. q \in Seq(Call) /\ Asked(q) \subseteq Call
      BY RequestAssumption DEF Asked
    <3>2. batch' \subseteq Call
      BY <2>11, <3>1 DEF Request
    <3>3. executed' \in BOOLEAN /\ queue' = q /\ hidden' = h /\ UNCHANGED <<turns, used, seen, mood>>
      BY <2>11, Zenon DEF Request
    <3>4. TurnTyped'
      BY <3>1, <3>2, <3>3, <1>0 DEF LoopTypeOK, TurnTyped, mood
    <3>5. CallsTyped'
      BY <2>11, <3>2, <1>0 DEF Request, Launch, LoopTypeOK, CallsTyped
    <3> QED
      BY <2>11, <3>4, <3>5, <2>3, Framed DEF Request
  <2>12. ASSUME NEW c \in Call, Execute(c) PROVE Loop /\ (pc # "idle" /\ pc' # "idle")
    <3>1. TurnTyped' /\ CallsTyped'
      BY <2>12, <1>0, BoundAssumption DEF Execute, Considers, Launch, LoopTypeOK, TurnTyped, CallsTyped, mood
    <3>2. ControlTyped'
      BY <2>12, <2>1, <1>0 DEF Execute, Considers, LoopTypeOK, ControlTyped
    <3> QED
      BY <2>12, <3>1, <3>2, Framed DEF Execute, Considers
  <2>13. ASSUME NEW c \in Call, NEW ok \in BOOLEAN, OtherReturns(c, ok) \/ CheckFails(c, ok)
         PROVE  Loop /\ (pc # "idle" /\ pc' # "idle")
    <3>1. Returns(c, ok) /\ pc' = "calls" /\ pc = "tool"
      BY <2>13 DEF OtherReturns, CheckFails, Returns
    <3>2. MoodTyped'
      <4>1. deep \in BOOLEAN
        BY <1>0 DEF LoopTypeOK, MoodTyped
      <4>2. (deep \/ failures >= 1) \in BOOLEAN
        OBVIOUS
      <4>3. Calm \/ (\E f \in {0, 1}, d \in BOOLEAN : Mood(f, 0, d))
        BY <2>13, <4>2 DEF OtherReturns, CheckFails, Fails
      <4> QED
        BY <4>3, MoodKept, CalmKept
    <3>3. ChecksTyped'
      BY <2>13, <2>1, <3>1, <1>0, ReturnTyped DEF OtherReturns, CheckFails, LoopTypeOK, ChecksTyped
    <3> QED
      BY <2>1, <3>1, <3>2, <3>3, ReturnTyped
  <2>14. ASSUME NEW c \in Call, MutationFails(c) \/ MutationSucceeds(c)
         PROVE  Loop /\ (pc # "idle" /\ pc' # "idle")
    <3>1. PICK ok \in BOOLEAN : Returns(c, ok) /\ pc' = "calls" /\ pc = "tool"
      BY <2>14 DEF MutationFails, MutationSucceeds, Returns
    <3>2. MoodTyped'
      <4>1. deep \in BOOLEAN
        BY <1>0 DEF LoopTypeOK, MoodTyped
      <4>2. (deep \/ failures >= 1) \in BOOLEAN
        OBVIOUS
      <4>3. Calm \/ (\E f \in {0, 1}, d \in BOOLEAN : Mood(f, 0, d))
        BY <2>14, <4>2 DEF MutationFails, MutationSucceeds, Fails
      <4> QED
        BY <4>3, MoodKept, CalmKept
    <3>3. evidence' \in BOOLEAN
      BY <2>1, <3>1, ReturnTyped
    <3>4. ChecksTyped'
      <4>1. /\ gen \in Nat /\ validGen \in 0..gen /\ repository \in BOOLEAN
            /\ artifacts \subseteq Artifact /\ log \in Seq(Entry)
        BY <1>0 DEF LoopTypeOK, ChecksTyped
      <4>2. repository' \in BOOLEAN
        BY <2>14, <4>1, Zenon DEF MutationFails, MutationSucceeds
      <4>3. artifacts' \subseteq Artifact
        BY <2>14, <4>1, CallAssumption DEF MutationFails, MutationSucceeds
      <4>4. gen' \in {gen, gen + 1} /\ validGen' = validGen
        BY <2>14 DEF MutationFails, MutationSucceeds
      <4>5. log' \in Seq(Entry)
        <5>1. [call |-> c, hashed |-> {}] \in Entry
          BY DEF Entry
        <5>2. log' = log \/ log' = Append(log, [call |-> c, hashed |-> {}])
          BY <2>14 DEF MutationFails, MutationSucceeds
        <5> QED
          BY <4>1, <5>1, <5>2
      <4> QED
        BY <3>3, <4>1, <4>2, <4>3, <4>4, <4>5 DEF ChecksTyped
    <3> QED
      BY <2>1, <3>1, <3>2, <3>4, ReturnTyped
  <2>15. ASSUME NEW c \in Call, NEW hashed \in SUBSET Artifact, CheckPasses(c, hashed)
         PROVE  Loop /\ (pc # "idle" /\ pc' # "idle")
    <3>1. Returns(c, TRUE) /\ pc' = "calls" /\ pc = "tool"
      BY <2>15 DEF CheckPasses, Returns
    <3>2. MoodTyped'
      BY <2>15, MoodKept, CalmKept DEF CheckPasses
    <3>3. evidence' \in BOOLEAN
      BY <2>1, <3>1, ReturnTyped
    <3>4. ChecksTyped'
      <4>1. /\ gen \in Nat /\ validGen \in 0..gen /\ repository \in BOOLEAN
            /\ artifacts \subseteq Artifact /\ log \in Seq(Entry)
        BY <1>0 DEF LoopTypeOK, ChecksTyped
      <4>2. repository' \in BOOLEAN
        BY <2>15, <4>1, Zenon DEF CheckPasses
      <4>3. artifacts' \subseteq Artifact
        BY <2>15, <4>1 DEF CheckPasses
      <4>4. validGen' \in {validGen, gen} /\ gen' = gen
        BY <2>15, Zenon DEF CheckPasses
      <4>5. log' \in Seq(Entry)
        BY <2>15, <4>1 DEF CheckPasses, Entry
      <4> QED
        BY <3>3, <4>1, <4>2, <4>3, <4>4, <4>5 DEF ChecksTyped
    <3> QED
      BY <2>1, <3>1, <3>2, <3>4, ReturnTyped
  <2> QED
    BY <2>1, <2>4, <2>5, <2>6, <2>7, <2>8, <2>9, <2>10, <2>11, <2>12, <2>13, <2>14, <2>15 DEF LoopStep
<1> QED
  BY <1>2, <1>3, <1>4, <1>5, <1>6, <1>7 DEF Next, Step

\* Every reachable state of a run is well typed: no counter passes its bound, and an
\* execution of the graph is never the third.
THEOREM TypeCorrect == Spec => []TypeOK
  BY InitTyped, StepTyped, PTL DEF Spec
----------------------------------------------------------------------------
(* What is accepted is backed                                              *)
(*                                                                         *)
(* The bookkeeping of the loop, two generations and two kinds of pending   *)
(* work, says what the log says.                                           *)

Later(k, K) == \E j \in DOMAIN log : j > k /\ Kind[log[j].call] \in K

Hashed(k, a) == \E j \in DOMAIN log : j > k /\ Kind[log[j].call] = "inspect" /\ a \in log[j].hashed

WritesAnswered ==
  ~repository => \A k \in DOMAIN log : Kind[log[k].call] = "write" => Later(k, {"test"})

ArtifactsAnswered ==
  \A k \in DOMAIN log : Kind[log[k].call] = "make" =>
    \A a \in Paths[log[k].call] : a \notin artifacts => Hashed(k, a)

Books ==
  /\ WritesAnswered /\ ArtifactsAnswered
  /\ gen = validGen => Backed(log)
  /\ gen > 0 => Mutated(log)

\* What is known of a claim when the gates let it through, and ever after.
Claims ==
  /\ pc \notin {"idle", "done"} => completion \notin Complete
  /\ pc = "guard" => (options.validate => gen = validGen) /\ (options.mutate => gen > 0)
  /\ pc = "done" /\ Claimed =>
       /\ options.validate \/ completion = "VERIFICATION_COMPLETE" => gen = validGen
       /\ options.mutate \/ completion = "VERIFICATION_COMPLETE" => gen > 0
       /\ options.guard => approved
  /\ pc = "done" /\ completion \in Complete /\ options.signal => answer = "complete"

Reviews ==
  /\ options.graph => options.signal
  /\ reviewPassed => /\ phase \in {"finalize", "returned"}
                     /\ completion \in Complete /\ gen = validGen
  /\ remembered => phase = "returned" /\ reviewPassed
  /\ phase = "returned" /\ options.graph /\ completion \in Complete => reviewPassed

IInv == TypeOK /\ Books /\ Claims /\ Reviews

LEMMA InitBooks == Init => Books /\ Claims /\ Reviews
<1> SUFFICES ASSUME Init PROVE Books /\ Claims /\ Reviews
  OBVIOUS
<1>1. gen = 0 /\ log = <<>> /\ pc = "idle" /\ (options.graph => options.signal)
  BY OptionAssumption DEF Init, LoopInit
<1>2. ~reviewPassed /\ ~remembered /\ phase # "returned"
  BY DEF Init, LoopInit
<1>3. Books
  BY <1>1 DEF Books, WritesAnswered, ArtifactsAnswered, Backed
<1> QED
  BY <1>1, <1>2, <1>3 DEF Claims, Reviews

LEMMA BooksKept ==
  ASSUME Books, UNCHANGED <<gen, validGen, repository, artifacts, log>>
  PROVE  Books'
BY DEF Books, WritesAnswered, ArtifactsAnswered, Later, Hashed, Backed, Unanswered, Mutated

LEMMA BackedMeans ==
  ASSUME TypeOK
  PROVE  Backed(log) <=>
         \A k \in DOMAIN log :
           /\ Kind[log[k].call] = "write" => Later(k, {"test"})
           /\ Kind[log[k].call] = "make"  =>
                Later(k, Check) /\ \A a \in Paths[log[k].call] : Hashed(k, a)
BY DEF Backed, Unanswered, Later, Hashed

\* One more entry at the end of the log.
LEMMA Appended ==
  ASSUME TypeOK, NEW e \in Entry, log' = Append(log, e)
  PROVE  /\ DOMAIN log \subseteq DOMAIN log' /\ DOMAIN log' = DOMAIN log \cup {Len(log) + 1}
         /\ Len(log) + 1 \notin DOMAIN log
         /\ \A k \in DOMAIN log : log'[k] = log[k] /\ k < Len(log) + 1 /\ k \in Nat
         /\ log'[Len(log) + 1] = e
<1>1. log \in Seq(Entry)
  BY DEF TypeOK, LoopTypeOK, ChecksTyped
<1> QED
  BY <1>1

LEMMA AnswersLast ==
  ASSUME TypeOK, NEW e \in Entry, log' = Append(log, e), NEW k \in DOMAIN log
  PROVE  /\ \A K : Later(k, K) => Later(k, K)'
         /\ \A a : Hashed(k, a) => Hashed(k, a)'
         /\ \A K : Kind[e.call] \in K => Later(k, K)'
         /\ \A a : Kind[e.call] = "inspect" /\ a \in e.hashed => Hashed(k, a)'
BY Appended DEF Later, Hashed

LEMMA MutationBooked ==
  ASSUME TypeOK, Books, NEW c \in Call, MutationSucceeds(c)
  PROVE  Books'
<1> DEFINE e == [call |-> c, hashed |-> {}]
<1>1. /\ e \in Entry /\ log' = Append(log, e) /\ gen' = gen + 1 /\ validGen' = validGen
      /\ Kind[c] \in {"write", "make"}
      /\ gen \in Nat /\ validGen \in 0..gen
  BY DEF MutationSucceeds, Entry, Mutation, TypeOK, LoopTypeOK, ChecksTyped
<1>2. /\ Kind[c] = "write" => repository' /\ artifacts' = artifacts
      /\ Kind[c] = "make"  => artifacts' = artifacts \cup Paths[c] /\ repository' = repository
  BY <1>1 DEF MutationSucceeds
<1>3. Mutated(log)'
  BY <1>1, Appended DEF Mutated, Mutation
<1>4. gen' # validGen'
  BY <1>1
<1>5. WritesAnswered'
  <2> SUFFICES ASSUME ~repository', NEW k \in DOMAIN log', Kind[log'[k].call] = "write"
               PROVE  Later(k, {"test"})'
    BY DEF WritesAnswered
  <2>1. Kind[c] = "make" /\ ~repository
    BY <1>1, <1>2
  <2>2. k \in DOMAIN log /\ Kind[log[k].call] = "write"
    BY <1>1, <2>1, Appended
  <2> QED
    BY <1>1, <2>1, <2>2, AnswersLast DEF Books, WritesAnswered
<1>6. ArtifactsAnswered'
  <2> SUFFICES ASSUME NEW k \in DOMAIN log', Kind[log'[k].call] = "make",
                      NEW a \in Paths[log'[k].call], a \notin artifacts'
               PROVE  Hashed(k, a)'
    BY DEF ArtifactsAnswered
  <2>1. a \notin artifacts /\ (Kind[c] = "make" => a \notin Paths[c])
    BY <1>1, <1>2
  <2>2. k \in DOMAIN log /\ Kind[log[k].call] = "make" /\ a \in Paths[log[k].call]
    BY <1>1, <2>1, Appended
  <2> QED
    BY <1>1, <2>1, <2>2, AnswersLast DEF Books, ArtifactsAnswered
<1> QED
  BY <1>3, <1>4, <1>5, <1>6 DEF Books

LEMMA CheckBooked ==
  ASSUME TypeOK, Books, NEW c \in Call, NEW hashed \in SUBSET Artifact, CheckPasses(c, hashed)
  PROVE  Books'
<1> DEFINE e == [call |-> c, hashed |-> hashed]
<1>1. /\ e \in Entry /\ log' = Append(log, e) /\ gen' = gen
      /\ Kind[c] \in {"test", "inspect"} /\ (Kind[c] = "test" => hashed = {})
      /\ artifacts' = artifacts \ hashed
  BY DEF CheckPasses, Entry, Check
<1>2. repository' <=> repository /\ Kind[c] = "inspect"
  BY DEF CheckPasses
<1>3. \/ ~repository' /\ artifacts' = {} /\ validGen' = gen
      \/ validGen' = validGen
  BY DEF CheckPasses
<1>4. WritesAnswered'
  <2> SUFFICES ASSUME ~repository', NEW k \in DOMAIN log', Kind[log'[k].call] = "write"
               PROVE  Later(k, {"test"})'
    BY DEF WritesAnswered
  <2>1. k \in DOMAIN log /\ Kind[log[k].call] = "write"
    BY <1>1, Appended
  <2>2. CASE Kind[c] = "test"
    BY <1>1, <2>1, <2>2, AnswersLast
  <2>3. CASE Kind[c] = "inspect"
    BY <1>1, <1>2, <2>1, <2>3, AnswersLast DEF Books, WritesAnswered
  <2> QED
    BY <1>1, <2>2, <2>3
<1>5. ArtifactsAnswered'
  <2> SUFFICES ASSUME NEW k \in DOMAIN log', Kind[log'[k].call] = "make",
                      NEW a \in Paths[log'[k].call], a \notin artifacts'
               PROVE  Hashed(k, a)'
    BY DEF ArtifactsAnswered
  <2>1. k \in DOMAIN log /\ Kind[log[k].call] = "make" /\ a \in Paths[log[k].call]
    BY <1>1, Appended
  <2>2. CASE a \notin artifacts
    BY <1>1, <2>1, <2>2, AnswersLast DEF Books, ArtifactsAnswered
  <2>3. CASE a \in hashed
    BY <1>1, <2>1, <2>3, AnswersLast
  <2> QED
    BY <1>1, <2>2, <2>3
<1>6. gen > 0 => Mutated(log)'
  <2>1. Mutated(log) => Mutated(log)'
    BY <1>1, Appended DEF Mutated
  <2> QED
    BY <2>1 DEF Books
<1>7. ASSUME gen' = validGen' PROVE Backed(log)'
  <2>0. Backed(log)' <=>
         \A k \in DOMAIN log' :
           /\ Kind[log'[k].call] = "write" => Later(k, {"test"})'
           /\ Kind[log'[k].call] = "make"  =>
                Later(k, Check)' /\ \A a \in Paths[log'[k].call] : Hashed(k, a)'
    BY DEF Backed, Unanswered, Later, Hashed
  <2>1. SUFFICES ASSUME NEW k \in DOMAIN log', Kind[log'[k].call] \in {"write", "make"}
                 PROVE  /\ Kind[log'[k].call] = "write" => Later(k, {"test"})'
                        /\ Kind[log'[k].call] = "make"  =>
                             Later(k, Check)' /\ \A a \in Paths[log'[k].call] : Hashed(k, a)'
    BY <2>0
  <2>2. k \in DOMAIN log /\ log'[k] = log[k]
    BY <1>1, <2>1, Appended
  <2>3. Later(k, Check)'
    BY <1>1, <2>2, AnswersLast DEF Check
  <2>4. CASE ~repository' /\ artifacts' = {}
    BY <2>1, <2>2, <2>3, <2>4, <1>4, <1>5 DEF WritesAnswered, ArtifactsAnswered
  <2>5. CASE validGen' = validGen
    <3>1. Backed(log)
      BY <1>1, <1>7, <2>5 DEF Books
    <3>2. /\ Kind[log[k].call] = "write" => Later(k, {"test"})
          /\ Kind[log[k].call] = "make"  => \A a \in Paths[log[k].call] : Hashed(k, a)
      BY <2>2, <3>1, BackedMeans
    <3> QED
      BY <1>1, <2>2, <2>3, <3>2, AnswersLast
  <2> QED
    BY <1>3, <2>4, <2>5
<1> QED
  BY <1>1, <1>4, <1>5, <1>6, <1>7 DEF Books

LEMMA StepBooks == TypeOK /\ Books /\ [Next]_vars => Books'
<1> SUFFICES ASSUME TypeOK, Books, [Next]_vars PROVE Books'
  OBVIOUS
<1>1. CASE Execution
  <2>1. gen' = 0 /\ log' = <<>>
    BY <1>1 DEF Execution, Begin
  <2> QED
    BY <2>1 DEF Books, WritesAnswered, ArtifactsAnswered, Backed
<1>2. ASSUME NEW c \in Call, MutationSucceeds(c) PROVE Books'
  BY <1>2, MutationBooked
<1>3. ASSUME NEW c \in Call, NEW hashed \in SUBSET Artifact, CheckPasses(c, hashed) PROVE Books'
  BY <1>3, CheckBooked
<1>4. ASSUME UNCHANGED <<gen, validGen, repository, artifacts, log>> PROVE Books'
  BY <1>4, BooksKept
<1>5. CASE Bootstrap \/ Refused \/ Direct \/ ReviewFixes \/ ReviewPasses \/ Finalize
           \/ Leaves \/ Orphans \/ UNCHANGED vars
  BY <1>5, <1>4
  DEF Bootstrap, Refused, Direct, ReviewFixes, Again, ReviewPasses, Finalize, Leaves, Orphans, vars,
      loop, checks
<1>6. CASE InLoop
  <2>1. ASSUME NEW c \in Call,
               \/ RejectUnknown(c) \/ RejectDuplicate(c) \/ Execute(c) \/ MutationFails(c)
               \/ \E ok \in BOOLEAN : OtherReturns(c, ok) \/ CheckFails(c, ok)
        PROVE  Books'
    BY <2>1, <1>4
    DEF RejectUnknown, RejectDuplicate, Reject, Execute, MutationFails, OtherReturns, CheckFails, checks
  <2>2. ASSUME NEW q \in Requests, NEW h \in SUBSET (Hidden \cap Asked(q)), Request(q, h) PROVE Books'
    BY <2>2, <1>4 DEF Request, checks
  <2>3. CASE OutOfTurns \/ CancelTurn \/ Turn \/ ProviderFails \/ Propose \/ GuardAccepts
             \/ GuardRefuses \/ CancelCalls \/ SpendBudget \/ TurnEnds
    BY <2>3, <1>4
    DEF OutOfTurns, CancelTurn, Turn, ProviderFails, Propose, GuardAccepts, GuardRefuses, CancelCalls,
        SpendBudget, TurnEnds, checks
  <2> QED
    BY <1>6, <1>2, <1>3, <2>1, <2>2, <2>3 DEF InLoop, LoopStep
<1> QED
  BY <1>1, <1>5, <1>6 DEF Next, Step

\* What the gates have established of an answer that reaches the guard, or the end.
LEMMA ReachesGuard ==
  ASSUME TypeOK, NEW c \in Content, NEW off \in BOOLEAN, HeldAt(8, c, off)
  PROVE  c = "complete" /\ (options.validate => gen = validGen) /\ (options.mutate => gen > 0)
<1>1. gen \in Nat /\ validGen \in 0..gen
  BY DEF TypeOK, LoopTypeOK, ChecksTyped
<1>2. ~Holds(Gate[5], c, off) /\ ~Holds(Gate[6], c, off) /\ Holds(Gate[8], c, off)
  BY DEF HeldAt, Reaches
<1>3. Gate[5] = "mutation" /\ Gate[6] = "validation" /\ Gate[8] = "guard"
  BY DEF Gate
<1>4. c = "complete" /\ options.guard
  BY <1>2, <1>3 DEF Holds
<1>5. ~(options.mutate /\ gen = 0) /\ ~(options.validate /\ gen > validGen)
  BY <1>2, <1>3, <1>4 DEF Holds
<1> QED
  BY <1>1, <1>4, <1>5

LEMMA ReachesEnd ==
  ASSUME TypeOK, NEW c \in Content, NEW off \in BOOLEAN, Reaches(9, c, off)
  PROVE  /\ c \in {"complete", "plain"} /\ (c = "plain" => ~options.signal)
         /\ c = "complete" => /\ ~options.guard
                              /\ options.validate => gen = validGen
                              /\ options.mutate => gen > 0
<1>1. gen \in Nat /\ validGen \in 0..gen
  BY DEF TypeOK, LoopTypeOK, ChecksTyped
<1>2. \A n \in 3..8 : ~Holds(Gate[n], c, off)
  BY DEF Reaches
<1>3. /\ Gate[3] = "waiting" /\ Gate[4] = "blocked" /\ Gate[5] = "mutation" /\ Gate[6] = "validation"
      /\ Gate[7] = "signal" /\ Gate[8] = "guard"
  BY DEF Gate
<1>4. ~Holds("waiting", c, off) /\ ~Holds("blocked", c, off) /\ ~Holds("mutation", c, off)
  BY <1>2, <1>3
<1>5. ~Holds("validation", c, off) /\ ~Holds("signal", c, off) /\ ~Holds("guard", c, off)
  BY <1>2, <1>3
<1>6. c \in {"complete", "plain"} /\ (c = "plain" => ~options.signal)
  BY <1>4, <1>5 DEF Holds, Content
<1>7. c = "complete" => ~options.guard /\ ~(options.mutate /\ gen = 0) /\ ~(options.validate /\ gen > validGen)
  BY <1>4, <1>5 DEF Holds
<1> QED
  BY <1>1, <1>6, <1>7

\* An answer is accepted: what was known of it is known of the result.
LEMMA AcceptedClaims ==
  ASSUME TypeOK, NEW c \in Content, Accepted(c), UNCHANGED <<options, gen, validGen>>,
         c = "plain" => ~options.signal, c \in {"plain", "complete"},
         c = "complete" => /\ options.guard => approved'
                           /\ options.validate => gen = validGen
                           /\ options.mutate => gen > 0
  PROVE  Claims'
<1>1. pc' = "done" /\ answer' = c /\ completion' \in {"CANCELLED", "VERIFICATION_COMPLETE", "GOAL_COMPLETE"}
  BY DEF Accepted, Exit
<1>2. completion' = "VERIFICATION_COMPLETE" => c = "complete" /\ validGen = gen /\ gen > 0
  BY DEF Accepted, Exit
<1> QED
  BY <1>1, <1>2 DEF Claims, Claimed, Complete

LEMMA StepClaims == TypeOK /\ Claims /\ [Next]_vars => Claims'
<1> SUFFICES ASSUME TypeOK, Claims, [Next]_vars PROVE Claims'
  OBVIOUS
<1>1. ASSUME pc' = "done", completion' \notin Complete PROVE Claims'
  BY <1>1 DEF Claims, Claimed
<1>2. ASSUME pc' \in {"turn", "model", "calls", "tool"}, completion' \notin Complete PROVE Claims'
  BY <1>2 DEF Claims
<1>3. ASSUME UNCHANGED <<options, pc, gen, validGen, completion, answer, approved>> PROVE Claims'
  BY <1>3 DEF Claims, Claimed
<1>4. CASE Bootstrap \/ Refused \/ Direct \/ ReviewPasses \/ Leaves \/ Orphans \/ UNCHANGED vars
  BY <1>4, <1>3
  DEF Bootstrap, Refused, Direct, ReviewPasses, Leaves, Orphans, vars, loop, checks, result
<1>5. CASE Execution
  BY <1>5, <1>2 DEF Execution, Begin, Complete
<1>6. CASE ReviewFixes
  <2>1. CASE Again
    BY <2>1 DEF Again, Claims
  <2>2. CASE UNCHANGED loop /\ UNCHANGED options
    BY <2>2, <1>3 DEF loop, checks, result
  <2> QED
    BY <1>6, <2>1, <2>2 DEF ReviewFixes
<1>7. CASE Finalize
  <2>1. CASE UNCHANGED <<stop, completion, answer>>
    BY <1>7, <2>1, <1>3 DEF Finalize, checks
  <2>2. CASE completion' = "BLOCKED"
    BY <1>7, <2>2, <1>1 DEF Finalize, Complete, TypeOK
  <2> QED
    BY <1>7, <2>1, <2>2 DEF Finalize
<1>8. CASE InLoop
  <2>1. LoopStep /\ options' = options
    BY <1>8 DEF InLoop
  <2>2. ASSUME NEW reason, NEW state, NEW text, Exit(reason, state, text), state \notin Complete
        PROVE  Claims'
    BY <2>2, <1>1 DEF Exit, Complete
  <2>3. ASSUME pc \notin {"idle", "done"}, UNCHANGED completion, pc' \in {"turn", "model", "calls", "tool"}
        PROVE  Claims'
    BY <2>3, <1>2 DEF Claims
  <2>4. ASSUME pc \notin {"idle", "done"} PROVE completion \notin Complete
    BY <2>4 DEF Claims
  <2>5. CASE OutOfTurns \/ CancelTurn \/ ProviderFails \/ CancelCalls \/ SpendBudget
    BY <2>5, <2>2, <2>4
    DEF OutOfTurns, CancelTurn, ProviderFails, CancelCalls, SpendBudget, Complete
  <2>6. CASE Turn
    BY <2>6, <2>3 DEF Turn, result
  <2>7. CASE Propose
    <3>1. PICK c \in Content, off \in BOOLEAN :
            \/ AskForEvidence(c, off) \/ AskForAlignment(c, off) \/ Wait(c, off) \/ Block(c, off)
            \/ AskForMutation(c, off) \/ AskForValidation(c, off) \/ AskForSignal(c, off)
            \/ AskGuard(c, off) \/ Accept(c, off)
      BY <2>7 DEF Propose
    <3>2. pc = "model" /\ UNCHANGED checks /\ completion \notin Complete
      BY <2>7, <2>4 DEF Propose
    <3>3. CASE \/ AskForEvidence(c, off) \/ AskForAlignment(c, off) \/ AskForMutation(c, off)
               \/ AskForValidation(c, off) \/ AskForSignal(c, off)
      BY <3>2, <3>3, <2>2, <2>3
      DEF AskForEvidence, AskForAlignment, AskForMutation, AskForValidation, AskForSignal, Ask, GiveUp, result
    <3>4. CASE Wait(c, off) \/ Block(c, off)
      BY <3>4, <2>2 DEF Wait, Block, Complete
    <3>5. CASE AskGuard(c, off)
      <4>1. HeldAt(8, c, off) /\ pc' = "guard" /\ UNCHANGED completion /\ UNCHANGED <<gen, validGen>>
        BY <3>2, <3>5 DEF AskGuard, result, checks
      <4> QED
        BY <2>1, <3>2, <4>1, ReachesGuard DEF Claims
    <3>6. CASE Accept(c, off)
      <4>1. Reaches(9, c, off) /\ Accepted(c) /\ UNCHANGED <<gen, validGen>>
        BY <3>2, <3>6 DEF Accept, checks
      <4> QED
        BY <2>1, <4>1, ReachesEnd, AcceptedClaims
    <3> QED
      BY <3>1, <3>3, <3>4, <3>5, <3>6
  <2>8. CASE GuardAccepts
    <3>1. /\ Accepted("complete") /\ approved' /\ UNCHANGED <<gen, validGen>>
          /\ (options.validate => gen = validGen) /\ (options.mutate => gen > 0)
      BY <2>8 DEF GuardAccepts, checks, Claims
    <3> QED
      BY <2>1, <3>1, AcceptedClaims DEF Content
  <2>9. CASE GuardRefuses
    BY <2>9, <2>2, <2>3, <2>4 DEF GuardRefuses, Ask, GiveUp, result
  <2>10. CASE TurnEnds
    <3>1. /\ pc = "calls"
          /\ \/ pc' = "turn" /\ UNCHANGED result
             \/ Exit("no-progress", "BLOCKED", "none")
      BY <2>10, Zenon DEF TurnEnds
    <3>2. UNCHANGED result => UNCHANGED completion
      BY DEF result
    <3>3. "BLOCKED" \notin Complete
      BY DEF Complete
    <3> QED
      BY <3>1, <3>2, <3>3, <2>2, <2>3
  <2>11. ASSUME NEW c \in Call,
                \/ RejectUnknown(c) \/ RejectDuplicate(c) \/ Execute(c) \/ MutationFails(c)
                \/ MutationSucceeds(c) \/ \E ok \in BOOLEAN : OtherReturns(c, ok) \/ CheckFails(c, ok)
                \/ \E hashed \in SUBSET Artifact : CheckPasses(c, hashed)
         PROVE  Claims'
    BY <2>11, <2>3
    DEF RejectUnknown, RejectDuplicate, Reject, Considers, Execute, MutationFails, MutationSucceeds,
        OtherReturns, CheckFails, CheckPasses, Returns, result
  <2>12. ASSUME NEW q \in Requests, NEW h \in SUBSET (Hidden \cap Asked(q)), Request(q, h) PROVE Claims'
    BY <2>12, <2>3 DEF Request, result
  <2> QED
    BY <2>1, <2>5, <2>6, <2>7, <2>8, <2>9, <2>10, <2>11, <2>12 DEF LoopStep
<1> QED
  BY <1>4, <1>5, <1>6, <1>7, <1>8 DEF Next, Step

LEMMA StepReviews == TypeOK /\ Claims /\ Reviews /\ [Next]_vars => Reviews'
<1> SUFFICES ASSUME TypeOK, Claims, Reviews, [Next]_vars PROVE Reviews'
  OBVIOUS
<1>1. CASE Bootstrap \/ Refused \/ Direct \/ Leaves \/ Orphans \/ UNCHANGED vars
  BY <1>1 DEF Reviews, Bootstrap, Refused, Direct, Leaves, Orphans, vars, loop, run, checks, result
<1>2. CASE Execution
  <2>1. /\ options'.graph = options.graph /\ options'.signal = options.signal
        /\ UNCHANGED run /\ phase = "execute"
    <3>1. options \in Option
      BY DEF TypeOK, LoopTypeOK, ControlTyped
    <3>2. phase = "execute" /\ UNCHANGED run
      BY <1>2 DEF Execution
    <3>3. options' = options \/ options' = [options EXCEPT !.mutate = TRUE]
      BY <1>2 DEF Execution
    <3> QED
      BY <3>1, <3>2, <3>3 DEF Option
  <2> QED
    BY <2>1 DEF Reviews, run
<1>3. CASE InLoop
  BY <1>3 DEF InLoop, Reviews, run
<1>4. CASE ReviewFixes
  <2>1. phase' \in {"execute", "finalize"} /\ ~reviewPassed' /\ UNCHANGED <<options, remembered>>
    BY <1>4 DEF ReviewFixes, Again
  <2>2. phase = "execute"
    BY <1>4 DEF ReviewFixes
  <2> QED
    BY <2>1, <2>2 DEF Reviews
<1>5. CASE ReviewPasses
  <2>1. gen \in Nat /\ validGen \in 0..gen
    BY DEF TypeOK, LoopTypeOK, ChecksTyped
  <2>2. completion \in Complete /\ ~(gen > validGen)
    BY <1>5 DEF ReviewPasses, Unfit
  <2>3. /\ phase = "execute" /\ phase' = "finalize" /\ UNCHANGED <<options, remembered>>
        /\ UNCHANGED <<completion, gen, validGen>>
    BY <1>5 DEF ReviewPasses, loop, checks, result
  <2> QED
    BY <2>1, <2>2, <2>3 DEF Reviews
<1>6. CASE Finalize
  <2>1. phase = "finalize" /\ phase' = "returned" /\ UNCHANGED <<options, reviewPassed, gen, validGen>>
    BY <1>6 DEF Finalize, checks
  <2>2. remembered' => reviewPassed
    BY <1>6 DEF Finalize
  <2>3. CASE reviewPassed
    <3>1. UNCHANGED completion
      BY <1>6, <2>3 DEF Finalize
    <3> QED
      BY <2>1, <2>2, <2>3, <3>1 DEF Reviews
  <2>4. CASE ~reviewPassed
    <3>1. options.graph => completion' \notin Complete
      <4>1. pc = "done"
        BY <2>1 DEF TypeOK
      <4>2. options.graph /\ completion \in Complete => Claimed
        BY <4>1 DEF Claims, Reviews, Claimed
      <4> QED
        BY <1>6, <2>4, <4>2 DEF Finalize, Complete
    <3> QED
      BY <2>1, <2>2, <2>4, <3>1 DEF Reviews
  <2> QED
    BY <2>3, <2>4
<1> QED
  BY <1>1, <1>2, <1>3, <1>4, <1>5, <1>6 DEF Next, Step

LEMMA Inductive == Spec => []IInv
<1>1. Init => IInv
  BY InitTyped, InitBooks DEF IInv
<1>2. IInv /\ [Next]_vars => IInv'
  BY StepTyped, StepBooks, StepClaims, StepReviews DEF IInv
<1> QED
  BY <1>1, <1>2, PTL DEF Spec

\* Whatever the model answers and asks for, in whatever order, an accepted TASK_COMPLETE
\* stands on mutations that were each validated after they were made, if the caller
\* demands validation, on at least one mutation if it demands that, and on the guard.
THEOREM ClaimsAreBacked == Spec => []ClaimIsBacked
<1>1. IInv => ClaimIsBacked
  BY DEF IInv, Books, Claims, ClaimIsBacked
<1> QED
  BY <1>1, Inductive, PTL

\* The graph returns, and remembers, as completed only what was claimed, reviewed, and
\* validated in its last execution.
THEOREM UnreviewedIsDowngraded == Spec => []ReviewedOrDowngraded
<1>1. ASSUME IInv, phase = "returned", options.graph, completion \in Complete \/ remembered
      PROVE  Claimed /\ reviewPassed /\ Backed(log)
  <2>1. reviewPassed /\ completion \in Complete /\ gen = validGen /\ options.signal
    BY <1>1 DEF IInv, Reviews
  <2>2. pc = "done"
    BY <1>1 DEF IInv, TypeOK
  <2> QED
    BY <1>1, <2>1, <2>2 DEF IInv, Books, Claims, Claimed
<1>2. IInv => ReviewedOrDowngraded
  BY <1>1 DEF ReviewedOrDowngraded
<1> QED
  BY <1>2, Inductive, PTL

----------------------------------------------------------------------------
(* Which calls are started, and beside which                               *)

StartedCalls == {c \in Call : started[c] > 0}

InTurn == pc \notin {"idle", "done"}

\* A batch is counted before it is awaited: its calls are new, exposed, all in the queue
\* until they are awaited, and within the budget.
Counted ==
  /\ StartedCalls \subseteq seen \cup batch
  /\ Cardinality(seen) = used /\ used + Cardinality(batch \ seen) <= MaxToolCalls
  /\ batch \cap hidden = {} /\ \A c \in batch : Kind[c] = "read"
  /\ batch \subseteq seen \cup Asked(queue)
  /\ batch # {} => Asked(queue) \subseteq batch

Starts ==
  /\ \A c \in Call : started[c] <= 1
  /\ Cardinality(StartedCalls) <= MaxToolCalls
  /\ InTurn => Counted
  /\ pc \in {"turn", "model", "guard"} => batch = {}
  /\ pc = "tool" => Head(queue) \in seen

\* Only an abort leaves a call running that nobody awaits, and only a read.
Running ==
  /\ \A c \in running : Kind[c] # "read" => running = {c} /\ pc = "tool" /\ c = Head(queue)
  /\ ~aborted => /\ ~InTurn => running = {}
                 /\ InTurn => running \subseteq (batch \ seen) \cup
                                                (IF pc = "tool" THEN {Head(queue)} ELSE {})

SInv == TypeOK /\ Starts /\ Running

LEMMA Typing ==
  ASSUME TypeOK
  PROVE  /\ queue \in Seq(Call) /\ seen \subseteq Call /\ batch \subseteq Call /\ running \subseteq Call
         /\ started \in [Call -> Nat] /\ used \in 0..MaxToolCalls
         /\ pc = "tool" => queue # <<>>
BY DEF TypeOK, LoopTypeOK, ControlTyped, TurnTyped, CallsTyped

LEMMA AskedHead ==
  ASSUME NEW q \in Seq(Call), q # <<>>
  PROVE  /\ Head(q) \in Asked(q) /\ Head(q) \in Call /\ Tail(q) \in Seq(Call)
         /\ Asked(q) \subseteq {Head(q)} \cup Asked(Tail(q)) /\ Asked(Tail(q)) \subseteq Asked(q)
<1>1. /\ Len(q) \in Nat \ {0} /\ Tail(q) \in Seq(Call) /\ Len(Tail(q)) = Len(q) - 1
      /\ \A k \in 1..(Len(q) - 1) : Tail(q)[k] = q[k + 1]
      /\ Head(q) = q[1] /\ q[1] \in Call
  OBVIOUS
<1>2. ASSUME NEW k \in 1..Len(q) PROVE q[k] \in {Head(q)} \cup Asked(Tail(q))
  <2>1. CASE k = 1
    BY <1>1, <2>1
  <2>2. CASE k # 1
    <3>1. k - 1 \in 1..(Len(q) - 1) /\ Tail(q)[k - 1] = q[k]
      BY <1>1, <2>2
    <3> QED
      BY <1>1, <3>1 DEF Asked
  <2> QED
    BY <2>1, <2>2
<1>3. ASSUME NEW k \in 1..Len(Tail(q)) PROVE Tail(q)[k] \in Asked(q)
  <2>1. k + 1 \in 1..Len(q) /\ Tail(q)[k] = q[k + 1]
    BY <1>1
  <2> QED
    BY <2>1 DEF Asked
<1> QED
  BY <1>1, <1>2, <1>3 DEF Asked

LEMMA Sizes ==
  ASSUME NEW S \in SUBSET Call, NEW T \in SUBSET Call
  PROVE  /\ IsFiniteSet(S) /\ Cardinality(S) \in Nat
         /\ S \subseteq T => Cardinality(S) <= Cardinality(T)
         /\ \A c \in Call : Cardinality(S \cup {c}) = IF c \in S THEN Cardinality(S) ELSE Cardinality(S) + 1
         /\ \A c \in Call : Cardinality(S \ {c}) = IF c \in S THEN Cardinality(S) - 1 ELSE Cardinality(S)
         /\ Cardinality(S) = 0 => S = {}
<1>1. IsFiniteSet(S) /\ IsFiniteSet(T)
  BY CallAssumption, FS_Subset
<1> QED
  BY <1>1, FS_Subset, FS_CardinalityType, FS_AddElement, FS_RemoveElement, FS_EmptySet

\* No more calls were started than counted.
LEMMA StartedWithinBudget ==
  ASSUME NEW S \in SUBSET Call, NEW B \in SUBSET Call, NEW T \in SUBSET Call, NEW n \in Nat,
         T \subseteq S \cup B, Cardinality(S) = n, n + Cardinality(B \ S) <= MaxToolCalls
  PROVE  Cardinality(T) <= MaxToolCalls
<1>1. IsFiniteSet(S) /\ IsFiniteSet(B) /\ S \cup B \in SUBSET Call /\ B \ S \in SUBSET Call
  BY Sizes
<1>2. Cardinality(S \cup B) = Cardinality(S) + Cardinality(B) - Cardinality(S \cap B)
  BY <1>1, FS_Union
<1>3. Cardinality(B \ S) = Cardinality(B) - Cardinality(B \cap S)
  BY <1>1, FS_Difference
<1>4. B \cap S = S \cap B
  OBVIOUS
<1>5. Cardinality(B \cap S) = Cardinality(S \cap B)
  BY <1>4, Zenon
<1>6. Cardinality(T) <= Cardinality(S \cup B) /\ Cardinality(T) \in Nat /\ Cardinality(S) \in Nat
      /\ Cardinality(B) \in Nat /\ Cardinality(S \cap B) \in Nat
  BY <1>1, Sizes
<1> QED
  BY <1>2, <1>3, <1>5, <1>6, BoundAssumption

LEMMA InitStarts == Init => SInv
<1> SUFFICES ASSUME Init PROVE SInv
  OBVIOUS
<1>1. pc = "idle" /\ running = {} /\ started = [c \in Call |-> 0]
  BY DEF Init, LoopInit
<1>2. StartedCalls = {}
  BY <1>1 DEF StartedCalls
<1>3. Cardinality(StartedCalls) = 0
  BY <1>2, FS_EmptySet, Zenon
<1> QED
  BY <1>1, <1>3, InitTyped, BoundAssumption DEF SInv, Starts, Running, InTurn

\* What one step does to the calls of a turn, given that the turn goes on.
LEMMA StartsWhileInTurn ==
  ASSUME TypeOK, TypeOK', Counted', \A c \in Call : started'[c] <= 1,
         pc' \in {"turn", "model", "guard"} => batch' = {}, pc' = "tool" => Head(queue)' \in seen'
  PROVE  Starts'
<1>1. /\ seen' \in SUBSET Call /\ batch' \in SUBSET Call /\ StartedCalls' \in SUBSET Call /\ used' \in Nat
      /\ StartedCalls' \subseteq seen' \cup batch' /\ Cardinality(seen') = used'
      /\ used' + Cardinality(batch' \ seen') <= MaxToolCalls
  BY DEF TypeOK, LoopTypeOK, TurnTyped, Counted, StartedCalls
<1>2. Cardinality(StartedCalls') <= MaxToolCalls
  BY <1>1, StartedWithinBudget
<1>3. Cardinality(StartedCalls)' <= MaxToolCalls
  BY <1>2
<1> QED
  BY <1>3 DEF Starts

\* The loop is left, or was not in it.
LEMMA StartsOutOfTurn ==
  ASSUME Starts, ~InTurn', UNCHANGED started
  PROVE  Starts'
BY DEF Starts, InTurn, StartedCalls

LEMMA BeginStarts ==
  ASSUME TypeOK, TypeOK', Running, pc = "idle", Begin, UNCHANGED <<aborted, running>>
  PROVE  Starts' /\ Running'
<1>1. /\ pc' = "turn" /\ used' = 0 /\ seen' = {} /\ queue' = <<>> /\ hidden' = {} /\ batch' = {}
      /\ started' = [c \in Call |-> 0]
  BY DEF Begin
<1>2. Counted'
  <2>1. StartedCalls' = {} /\ Asked(queue') \subseteq Call
    BY <1>1, Typing DEF StartedCalls, Asked
  <2>2. Cardinality(seen') = 0 /\ Cardinality(batch' \ seen') = 0
    <3>1. seen' = {} /\ batch' \ seen' = {}
      BY <1>1
    <3> QED
      BY <3>1, FS_EmptySet, Zenon
  <2> QED
    BY <1>1, <2>1, <2>2, BoundAssumption DEF Counted
<1>3. Starts'
  BY <1>1, <1>2, StartsWhileInTurn
<1>4. Running'
  BY <1>1 DEF Running, InTurn
<1> QED
  BY <1>3, <1>4

\* A step that touches none of it, but the phase.
LEMMA StartsKept ==
  ASSUME Starts, Running, UNCHANGED <<pc, queue, seen, hidden, batch, used, aborted, calls>>
  PROVE  Starts' /\ Running'
<1>1. Starts'
  BY DEF Starts, Counted, InTurn, StartedCalls, calls
<1>2. Running'
  BY DEF Running, InTurn, calls
<1> QED
  BY <1>1, <1>2

\* A step of the loop between its calls.
LEMMA StartsBetween ==
  ASSUME Starts, Running, UNCHANGED <<turn, calls, aborted>>,
         pc \in {"turn", "model", "guard"}, pc' \in {"turn", "model", "guard", "done"}
  PROVE  Starts' /\ Running'
<1>1. UNCHANGED <<queue, seen, hidden, batch, used, started, running>> /\ batch = {} /\ InTurn /\ Counted
  BY DEF turn, calls, Starts, InTurn
<1>2. Counted'
  BY <1>1 DEF Counted, StartedCalls
<1>3. Starts'
  BY <1>1, <1>2 DEF Starts, StartedCalls
<1>4. Running'
  BY <1>1 DEF Running, InTurn
<1> QED
  BY <1>3, <1>4

LEMMA RequestStarts ==
  ASSUME TypeOK, TypeOK', Starts, Running, NEW q \in Requests, NEW h \in SUBSET (Hidden \cap Asked(q)),
         Request(q, h), UNCHANGED aborted
  PROVE  Starts' /\ Running'
<1>1. /\ pc = "model" /\ pc' = "calls" /\ queue' = q /\ hidden' = h /\ UNCHANGED <<used, seen>>
      /\ batch' = (IF Batchable(q, h) THEN Asked(q) ELSE {}) /\ Launch(batch')
  BY DEF Request
<1>2. q \in Seq(Call) /\ Len(q) \in Nat /\ Asked(q) \subseteq Call
  BY RequestAssumption DEF Asked
<1>3. Counted /\ batch = {} /\ StartedCalls \subseteq seen
  BY <1>1 DEF Starts, Counted, InTurn
<1>4. \A c \in batch' : c \notin seen \cup h /\ Kind[c] = "read"
  BY <1>1 DEF Batchable
<1>5. batch' \subseteq Call /\ started \in [Call -> Nat]
  BY <1>1, <1>2, Typing
<1>6. \A c \in Call : started'[c] = IF c \in batch' THEN started[c] + 1 ELSE started[c]
  BY <1>1 DEF Launch
<1>7. \A c \in Call : started'[c] <= 1 /\ (started'[c] > 0 => c \in seen \cup batch')
  BY <1>3, <1>4, <1>5, <1>6 DEF StartedCalls, Starts
<1>8. used + Cardinality(batch' \ seen) <= MaxToolCalls
  <2>1. batch' \ seen = batch'
    BY <1>4
  <2>2. Cardinality(batch' \ seen) = Cardinality(batch')
    BY <2>1, Zenon
  <2>3. CASE Batchable(q, h)
    <3>1. batch' = Asked(q)
      BY <1>1, <2>3
    <3>2. Cardinality(batch') = Cardinality(Asked(q))
      BY <3>1, Zenon
    <3> QED
      BY <1>2, <2>2, <2>3, <3>2, Typing, BoundAssumption DEF Batchable
  <2>4. CASE ~Batchable(q, h)
    <3>1. batch' = {}
      BY <1>1, <2>4
    <3>2. Cardinality(batch') = 0
      BY <3>1, FS_EmptySet, Zenon
    <3> QED
      BY <2>2, <3>2, Typing, BoundAssumption
  <2> QED
    BY <2>3, <2>4
<1>9. Counted'
  <2>1. Cardinality(seen') = used'
    BY <1>1, <1>3 DEF Counted
  <2>2. used' + Cardinality(batch' \ seen') <= MaxToolCalls
    BY <1>1, <1>8
  <2>3. batch' \subseteq Asked(q) /\ (batch' # {} => Asked(q) \subseteq batch')
    BY <1>1
  <2>4. StartedCalls' \subseteq seen' \cup batch'
    BY <1>1, <1>7 DEF StartedCalls
  <2> QED
    BY <1>1, <1>4, <2>1, <2>2, <2>3, <2>4 DEF Counted, Asked
<1>10. Starts'
  BY <1>1, <1>7, <1>9, StartsWhileInTurn
<1>11. Running'
  <2>1. running' = running \cup batch'
    BY <1>1 DEF Launch
  <2>2. \A c \in running : Kind[c] = "read"
    BY <1>1 DEF Running
  <2>3. ~aborted => running = {}
    BY <1>1, <1>3 DEF Running, InTurn
  <2> QED
    BY <1>1, <1>4, <2>1, <2>2, <2>3 DEF Running, InTurn
<1> QED
  BY <1>10, <1>11

LEMMA RejectStarts ==
  ASSUME TypeOK, TypeOK', Starts, Running, NEW c \in Call, RejectUnknown(c) \/ RejectDuplicate(c),
         UNCHANGED <<calls, aborted>>
  PROVE  Starts' /\ Running'
<1>1. /\ pc = "calls" /\ pc' = "calls" /\ queue # <<>> /\ c = Head(queue) /\ queue' = Tail(queue)
      /\ UNCHANGED <<used, seen, hidden, batch, started, running>> /\ (c \in hidden \/ c \in seen)
  BY DEF RejectUnknown, RejectDuplicate, Reject, Considers, calls
<1>2. Asked(queue) \subseteq {c} \cup Asked(queue') /\ Asked(queue') \subseteq Asked(queue)
  BY <1>1, AskedHead, Typing
<1>3. Counted
  BY <1>1 DEF Starts, InTurn
<1>4. Counted'
  BY <1>1, <1>2, <1>3 DEF Counted, StartedCalls, Asked
<1>5. Starts'
  BY <1>1, <1>4, StartsWhileInTurn DEF Starts
<1>6. Running'
  BY <1>1 DEF Running, InTurn
<1> QED
  BY <1>5, <1>6

LEMMA ExecuteStarts ==
  ASSUME TypeOK, TypeOK', Starts, Running, NEW c \in Call, Execute(c), UNCHANGED aborted
  PROVE  Starts' /\ Running'
<1>1. /\ pc = "calls" /\ queue # <<>> /\ c = Head(queue) /\ ~aborted /\ used < MaxToolCalls
      /\ c \notin hidden /\ c \notin seen
      /\ pc' = "tool" /\ seen' = seen \cup {c} /\ used' = used + 1 /\ UNCHANGED <<queue, hidden, batch>>
      /\ Launch({c} \ batch)
  BY DEF Execute, Considers
<1>2. Counted /\ c \in Asked(queue) /\ seen \subseteq Call /\ batch \subseteq Call /\ used \in Nat
  BY <1>1, AskedHead, Typing DEF Starts, InTurn
<1>3. batch = {} \/ c \in batch
  BY <1>2 DEF Counted
<1>4. \A d \in Call : started'[d] = IF d \in {c} \ batch THEN started[d] + 1 ELSE started[d]
  BY <1>1 DEF Launch
<1>5. \A d \in Call : started'[d] <= 1 /\ (started'[d] > 0 => d \in seen' \cup batch)
  BY <1>1, <1>2, <1>4, Typing DEF Counted, StartedCalls, Starts
<1>6. Cardinality(seen') = used'
  <2>1. Cardinality(seen \cup {c}) = Cardinality(seen) + 1
    BY <1>1, <1>2, Sizes
  <2>2. Cardinality(seen') = Cardinality(seen \cup {c})
    BY <1>1, Zenon
  <2> QED
    BY <1>1, <1>2, <2>1, <2>2 DEF Counted
<1>7. used' + Cardinality(batch' \ seen') <= MaxToolCalls
  <2>1. batch' \ seen' = (batch \ seen) \ {c}
    BY <1>1
  <2>2. Cardinality(batch' \ seen') = Cardinality((batch \ seen) \ {c})
    BY <2>1, Zenon
  <2>3. /\ Cardinality(batch \ seen) \in Nat
        /\ Cardinality((batch \ seen) \ {c}) = IF c \in batch \ seen THEN Cardinality(batch \ seen) - 1
                                                                   ELSE Cardinality(batch \ seen)
    <3>1. batch \ seen \in SUBSET Call
      BY <1>2
    <3> QED
      BY <3>1, Sizes
  <2>4. CASE c \in batch
    BY <1>1, <1>2, <2>2, <2>3, <2>4, BoundAssumption DEF Counted
  <2>5. CASE batch = {}
    <3>1. batch' \ seen' = {}
      BY <1>1, <2>5
    <3>2. Cardinality(batch' \ seen') = 0
      BY <3>1, FS_EmptySet, Zenon
    <3> QED
      BY <1>1, <1>2, <3>2, BoundAssumption
  <2> QED
    BY <1>3, <2>4, <2>5
<1>8. Counted'
  <2>1. StartedCalls' \subseteq seen' \cup batch'
    BY <1>1, <1>5 DEF StartedCalls
  <2> QED
    BY <1>1, <1>2, <1>6, <1>7, <2>1 DEF Counted, Asked
<1>9. Starts'
  BY <1>1, <1>5, <1>8, StartsWhileInTurn
<1>10. Running'
  <2>1. running' = running \cup ({c} \ batch)
    BY <1>1 DEF Launch
  <2>2. running \subseteq batch \ seen
    BY <1>1 DEF Running, InTurn
  <2>3. CASE c \in batch
    BY <1>1, <1>2, <2>1, <2>2, <2>3 DEF Running, InTurn, Counted
  <2>4. CASE batch = {}
    BY <1>1, <2>1, <2>2, <2>4 DEF Running, InTurn
  <2> QED
    BY <1>3, <2>3, <2>4
<1> QED
  BY <1>9, <1>10

LEMMA ReturnStarts ==
  ASSUME TypeOK, TypeOK', Starts, Running, NEW c \in Call, NEW ok \in BOOLEAN, Returns(c, ok),
         UNCHANGED aborted
  PROVE  Starts' /\ Running'
<1>1. /\ pc = "tool" /\ c = Head(queue) /\ pc' = "calls" /\ queue' = Tail(queue)
      /\ running' = running \ {c} /\ UNCHANGED <<used, seen, hidden, batch, started>>
  BY DEF Returns
<1>2. queue # <<>> /\ c \in seen /\ Counted
  BY <1>1, Typing DEF Starts, InTurn
<1>3. Asked(queue) \subseteq {c} \cup Asked(queue') /\ Asked(queue') \subseteq Asked(queue)
  BY <1>1, <1>2, AskedHead, Typing
<1>4. Counted'
  BY <1>1, <1>2, <1>3 DEF Counted, StartedCalls, Asked
<1>5. Starts'
  BY <1>1, <1>4, StartsWhileInTurn DEF Starts
<1>6. Running'
  BY <1>1, <1>2 DEF Running, InTurn
<1> QED
  BY <1>5, <1>6

\* The calls of a turn are given up, or all dealt with.
LEMMA TurnLeft ==
  ASSUME TypeOK, TypeOK', Starts, Running, UNCHANGED <<calls, aborted>>,
         CancelCalls \/ SpendBudget \/ TurnEnds
  PROVE  Starts' /\ Running'
<1>1. pc = "calls" /\ Counted /\ UNCHANGED <<started, running, used, seen, queue>>
  BY DEF CancelCalls, SpendBudget, TurnEnds, turn, calls, Starts, InTurn
<1>2. ~aborted => batch \subseteq seen
  <2>1. CASE CancelCalls
    BY <2>1 DEF CancelCalls
  <2>2. CASE SpendBudget
    <3>1. used >= MaxToolCalls /\ batch \ seen \in SUBSET Call /\ used \in Nat
      BY <2>2, Typing DEF SpendBudget
    <3>2. Cardinality(batch \ seen) = 0
      BY <1>1, <3>1, Sizes, BoundAssumption DEF Counted
    <3>3. batch \ seen = {}
      BY <3>1, <3>2, Sizes
    <3> QED
      BY <3>3
  <2>3. CASE TurnEnds
    <3>1. Asked(queue) = {}
      BY <2>3 DEF TurnEnds, Asked
    <3> QED
      BY <1>1, <3>1 DEF Counted
  <2> QED
    BY <2>1, <2>2, <2>3
<1>3. ~aborted => running = {}
  BY <1>1, <1>2 DEF Running, InTurn
<1>4. \A c \in running : Kind[c] = "read"
  BY <1>1 DEF Running
<1>5. Running'
  BY <1>1, <1>3, <1>4 DEF Running
<1>6. CASE pc' = "done"
  BY <1>1, <1>5, <1>6, StartsOutOfTurn DEF InTurn
<1>7. CASE TurnEnds /\ pc' = "turn"
  <2>1. queue = <<>> /\ batch' = {} /\ hidden' = {}
    BY <1>7, Zenon DEF TurnEnds
  <2>2. Asked(queue) = {}
    BY <2>1 DEF Asked
  <2>3. Cardinality(batch' \ seen') = 0
    <3>1. batch' \ seen' = {}
      BY <2>1
    <3> QED
      BY <3>1, FS_EmptySet, Zenon
  <2>4. StartedCalls' \subseteq seen'
    BY <1>1, <2>2 DEF Counted, StartedCalls
  <2>5. Cardinality(seen') = used' /\ used' \in 0..MaxToolCalls
    BY <1>1, Typing DEF Counted
  <2>6. Counted'
    BY <1>1, <2>1, <2>2, <2>3, <2>4, <2>5, BoundAssumption DEF Counted
  <2>7. \A c \in Call : started'[c] <= 1
    BY <1>1 DEF Starts
  <2> QED
    BY <1>5, <1>7, <2>1, <2>6, <2>7, StartsWhileInTurn
<1>8. pc' \in {"turn", "done"}
  BY Zenon DEF CancelCalls, SpendBudget, TurnEnds, Exit
<1> QED
  BY <1>5, <1>6, <1>7, <1>8 DEF CancelCalls, SpendBudget, Exit

LEMMA StepStarts == TypeOK /\ TypeOK' /\ Starts /\ Running /\ [Next]_vars => Starts' /\ Running'
<1> SUFFICES ASSUME TypeOK, TypeOK', Starts, Running, [Next]_vars PROVE Starts' /\ Running'
  OBVIOUS
<1>1. CASE Bootstrap \/ Refused \/ Direct \/ ReviewPasses \/ UNCHANGED vars
  BY <1>1, StartsKept DEF Bootstrap, Refused, Direct, ReviewPasses, vars, loop, turn
<1>2. CASE Execution
  <2>1. pc = "idle"
    BY <1>2 DEF Execution, Begin
  <2> QED
    BY <1>2, <2>1, BeginStarts DEF Execution
<1>3. CASE ReviewFixes
  <2>1. pc = "done" /\ UNCHANGED <<started, running, aborted>>
    BY <1>3 DEF ReviewFixes, calls
  <2>2. pc' \in {"idle", "done"}
    BY <1>3, <2>1 DEF ReviewFixes, Again, loop
  <2>3. Starts'
    BY <2>1, <2>2, StartsOutOfTurn DEF InTurn
  <2> QED
    BY <2>1, <2>2, <2>3 DEF Running, InTurn
<1>4. CASE Finalize
  BY <1>4, StartsKept DEF Finalize, turn
<1>5. CASE Leaves
  <2>1. /\ UNCHANGED <<pc, queue, seen, hidden, batch, used, started, running>> /\ aborted'
    BY <1>5 DEF Leaves, Abort, loop, turn, calls
  <2>2. Starts'
    BY <2>1 DEF Starts, Counted, InTurn, StartedCalls
  <2> QED
    BY <2>1, <2>2 DEF Running, InTurn
<1>6. CASE Orphans
  <2>1. PICK c \in Call : Settle(c)
    BY <1>6 DEF Orphans
  <2>2. UNCHANGED <<pc, queue, seen, hidden, batch, used, started, aborted>> /\ running' = running \ {c}
    BY <1>6, <2>1 DEF Orphans, Settle, loop, turn
  <2>3. Starts'
    BY <2>2 DEF Starts, Counted, InTurn, StartedCalls
  <2>4. \A d \in running' : Kind[d] # "read" => running' = {d}
    BY <2>1, <2>2 DEF Running, Settle
  <2> QED
    BY <2>2, <2>3, <2>4 DEF Running, InTurn
<1>7. CASE InLoop
  <2>1. LoopStep /\ UNCHANGED aborted
    BY <1>7 DEF InLoop
  <2>2. ASSUME UNCHANGED calls,
               \/ OutOfTurns \/ CancelTurn \/ Turn \/ ProviderFails \/ Propose \/ GuardAccepts \/ GuardRefuses
        PROVE  Starts' /\ Running'
    <3>1. UNCHANGED turn /\ pc \in {"turn", "model", "guard"}
      BY <2>2 DEF OutOfTurns, CancelTurn, Turn, ProviderFails, Propose, GuardAccepts, GuardRefuses
    <3>2. pc' \in {"turn", "model", "guard", "done"}
      <4>1. CASE Propose
        BY <4>1 DEF Propose, AskForEvidence, AskForAlignment, Wait, Block, AskForMutation, AskForValidation,
          AskForSignal, AskGuard, Accept, Accepted, Ask, GiveUp, Exit
      <4> QED
        BY <2>2, <4>1
        DEF OutOfTurns, CancelTurn, Turn, ProviderFails, GuardAccepts, GuardRefuses, Accepted, Ask, GiveUp, Exit
    <3> QED
      BY <2>1, <2>2, <3>1, <3>2, StartsBetween
  <2>3. ASSUME UNCHANGED calls, CancelCalls \/ SpendBudget \/ TurnEnds PROVE Starts' /\ Running'
    BY <2>1, <2>3, TurnLeft
  <2>4. ASSUME NEW c \in Call, RejectUnknown(c) \/ RejectDuplicate(c), UNCHANGED calls
        PROVE  Starts' /\ Running'
    BY <2>1, <2>4, RejectStarts
  <2>5. ASSUME NEW q \in Requests, NEW h \in SUBSET (Hidden \cap Asked(q)), Request(q, h)
        PROVE  Starts' /\ Running'
    BY <2>1, <2>5, RequestStarts
  <2>6. ASSUME NEW c \in Call, Execute(c) PROVE Starts' /\ Running'
    BY <2>1, <2>6, ExecuteStarts
  <2>7. ASSUME NEW c \in Call,
               \/ \E ok \in BOOLEAN : OtherReturns(c, ok) \/ CheckFails(c, ok)
               \/ MutationFails(c) \/ MutationSucceeds(c)
               \/ \E hashed \in SUBSET Artifact : CheckPasses(c, hashed)
        PROVE  Starts' /\ Running'
    <3>1. PICK ok \in BOOLEAN : Returns(c, ok)
      BY <2>7 DEF OtherReturns, CheckFails, MutationFails, MutationSucceeds, CheckPasses
    <3> QED
      BY <2>1, <3>1, ReturnStarts
  <2> QED
    BY <2>1, <2>2, <2>3, <2>4, <2>5, <2>6, <2>7 DEF LoopStep
<1> QED
  BY <1>1, <1>2, <1>3, <1>4, <1>5, <1>6, <1>7 DEF Next, Step

LEMMA StartsInductive == Spec => []SInv
<1>1. Init => SInv
  BY InitStarts
<1>2. SInv /\ [Next]_vars => SInv'
  BY StepTyped, StepStarts DEF SInv
<1> QED
  BY <1>1, <1>2, PTL DEF Spec

\* For every budget and every sequence of calls asked for: no call is started twice in an
\* execution, and no more are started than the budget allows.
THEOREM BudgetsAreKept == Spec => []BudgetsHold
<1>1. SInv => BudgetsHold
  BY DEF SInv, Starts, StartedCalls, BudgetsHold
<1> QED
  BY <1>1, StartsInductive, PTL

\* Whatever is aborted, rejected or given up, a tool with effects has the run to itself.
THEOREM NoOverlap == Spec => []EffectsRunAlone
<1>1. SInv => EffectsRunAlone
  BY DEF SInv, Running, EffectsRunAlone
<1> QED
  BY <1>1, StartsInductive, PTL

\* Once the signal is aborted no tool with effects is started, be the abort seen before a
\* turn, before a call or never again.
THEOREM AbortIsFinal == Spec => NoEffectAfterAbort
<1>1. SInv /\ [Next]_vars => [aborted => \A c \in Call : Kind[c] # "read" => started'[c] <= started[c]]_vars
  <2> SUFFICES ASSUME SInv, Next, aborted, NEW c \in Call, Kind[c] # "read"
               PROVE  started'[c] <= started[c]
    BY DEF vars
  <2>1. started[c] \in Nat
    BY Typing DEF SInv
  <2>2. CASE started'[c] = started[c] \/ started'[c] = 0
    BY <2>1, <2>2
  <2>3. CASE Execution
    BY <2>2, <2>3 DEF Execution, Begin
  <2>4. CASE UNCHANGED calls
    BY <2>2, <2>4 DEF calls
  <2>5. CASE InLoop
    <3>1. ASSUME NEW q \in Requests, NEW h \in SUBSET (Hidden \cap Asked(q)), Request(q, h)
          PROVE  started'[c] = started[c]
      <4>1. c \notin batch'
        BY <3>1 DEF Request, Batchable
      <4> QED
        BY <3>1, <4>1 DEF Request, Launch
    <3>2. ASSUME NEW d \in Call, Execute(d) PROVE FALSE
      BY <3>2 DEF Execute, Considers
    <3>3. ASSUME NEW d \in Call, NEW ok \in BOOLEAN, Returns(d, ok) PROVE started'[c] = started[c]
      BY <3>3 DEF Returns
    <3> QED
      BY <2>2, <2>4, <2>5, <3>1, <3>2, <3>3
      DEF InLoop, LoopStep, OtherReturns, CheckFails, MutationFails, MutationSucceeds, CheckPasses
  <2>6. CASE Orphans
    BY <2>2, <2>6 DEF Orphans, Settle
  <2> QED
    BY <2>3, <2>4, <2>5, <2>6
    DEF Next, Step, Bootstrap, Refused, Direct, ReviewFixes, ReviewPasses, Finalize, Leaves
<1> QED
  BY <1>1, StartsInductive, PTL DEF Spec, NoEffectAfterAbort

----------------------------------------------------------------------------
(* A run accounts for what it did                                          *)
(*                                                                         *)
(* The loop in its graph implements AccountableRun, which knows of no      *)
(* counter, gate or batch.                                                 *)

\* The effect under way is the one that is awaited; only the graph finalises.
Held ==
  /\ pc = "tool" /\ Kind[Head(queue)] # "read" => Head(queue) \in running
  /\ phase = "finalize" => options.graph

LEMMA StepHeld == SInv /\ Held /\ [Next]_vars => Held'
<1> SUFFICES ASSUME SInv, Held, [Next]_vars PROVE Held'
  OBVIOUS
<1>1. ASSUME pc' # "tool", phase' = "finalize" => phase = "finalize" \/ options.graph, UNCHANGED options
      PROVE  Held'
  BY <1>1 DEF Held
<1>2. CASE Bootstrap \/ Refused \/ Direct \/ ReviewPasses \/ Leaves \/ UNCHANGED vars
  <2>1. UNCHANGED <<options, pc, queue, running>> /\ (phase' = "finalize" => phase = "finalize" \/ options.graph)
    BY <1>2 DEF Bootstrap, Refused, Direct, ReviewPasses, Leaves, vars, run, loop, turn, calls
  <2> QED
    BY <2>1 DEF Held
<1>3. CASE Execution
  <2>1. pc' = "turn" /\ UNCHANGED phase /\ phase = "execute"
    BY <1>3 DEF Execution, Begin, run
  <2> QED
    BY <2>1 DEF Held
<1>4. CASE ReviewFixes
  <2>1. pc' # "tool" /\ options.graph /\ UNCHANGED options
    BY <1>4 DEF ReviewFixes, Again, loop
  <2> QED
    BY <1>1, <2>1
<1>5. CASE Finalize
  <2>1. pc' = pc /\ phase' = "returned" /\ UNCHANGED <<queue, running>>
    BY <1>5 DEF Finalize, turn, calls
  <2> QED
    BY <2>1 DEF Held
<1>6. CASE Orphans
  <2>1. PICK c \in Call : Settle(c) /\ UNCHANGED <<options, loop, run>>
    BY <1>6 DEF Orphans
  <2> QED
    BY <2>1 DEF Settle, Held, loop, turn, run
<1>7. CASE InLoop
  <2>1. LoopStep /\ UNCHANGED <<phase, options>>
    BY <1>7 DEF InLoop, run
  <2>2. ASSUME NEW c \in Call, Execute(c) PROVE Held'
    <3>1. /\ Considers(c) /\ UNCHANGED queue /\ Launch({c} \ batch)
      BY <2>2 DEF Execute
    <3>2. c = Head(queue) /\ pc = "calls"
      BY <3>1 DEF Considers
    <3>3. Kind[c] # "read" => c \notin batch
      BY <3>2 DEF SInv, Starts, InTurn, Counted
    <3> QED
      BY <2>1, <3>1, <3>2, <3>3 DEF Held, Launch
  <2>3. ASSUME \A c \in Call : ~Execute(c) PROVE pc' # "tool"
    <3>1. CASE Propose
      BY <3>1 DEF Propose, AskForEvidence, AskForAlignment, Wait, Block, AskForMutation, AskForValidation,
        AskForSignal, AskGuard, Accept, Accepted, Ask, GiveUp, Exit
    <3>2. ASSUME NEW c \in Call, NEW ok \in BOOLEAN, Returns(c, ok) PROVE pc' # "tool"
      BY <3>2 DEF Returns
    <3>3. ASSUME NEW c \in Call, RejectUnknown(c) \/ RejectDuplicate(c) PROVE pc' # "tool"
      BY <3>3 DEF RejectUnknown, RejectDuplicate, Reject, Considers
    <3>4. ASSUME NEW q \in Requests, NEW h \in SUBSET (Hidden \cap Asked(q)), Request(q, h) PROVE pc' # "tool"
      BY <3>4 DEF Request
    <3>5. CASE OutOfTurns \/ CancelTurn \/ Turn \/ ProviderFails \/ GuardAccepts \/ GuardRefuses
               \/ CancelCalls \/ SpendBudget \/ TurnEnds
      BY <3>5
      DEF OutOfTurns, CancelTurn, Turn, ProviderFails, GuardAccepts, GuardRefuses, CancelCalls,
          SpendBudget, TurnEnds, Accepted, Ask, GiveUp, Exit
    <3> QED
      BY <2>1, <2>3, <3>1, <3>2, <3>3, <3>4, <3>5
      DEF LoopStep, OtherReturns, CheckFails, MutationFails, MutationSucceeds, CheckPasses
  <2> QED
    BY <1>1, <2>1, <2>2, <2>3
<1> QED
  BY <1>2, <1>3, <1>4, <1>5, <1>6, <1>7 DEF Next, Step

EffectAwaited == pc = "tool" /\ Kind[Head(queue)] # "read"

ActingOne == Acting = IF EffectAwaited THEN {Head(queue)} ELSE {}

LEMMA ActingIs == SInv /\ Held => ActingOne
<1> SUFFICES ASSUME SInv, Held PROVE ActingOne
  OBVIOUS
<1>1. running \subseteq Call /\ \A c \in running : Kind[c] \in Kinds
  BY Typing, CallAssumption DEF SInv
<1>2. \A c \in running : Kind[c] # "read" => EffectAwaited /\ c = Head(queue)
  BY DEF SInv, Running, EffectAwaited
<1>3. \A c : c \in Acting <=> c \in running /\ Kind[c] # "read"
  BY <1>1 DEF Acting, Effects
<1> QED
  BY <1>2, <1>3 DEF Held, ActingOne, EffectAwaited

LEMMA ActingNext == (SInv /\ Held)' => ActingOne'
BY ActingIs, PTL

\* A mutation opens what it changed, and answers for nothing.
LEMMA MutationOpens ==
  ASSUME TypeOK, NEW e \in Entry, log' = Append(log, e), Kind[e.call] \in Mutation
  PROVE  Unbacked(log)' = Unbacked(log) \cup {e.call} /\ Mutated(log)'
<1> DEFINE n == Len(log) + 1
<1>1. /\ DOMAIN log' = DOMAIN log \cup {n} /\ n \notin DOMAIN log /\ log'[n] = e
      /\ \A k \in DOMAIN log : log'[k] = log[k] /\ k < n
      /\ \A k \in DOMAIN log' : ~(k > n)
      /\ Kind[e.call] \in {"write", "make"} /\ e.call \in Call
  <2>1. Len(log) \in Nat /\ \A k \in DOMAIN log : k \in Nat
    BY Appended DEF TypeOK, LoopTypeOK, ChecksTyped
  <2>2. n \in Nat /\ ~(n > n)
    BY <2>1
  <2> QED
    BY <2>1, <2>2, Appended DEF Mutation, Entry
<1>2. Unanswered(log', n)
  BY <1>1 DEF Unanswered
<1>3. ASSUME NEW k \in DOMAIN log PROVE Unanswered(log', k) <=> Unanswered(log, k)
  <2> DEFINE Before(K) == {j \in DOMAIN log : j > k /\ Kind[log[j].call] \in K}
             After(K)  == {j \in DOMAIN log' : j > k /\ Kind[log'[j].call] \in K}
  <2>1. ASSUME NEW K, K \cap Mutation = {} PROVE After(K) = Before(K)
    BY <1>1, <2>1 DEF Mutation
  <2>2. {"test"} \cap Mutation = {} /\ Check \cap Mutation = {} /\ {"inspect"} \cap Mutation = {}
    BY DEF Mutation, Check
  <2>3. /\ After({"test"}) = Before({"test"}) /\ After(Check) = Before(Check)
        /\ After({"inspect"}) = Before({"inspect"})
    BY <2>1, <2>2
  <2>4. \A j \in Before({"inspect"}) : log'[j] = log[j]
    BY <1>1
  <2>5. log'[k] = log[k]
    BY <1>1
  <2>6. Unanswered(log, k) <=>
          \/ Kind[log[k].call] = "write" /\ Before({"test"}) = {}
          \/ /\ Kind[log[k].call] = "make"
             /\ \/ Before(Check) = {}
                \/ \E a \in Paths[log[k].call] : \A j \in Before({"inspect"}) : a \notin log[j].hashed
    BY DEF Unanswered
  <2>7. Unanswered(log', k) <=>
          \/ Kind[log'[k].call] = "write" /\ After({"test"}) = {}
          \/ /\ Kind[log'[k].call] = "make"
             /\ \/ After(Check) = {}
                \/ \E a \in Paths[log'[k].call] : \A j \in After({"inspect"}) : a \notin log'[j].hashed
    BY DEF Unanswered
  <2> HIDE DEF Before, After
  <2> QED
    BY <2>3, <2>4, <2>5, <2>6, <2>7
<1>4. Unbacked(log)' = {c \in Call : \E k \in DOMAIN log' : log'[k].call = c /\ Unanswered(log', k)}
  BY DEF Unbacked, Unanswered
<1>5. Mutated(log)'
  BY <1>1 DEF Mutated, Mutation
<1> QED
  BY <1>1, <1>2, <1>3, <1>4, <1>5 DEF Unbacked

\* A passed check may answer for what was open, and opens nothing.
LEMMA CheckCloses ==
  ASSUME TypeOK, NEW e \in Entry, log' = Append(log, e), Kind[e.call] \in Check
  PROVE  Unbacked(log)' \subseteq Unbacked(log) /\ (Mutated(log)' <=> Mutated(log))
<1> DEFINE n == Len(log) + 1
<1>1. /\ DOMAIN log' = DOMAIN log \cup {n} /\ n \notin DOMAIN log /\ log'[n] = e
      /\ \A k \in DOMAIN log : log'[k] = log[k]
      /\ Kind[e.call] \notin {"write", "make"}
  BY Appended DEF Check
<1>2. ~Unanswered(log', n)
  BY <1>1 DEF Unanswered
<1>3. ASSUME NEW k \in DOMAIN log, Unanswered(log', k) PROVE Unanswered(log, k)
  <2>1. \A K : {j \in DOMAIN log : j > k /\ Kind[log[j].call] \in K}
                 \subseteq {j \in DOMAIN log' : j > k /\ Kind[log'[j].call] \in K}
    BY <1>1
  <2> QED
    BY <1>1, <1>3, <2>1 DEF Unanswered
<1>4. Unbacked(log)' = {c \in Call : \E k \in DOMAIN log' : log'[k].call = c /\ Unanswered(log', k)}
  BY DEF Unbacked, Unanswered
<1>5. Mutated(log)' <=> Mutated(log)
  BY <1>1 DEF Mutated, Mutation
<1> QED
  BY <1>1, <1>2, <1>3, <1>4, <1>5 DEF Unbacked

LEMMA NothingOpen ==
  ASSUME TypeOK, Backed(log)
  PROVE  Unbacked(log) = {}
BY DEF Backed, Unbacked

----------------------------------------------------------------------------
\* What a step of the loop cannot touch.
Frame == UNCHANGED <<options, aborted, cycle, reviewPassed, remembered>>

AccInv == IInv /\ SInv /\ Held

LEMMA AccountKept ==
  ASSUME UNCHANGED <<phase, pc, options, aborted, log, approved, cycle, reviewPassed, remembered>>,
         Acting' = Acting, UNCHANGED <<completion, answer>>
  PROVE  UNCHANGED Account!vars
<1>1. UNCHANGED <<StageOf, Demanded, Said, Revised>>
  BY DEF StageOf, Demanded, Said, Revised
<1>2. Unbacked(log)' = Unbacked(log) /\ Mutated(log)' = Mutated(log)
  BY DEF Unbacked, Unanswered, Mutated
<1> QED
  BY <1>1, <1>2 DEF Account!vars, Account!work

\* The stage of a run, and what it has said, by the phase of the graph and the loop's pc.
Stages ==
  /\ phase = "execute" /\ InTurn => StageOf = "working" /\ Said = "nothing"
  /\ phase = "execute" /\ pc = "done" => StageOf = "concluded"
  /\ phase \in {"bootstrap", "execute"} /\ pc = "idle" => StageOf = "ready" /\ Said = "nothing"
  /\ phase = "finalize" => StageOf = "reviewed"
  /\ phase \in Settled => StageOf = phase

LEMMA StageIs == Stages
BY DEF Stages, StageOf, Said, InTurn, Settled

LEMMA StageNext == Stages'
BY StageIs, PTL

\* The loop goes on, and touches nothing that is accounted for.
LEMMA LoopGoesOn ==
  ASSUME TypeOK, TypeOK', Frame, UNCHANGED <<phase, log, approved>>, phase = "execute",
         InTurn, InTurn', Acting' = Acting
  PROVE  UNCHANGED Account!vars
<1>1. UNCHANGED <<StageOf, Said>>
  BY StageIs, StageNext DEF Stages
<1>2. UNCHANGED <<Demanded, Revised>>
  BY DEF Demanded, Revised, Frame
<1>3. Unbacked(log)' = Unbacked(log) /\ Mutated(log)' = Mutated(log)
  BY DEF Unbacked, Unanswered, Mutated
<1> QED
  BY <1>1, <1>2, <1>3 DEF Account!vars, Account!work, Frame

\* The loop ends, with something that it may say.
LEMMA LoopConcludes ==
  ASSUME TypeOK, TypeOK', Frame, UNCHANGED <<phase, log>>, phase = "execute",
         InTurn, pc' = "done", Acting = {}, Acting' = {}, approved' \in {approved, TRUE},
         Said' \in {"verified", "complete", "answered", "stopped"}, Account!MaySay(Said')
  PROVE  Account!Conclude
<1>1. StageOf = "working" /\ StageOf' = "concluded"
  BY StageIs, StageNext DEF Stages
<1>2. UNCHANGED <<Demanded, Revised>>
  BY DEF Demanded, Revised, Frame
<1>3. Unbacked(log)' = Unbacked(log) /\ Mutated(log)' = Mutated(log)
  BY DEF Unbacked, Unanswered, Mutated
<1> QED
  BY <1>1, <1>2, <1>3 DEF Account!Conclude, Account!work, Account!Claim, Frame

LEMMA SaidStopped ==
  ASSUME NEW reason, NEW state, NEW text, Exit(reason, state, text), state \notin Complete
  PROVE  Said' = "stopped" /\ Account!MaySay(Said')
<1>1. completion' \notin Complete /\ pc' = "done"
  BY DEF Exit, Complete
<1>2. Said' = "stopped"
  BY <1>1 DEF Said, Complete
<1> QED
  BY <1>2 DEF Account!MaySay

LEMMA SaidAccepted ==
  ASSUME TypeOK, Books, NEW c \in Content, Accepted(c), UNCHANGED <<options, aborted, gen, validGen, log>>,
         c = "plain" => ~options.signal, c \in {"plain", "complete"},
         c = "complete" => /\ options.guard => approved'
                           /\ options.validate => gen = validGen
                           /\ options.mutate => gen > 0
  PROVE  Said' \in {"verified", "complete", "answered", "stopped"} /\ Account!MaySay(Said')
<1>1. /\ pc' = "done" /\ answer' = c
      /\ aborted => completion' = "CANCELLED"
      /\ ~aborted => completion' = IF c = "complete" /\ validGen = gen /\ gen > 0
                                   THEN "VERIFICATION_COMPLETE" ELSE "GOAL_COMPLETE"
  BY DEF Accepted, Exit
<1>2. /\ "validate" \in Demanded <=> options.validate
      /\ "mutate" \in Demanded <=> options.mutate
      /\ "guard" \in Demanded <=> options.guard
      /\ "signal" \in Demanded <=> options.signal
  BY DEF Demanded
<1>3. (gen = validGen => Unbacked(log) = {}) /\ (gen > 0 => Mutated(log))
  BY NothingOpen DEF Books
<1>4. CASE aborted
  <2>1. Said' = "stopped"
    BY <1>1, <1>4 DEF Said, Complete
  <2> QED
    BY <2>1 DEF Account!MaySay
<1>5. CASE ~aborted /\ c = "plain"
  <2>1. Said' = "answered"
    BY <1>1, <1>5 DEF Said, Complete
  <2> QED
    BY <1>2, <1>5, <2>1 DEF Account!MaySay
<1>6. CASE ~aborted /\ c = "complete" /\ validGen = gen /\ gen > 0
  <2>1. Said' = "verified"
    BY <1>1, <1>6 DEF Said, Complete
  <2> QED
    BY <1>2, <1>3, <1>6, <2>1 DEF Account!MaySay
<1>7. CASE ~aborted /\ c = "complete" /\ ~(validGen = gen /\ gen > 0)
  <2>1. Said' = "complete"
    BY <1>1, <1>7 DEF Said, Complete
  <2> QED
    BY <1>2, <1>3, <1>7, <2>1 DEF Account!MaySay
<1> QED
  BY <1>4, <1>5, <1>6, <1>7

LEMMA ExecuteActs ==
  ASSUME AccInv, AccInv', NEW c \in Call, Execute(c), Frame, UNCHANGED phase, phase = "execute"
  PROVE  Account!Next \/ UNCHANGED Account!vars
<1>1. /\ Considers(c) /\ pc' = "tool" /\ UNCHANGED <<queue, log, approved>> /\ Launch({c} \ batch)
  BY DEF Execute, checks, result
<1>2. pc = "calls" /\ c = Head(queue) /\ ~aborted /\ InTurn /\ InTurn'
  BY <1>1 DEF Considers, InTurn
<1>3. Acting = {}
  BY <1>2, ActingIs, ActingNext DEF AccInv, ActingOne, EffectAwaited
<1>4. CASE Kind[c] = "read"
  <2>1. Acting' = {}
    BY <1>1, <1>2, <1>4, ActingIs, ActingNext DEF AccInv, ActingOne, EffectAwaited
  <2> QED
    BY <1>1, <1>2, <1>3, <2>1, LoopGoesOn DEF AccInv, IInv
<1>5. CASE Kind[c] # "read"
  <2>1. Acting' = {c}
    BY <1>1, <1>2, <1>5, ActingIs, ActingNext DEF AccInv, ActingOne, EffectAwaited
  <2>2. StageOf = "working" /\ StageOf' = "working" /\ Said = "nothing" /\ Said' = "nothing"
    BY <1>2, StageIs, StageNext DEF Stages
  <2>3. UNCHANGED <<Demanded, Revised>>
    BY DEF Demanded, Revised, Frame
  <2>4. Unbacked(log)' = Unbacked(log) /\ Mutated(log)' = Mutated(log)
    BY <1>1 DEF Unbacked, Unanswered, Mutated
  <2>5. Account!Act(c)
    BY <1>1, <1>2, <1>3, <2>1, <2>2, <2>3, <2>4 DEF Account!Act, Frame
  <2>6. c \in Effects(Mutation) \cup Effects(Check) \cup Effects({"other"})
    BY <1>5, CallAssumption DEF Effects, Kinds, Mutation, Check
  <2> QED
    BY <2>5, <2>6 DEF Account!Next
<1> QED
  BY <1>4, <1>5

LEMMA ReturnActed ==
  ASSUME AccInv, AccInv', NEW c \in Call, Frame, UNCHANGED phase, phase = "execute",
         \/ \E ok \in BOOLEAN : OtherReturns(c, ok) \/ CheckFails(c, ok)
         \/ MutationFails(c) \/ MutationSucceeds(c)
         \/ \E hashed \in SUBSET Artifact : CheckPasses(c, hashed)
  PROVE  Account!Next \/ UNCHANGED Account!vars
<1>1. PICK ok \in BOOLEAN : Returns(c, ok)
  BY DEF OtherReturns, CheckFails, MutationFails, MutationSucceeds, CheckPasses
<1>2. pc = "tool" /\ c = Head(queue) /\ pc' = "calls" /\ UNCHANGED approved /\ InTurn /\ InTurn'
  BY <1>1 DEF Returns, result, InTurn
<1>3. Acting' = {}
  BY <1>2, ActingIs, ActingNext DEF AccInv, ActingOne, EffectAwaited
<1>4. CASE Kind[c] = "read"
  <2>1. Acting = {}
    BY <1>2, <1>4, ActingIs, ActingNext DEF AccInv, ActingOne, EffectAwaited
  <2>2. UNCHANGED log
    BY <1>4 DEF OtherReturns, CheckFails, MutationFails, MutationSucceeds, CheckPasses, Mutation, Check
  <2> QED
    BY <1>2, <1>3, <2>1, <2>2, LoopGoesOn DEF AccInv, IInv
<1>5. CASE Kind[c] # "read"
  <2>1. Acting = {c}
    BY <1>2, <1>5, ActingIs, ActingNext DEF AccInv, ActingOne, EffectAwaited
  <2>2. StageOf = "working" /\ StageOf' = "working" /\ Said = "nothing" /\ Said' = "nothing"
    BY <1>2, StageIs, StageNext DEF Stages
  <2>3. UNCHANGED <<Demanded, Revised>>
    BY DEF Demanded, Revised, Frame
  <2>4. \/ UNCHANGED <<Unbacked(log), Mutated(log)>>
        \/ c \in Effects(Mutation) /\ Unbacked(log)' = Unbacked(log) \cup {c} /\ Mutated(log)' = TRUE
        \/ c \in Effects(Check) /\ Unbacked(log)' \subseteq Unbacked(log) /\ UNCHANGED Mutated(log)
    <3>1. CASE UNCHANGED log
      BY <3>1 DEF Unbacked, Unanswered, Mutated
    <3>2. CASE MutationSucceeds(c)
      <4> DEFINE e == [call |-> c, hashed |-> {}]
      <4>1. e \in Entry /\ e.call = c /\ log' = Append(log, e) /\ Kind[c] \in Mutation
        BY <3>2 DEF MutationSucceeds, Entry
      <4>2. Mutated(log)' \in BOOLEAN
        BY DEF Mutated
      <4> QED
        BY <4>1, <4>2, MutationOpens DEF AccInv, IInv, Effects
    <3>3. ASSUME NEW hashed \in SUBSET Artifact, CheckPasses(c, hashed)
          PROVE  c \in Effects(Check) /\ Unbacked(log)' \subseteq Unbacked(log) /\ UNCHANGED Mutated(log)
      <4> DEFINE e == [call |-> c, hashed |-> hashed]
      <4>1. e \in Entry /\ e.call = c /\ log' = Append(log, e) /\ Kind[c] \in Check
        BY <3>3 DEF CheckPasses, Entry
      <4>2. Mutated(log)' \in BOOLEAN /\ Mutated(log) \in BOOLEAN
        BY DEF Mutated
      <4> QED
        BY <4>1, <4>2, CheckCloses DEF AccInv, IInv, Effects
    <3> QED
      BY <3>1, <3>2, <3>3 DEF OtherReturns, CheckFails, MutationFails
  <2>5. Account!Acted(c)
    BY <1>2, <1>3, <2>1, <2>2, <2>3, <2>4 DEF Account!Acted, Frame
  <2>6. c \in Effects(Mutation) \cup Effects(Check) \cup Effects({"other"})
    BY <1>5, CallAssumption DEF Effects, Kinds, Mutation, Check
  <2> QED
    BY <2>5, <2>6 DEF Account!Next
<1> QED
  BY <1>4, <1>5

LEMMA ProposeConcludes ==
  ASSUME AccInv, AccInv', Propose, Frame, UNCHANGED <<phase, calls>>, phase = "execute"
  PROVE  Account!Conclude \/ UNCHANGED Account!vars
<1>1. /\ pc = "model" /\ InTurn /\ UNCHANGED <<gen, validGen, log, queue, options, aborted>>
      /\ TypeOK /\ TypeOK' /\ Books /\ Acting = {}
  BY ActingIs DEF Propose, checks, turn, Frame, InTurn, AccInv, IInv, ActingOne, EffectAwaited
<1>2. ASSUME pc' = "done", approved' \in {approved, TRUE},
             Said' \in {"verified", "complete", "answered", "stopped"}, Account!MaySay(Said')
      PROVE  Account!Conclude
  <2>1. Acting' = {}
    BY <1>2, ActingNext DEF AccInv, ActingOne, EffectAwaited
  <2> QED
    BY <1>1, <1>2, <2>1, LoopConcludes
<1>3. ASSUME NEW reason, NEW state, NEW text, Exit(reason, state, text), state \notin Complete,
             UNCHANGED approved
      PROVE  Account!Conclude
  BY <1>2, <1>3, SaidStopped DEF Exit
<1>4. ASSUME pc' \in {"turn", "guard"}, UNCHANGED approved PROVE UNCHANGED Account!vars
  <2>1. InTurn' /\ Acting' = {}
    BY <1>4, ActingNext DEF AccInv, ActingOne, EffectAwaited, InTurn
  <2> QED
    BY <1>1, <1>4, <2>1, LoopGoesOn
<1>5. ASSUME NEW counter, Ask(counter) PROVE UNCHANGED Account!vars
  BY <1>4, <1>5 DEF Ask, result
<1>6. completion \notin Complete
  BY <1>1 DEF AccInv, IInv, Claims
<1>7. ASSUME NEW c, GiveUp(c) PROVE Account!Conclude
  BY <1>3, <1>6, <1>7 DEF GiveUp
<1>8. PICK c \in Content, off \in BOOLEAN :
       \/ AskForEvidence(c, off) \/ AskForAlignment(c, off) \/ Wait(c, off) \/ Block(c, off)
       \/ AskForMutation(c, off) \/ AskForValidation(c, off) \/ AskForSignal(c, off)
       \/ AskGuard(c, off) \/ Accept(c, off)
  BY DEF Propose
<1>9. CASE AskForEvidence(c, off) \/ AskForAlignment(c, off)
  BY <1>5, <1>9 DEF AskForEvidence, AskForAlignment
<1>10. CASE Wait(c, off) \/ Block(c, off)
  BY <1>3, <1>10 DEF Wait, Block, Complete
<1>11. CASE AskForMutation(c, off) \/ AskGuard(c, off)
  BY <1>4, <1>11 DEF AskForMutation, AskGuard, result
<1>12. CASE AskForValidation(c, off) \/ AskForSignal(c, off)
  BY <1>5, <1>7, <1>12 DEF AskForValidation, AskForSignal
<1>13. CASE Accept(c, off)
  <2>1. Reaches(9, c, off) /\ Accepted(c) /\ UNCHANGED approved
    BY <1>13 DEF Accept
  <2>2. /\ c \in {"complete", "plain"} /\ (c = "plain" => ~options.signal)
        /\ c = "complete" => /\ ~options.guard
                             /\ options.validate => gen = validGen
                             /\ options.mutate => gen > 0
    BY <1>1, <2>1, ReachesEnd
  <2>3. Said' \in {"verified", "complete", "answered", "stopped"} /\ Account!MaySay(Said')
    BY <1>1, <2>1, <2>2, SaidAccepted
  <2>4. pc' = "done"
    BY <2>1 DEF Accepted, Exit
  <2> QED
    BY <1>2, <2>1, <2>3, <2>4
<1> QED
  BY <1>8, <1>9, <1>10, <1>11, <1>12, <1>13

\* The loop ends, or goes on, without a call.
LEMMA LoopAccounts ==
  ASSUME AccInv, AccInv', Frame, UNCHANGED <<phase, calls>>, phase = "execute",
         \/ OutOfTurns \/ CancelTurn \/ Turn \/ ProviderFails \/ GuardAccepts \/ GuardRefuses
         \/ CancelCalls \/ SpendBudget \/ TurnEnds
  PROVE  Account!Conclude \/ UNCHANGED Account!vars
<1>1. /\ pc \in {"turn", "model", "guard", "calls"} /\ InTurn
      /\ UNCHANGED <<gen, validGen, log, options, aborted>>
      /\ TypeOK /\ TypeOK' /\ Books /\ Acting = {}
  <2>1. pc \in {"turn", "model", "guard", "calls"} /\ UNCHANGED <<gen, validGen, log>>
    BY DEF OutOfTurns, CancelTurn, Turn, ProviderFails, GuardAccepts, GuardRefuses, CancelCalls,
           SpendBudget, TurnEnds, checks
  <2> QED
    BY <2>1, ActingIs DEF Frame, InTurn, AccInv, IInv, ActingOne, EffectAwaited
<1>2. ASSUME pc' = "done", approved' \in {approved, TRUE},
             Said' \in {"verified", "complete", "answered", "stopped"}, Account!MaySay(Said')
      PROVE  Account!Conclude
  <2>1. Acting' = {}
    BY <1>2, ActingNext DEF AccInv, ActingOne, EffectAwaited
  <2> QED
    BY <1>1, <1>2, <2>1, LoopConcludes
<1>3. ASSUME NEW reason, NEW state, NEW text, Exit(reason, state, text), state \notin Complete,
             UNCHANGED approved
      PROVE  Account!Conclude
  BY <1>2, <1>3, SaidStopped DEF Exit
<1>4. ASSUME pc' \in {"turn", "model"}, UNCHANGED approved PROVE UNCHANGED Account!vars
  <2>1. InTurn' /\ Acting' = {}
    BY <1>4, ActingNext DEF AccInv, ActingOne, EffectAwaited, InTurn
  <2> QED
    BY <1>1, <1>4, <2>1, LoopGoesOn
<1>5. completion \notin Complete
  BY <1>1 DEF AccInv, IInv, Claims
<1>6. CASE OutOfTurns \/ CancelTurn \/ ProviderFails \/ CancelCalls \/ SpendBudget
  BY <1>3, <1>5, <1>6 DEF OutOfTurns, CancelTurn, ProviderFails, CancelCalls, SpendBudget, Complete
<1>7. CASE Turn
  BY <1>4, <1>7 DEF Turn, result
<1>8. CASE GuardAccepts
  <2>1. pc = "guard" /\ Accepted("complete") /\ approved' = TRUE
    BY <1>8 DEF GuardAccepts
  <2>2. (options.validate => gen = validGen) /\ (options.mutate => gen > 0)
    BY <2>1 DEF AccInv, IInv, Claims
  <2>3. Said' \in {"verified", "complete", "answered", "stopped"} /\ Account!MaySay(Said')
    <3>1. "complete" \in Content
      BY DEF Content
    <3> QED
      BY <1>1, <2>1, <2>2, <3>1, SaidAccepted
  <2>4. pc' = "done"
    BY <2>1 DEF Accepted, Exit
  <2> QED
    BY <1>2, <2>1, <2>3, <2>4
<1>9. CASE GuardRefuses
  <2>1. ASSUME Ask("completion") PROVE UNCHANGED Account!vars
    BY <1>4, <2>1 DEF Ask, result
  <2>2. ASSUME GiveUp("complete") PROVE Account!Conclude
    BY <1>3, <1>5, <2>2 DEF GiveUp
  <2> QED
    BY <1>9, <2>1, <2>2 DEF GuardRefuses
<1>10. CASE TurnEnds
  <2>1. CASE pc' = "turn" /\ UNCHANGED result
    BY <1>4, <2>1 DEF result
  <2>2. CASE Exit("no-progress", "BLOCKED", "none") /\ UNCHANGED approved
    BY <1>3, <2>2 DEF Complete
  <2> QED
    BY <1>10, <2>1, <2>2, Zenon DEF TurnEnds
<1> QED
  BY <1>6, <1>7, <1>8, <1>9, <1>10

\* A request or a refused call: only reads may start.
LEMMA CallsAccount ==
  ASSUME AccInv, AccInv', Frame, UNCHANGED phase, phase = "execute",
         \/ \E q \in Requests : \E h \in SUBSET (Hidden \cap Asked(q)) : Request(q, h)
         \/ \E c \in Call : RejectUnknown(c) \/ RejectDuplicate(c)
  PROVE  UNCHANGED Account!vars
<1>1. pc \in {"model", "calls"} /\ pc' = "calls" /\ UNCHANGED <<log, approved>>
  BY DEF Request, RejectUnknown, RejectDuplicate, Reject, Considers, checks, result
<1>2. Acting = {} /\ Acting' = {}
  BY <1>1, ActingIs, ActingNext DEF AccInv, ActingOne, EffectAwaited
<1> QED
  BY <1>1, <1>2, LoopGoesOn DEF InTurn, AccInv, IInv

LEMMA InLoopAccounts ==
  ASSUME AccInv, AccInv', InLoop
  PROVE  Account!Next \/ UNCHANGED Account!vars
<1>1. Frame /\ UNCHANGED phase /\ phase = "execute" /\ LoopStep
  BY DEF InLoop, Frame, run
<1> QED
  BY <1>1, ExecuteActs, ReturnActed, ProposeConcludes, LoopAccounts, CallsAccount
  DEF LoopStep, Account!Next

\* The graph around the loop.
LEMMA GraphAccounts ==
  ASSUME AccInv, AccInv', Bootstrap \/ Execution \/ Refused \/ Direct \/ ReviewFixes \/ ReviewPasses \/ Finalize
  PROVE  Account!Next \/ UNCHANGED Account!vars
<1>1. TypeOK /\ TypeOK' /\ Books /\ Claims /\ Reviews /\ gen \in Nat /\ validGen \in 0..gen /\ cycle \in 0..2
  BY DEF AccInv, IInv, TypeOK, LoopTypeOK, ChecksTyped
<1>2. ASSUME UNCHANGED log PROVE Unbacked(log)' = Unbacked(log) /\ Mutated(log)' = Mutated(log)
  BY <1>2 DEF Unbacked, Unanswered, Mutated
<1>3. ASSUME UNCHANGED running PROVE Acting' = Acting
  BY <1>3 DEF Acting
<1>4. ASSUME UNCHANGED options PROVE Demanded' = Demanded
  BY <1>4 DEF Demanded
<1>5. ASSUME UNCHANGED <<completion, answer, pc>> PROVE Said' = Said
  BY <1>5 DEF Said
<1>6. ASSUME UNCHANGED cycle PROVE Revised' = Revised
  BY <1>6 DEF Revised
<1>7. "review" \in Demanded <=> options.graph
  BY DEF Demanded
<1>8. CASE Bootstrap \/ Refused
  <2>1. /\ phase \in {"bootstrap", "execute"} /\ pc = "idle" /\ phase' \in {"execute", "failed"}
        /\ UNCHANGED <<pc, completion, answer, log, running, options, aborted, cycle, approved, reviewPassed,
                       remembered>>
    BY <1>1, <1>8 DEF Bootstrap, Refused, TypeOK, calls, loop, checks, result
  <2>2. StageOf = "ready" /\ StageOf' \in {"ready", "failed"}
    BY <2>1, StageIs, StageNext DEF Stages, Settled
  <2> QED
    BY <2>1, <2>2, <1>2, <1>3, <1>4, <1>5, <1>6
    DEF Account!Next, Account!Fail, Account!vars, Account!work
<1>9. CASE Execution
  <2>1. /\ phase = "execute" /\ phase' = "execute" /\ pc = "idle" /\ pc' = "turn" /\ log' = <<>> /\ approved' = FALSE
        /\ UNCHANGED <<running, aborted, cycle, reviewPassed, remembered>>
    BY <1>9 DEF Execution, Begin, run
  <2>2. /\ StageOf = "ready" /\ StageOf' = "working" /\ Said = "nothing" /\ Said' = "nothing"
    BY <2>1, StageIs, StageNext DEF Stages, InTurn
  <2>3. Unbacked(log)' = {} /\ Mutated(log)' = FALSE
    BY <2>1 DEF Unbacked, Unanswered, Mutated
  <2>4. Demanded' = Demanded \/ (Revised /\ Demanded' = Demanded \cup {"mutate"})
    <3>1. CASE UNCHANGED options
      BY <3>1, <1>4
    <3>2. CASE cycle > 0 /\ options' = [options EXCEPT !.mutate = TRUE]
      <4>1. options \in Option
        BY <1>1 DEF TypeOK, LoopTypeOK, ControlTyped
      <4>2. /\ options'.mutate = TRUE /\ options'.validate = options.validate /\ options'.guard = options.guard
            /\ options'.signal = options.signal /\ options'.graph = options.graph
        BY <3>2, <4>1 DEF Option
      <4>3. Demanded' = Demanded \cup {"mutate"}
        BY <4>2 DEF Demanded
      <4> QED
        BY <3>2, <4>3 DEF Revised
    <3> QED
      BY <1>9, <3>1, <3>2 DEF Execution
  <2> QED
    BY <2>1, <2>2, <2>3, <2>4, <1>3, <1>6 DEF Account!Next, Account!Begin
<1>10. CASE Direct
  <2>1. /\ phase = "execute" /\ pc = "done" /\ ~options.graph /\ phase' = "returned"
        /\ UNCHANGED <<pc, completion, answer, log, running, options, aborted, cycle, approved, reviewPassed,
                       remembered>>
    BY <1>10 DEF Direct, calls, loop, checks, result
  <2>2. StageOf = "concluded" /\ StageOf' = "returned"
    BY <2>1, StageIs, StageNext DEF Stages, Settled
  <2> QED
    BY <2>1, <2>2, <1>2, <1>3, <1>4, <1>5, <1>6, <1>7 DEF Account!Next, Account!Return, Account!work
<1>11. CASE ReviewPasses
  <2>1. /\ phase = "execute" /\ pc = "done" /\ options.graph /\ ~Unfit /\ phase' = "finalize" /\ reviewPassed' = TRUE
        /\ UNCHANGED <<pc, completion, answer, log, running, options, aborted, cycle, approved, remembered>>
    BY <1>11 DEF ReviewPasses, calls, loop, checks, result
  <2>2. StageOf = "concluded" /\ StageOf' = "reviewed"
    BY <2>1, StageIs, StageNext DEF Stages, Settled
  <2>3. completion \in Complete /\ gen = validGen
    BY <1>1, <2>1 DEF Unfit
  <2>4. Unbacked(log) = {}
    BY <1>1, <2>3, NothingOpen DEF Books
  <2>5. Said \in {"verified", "complete"}
    <3>1. answer = "complete"
      BY <1>1, <2>1, <2>3 DEF Reviews, Claims
    <3> QED
      BY <2>1, <2>3, <3>1 DEF Said, Complete
  <2> QED
    BY <2>1, <2>2, <2>4, <2>5, <1>2, <1>3, <1>4, <1>5, <1>6, <1>7
    DEF Account!Next, Account!Pass, Account!work, Account!Claim
<1>12. CASE ReviewFixes
  <2>1. /\ phase = "execute" /\ pc = "done" /\ options.graph /\ reviewPassed' = FALSE /\ cycle' = cycle + 1
        /\ UNCHANGED <<log, running, options, aborted, approved, remembered>>
    BY <1>12 DEF ReviewFixes, Again, calls, loop, checks, result
  <2>2. StageOf = "concluded" /\ ~reviewPassed /\ reviewPassed \in BOOLEAN
    BY <1>1, <2>1, StageIs DEF Stages, Reviews, TypeOK
  <2>3. CASE cycle < 1
    <3>1. phase' = "execute" /\ pc' = "idle"
      BY <1>12, <2>3 DEF ReviewFixes, Again
    <3>2. StageOf' = "ready" /\ Said' = "nothing"
      BY <3>1, StageNext DEF Stages
    <3>3. Revised = FALSE /\ Revised' = TRUE
      BY <1>1, <2>1, <2>3 DEF Revised
    <3> QED
      BY <2>1, <2>2, <3>2, <3>3, <1>2, <1>3, <1>4, <1>7 DEF Account!Next, Account!Revise, Account!work
  <2>4. CASE ~(cycle < 1)
    <3>1. phase' = "finalize" /\ UNCHANGED <<pc, completion, answer>>
      BY <1>12, <2>4 DEF ReviewFixes, loop, result
    <3>2. StageOf' = "reviewed"
      BY <3>1, StageNext DEF Stages
    <3>3. Revised = TRUE /\ Revised' = TRUE
      BY <1>1, <2>1, <2>4 DEF Revised
    <3> QED
      BY <2>1, <2>2, <3>1, <3>2, <3>3, <1>2, <1>3, <1>4, <1>5, <1>7 DEF Account!Next, Account!Refuse, Account!work
  <2> QED
    BY <2>3, <2>4
<1>13. CASE Finalize
  <2>1. /\ phase = "finalize" /\ phase' = "returned" /\ pc = "done" /\ pc' = "done" /\ options.graph
        /\ UNCHANGED <<log, running, options, aborted, cycle, approved, reviewPassed>>
    BY <1>1, <1>13 DEF Finalize, checks, calls, TypeOK, AccInv, Held
  <2>2. StageOf = "reviewed" /\ StageOf' = "returned"
    BY <2>1, StageIs, StageNext DEF Stages, Settled
  <2>3. completion \in Complete => answer = "complete" /\ Claimed
    BY <1>1, <2>1 DEF Reviews, Claims, Claimed
  <2>4. CASE reviewPassed
    <3>1. Claimed
      BY <1>1, <2>3, <2>4 DEF Reviews
    <3>2. UNCHANGED <<completion, answer>> /\ remembered' \in {FALSE, TRUE}
      BY <1>13, <2>4, <3>1 DEF Finalize
    <3>3. reviewPassed = TRUE
      BY <1>1, <2>4 DEF TypeOK
    <3> QED
      BY <2>1, <2>2, <3>2, <3>3, <1>2, <1>3, <1>4, <1>5, <1>6 DEF Account!Next, Account!Return, Account!work
  <2>5. CASE ~reviewPassed
    <3>1. remembered' = FALSE
      BY <1>13, <2>5 DEF Finalize
    <3>2. completion' \notin Complete
      <4>1. CASE Claimed
        BY <1>13, <2>5, <4>1 DEF Finalize, Complete
      <4>2. CASE ~Claimed
        <5>1. completion' = completion
          BY <1>13, <4>2 DEF Finalize
        <5> QED
          BY <2>3, <4>2, <5>1
      <4> QED
        BY <4>1, <4>2
    <3>3. Said' = "stopped"
      BY <2>1, <3>2 DEF Said, Complete
    <3>4. reviewPassed = FALSE
      BY <1>1, <2>5 DEF TypeOK
    <3> QED
      BY <2>1, <2>2, <3>1, <3>3, <3>4, <1>2, <1>3, <1>4, <1>6 DEF Account!Next, Account!Return, Account!work
  <2> QED
    BY <2>4, <2>5
<1> QED
  BY <1>8, <1>9, <1>10, <1>11, <1>12, <1>13

LEMMA OthersAccount ==
  ASSUME AccInv, AccInv', Leaves \/ Orphans \/ UNCHANGED vars
  PROVE  Account!Next \/ UNCHANGED Account!vars
<1>1. ASSUME UNCHANGED log PROVE Unbacked(log)' = Unbacked(log) /\ Mutated(log)' = Mutated(log)
  BY <1>1 DEF Unbacked, Unanswered, Mutated
<1>2. CASE Leaves
  <2>1. /\ aborted' = TRUE /\ ~aborted /\ phase \notin Settled
        /\ UNCHANGED <<phase, pc, options, log, approved, cycle, reviewPassed, remembered, completion, answer, running>>
    BY <1>2 DEF Leaves, Abort, loop, run, checks, result, calls
  <2>2. UNCHANGED <<StageOf, Demanded, Said, Revised, Acting>>
    BY <2>1 DEF StageOf, Demanded, Said, Revised, Acting
  <2>3. StageOf \notin {"returned", "failed"}
    <3>1. phase \in {"bootstrap", "execute", "finalize"} /\ (phase = "bootstrap" => pc = "idle")
      BY <2>1 DEF AccInv, IInv, TypeOK
    <3> QED
      BY <3>1, StageIs DEF Stages, InTurn
  <2> QED
    BY <1>1, <2>1, <2>2, <2>3 DEF Account!Next, Account!Cancel, Account!work
<1>3. CASE Orphans \/ UNCHANGED vars
  <2>1. UNCHANGED <<phase, pc, options, aborted, log, approved, cycle, reviewPassed, remembered, completion, answer,
                    queue>>
    BY <1>3 DEF Orphans, vars, loop, run, checks, result, turn
  <2>2. Acting' = Acting
    <3>1. EffectAwaited' <=> EffectAwaited
      BY <2>1 DEF EffectAwaited
    <3> QED
      BY <2>1, <3>1, ActingIs, ActingNext DEF AccInv, ActingOne
  <2> QED
    BY <2>1, <2>2, AccountKept
<1> QED
  BY <1>2, <1>3

LEMMA AccountInit == Init => Account!Init /\ Held
<1> SUFFICES ASSUME Init PROVE Account!Init /\ Held
  OBVIOUS
<1>1. /\ phase \in {"bootstrap", "execute"} /\ pc = "idle" /\ log = <<>> /\ running = {} /\ cycle = 0
      /\ approved = FALSE /\ aborted = FALSE /\ reviewPassed = FALSE /\ remembered = FALSE
  BY DEF Init, LoopInit
<1>2. StageOf = "ready" /\ Said = "nothing"
  BY <1>1, StageIs DEF Stages
<1>3. Unbacked(log) = {} /\ Mutated(log) = FALSE /\ Acting = {} /\ Revised = FALSE
  BY <1>1 DEF Unbacked, Mutated, Acting, Revised
<1>4. Demanded \in SUBSET {"validate", "mutate", "guard", "signal", "review"}
  BY DEF Demanded
<1> QED
  BY <1>1, <1>2, <1>3, <1>4 DEF Account!Init, Account!Demand, Held

\* Whatever the model answers, the tools do and the user cancels, a run is one of which
\* AccountableRun allows: every step is a step of the account, or none.
THEOREM ImplementsAccount == Spec => RefinesAccount
<1>1. Spec => []AccInv
  <2>1. Init => Held
    BY AccountInit
  <2>2. SInv /\ Held /\ [Next]_vars => Held'
    BY StepHeld
  <2> QED
    BY <2>1, <2>2, Inductive, StartsInductive, PTL DEF Spec, AccInv
<1>2. AccInv /\ AccInv' /\ [Next]_vars => [Account!Next]_(Account!vars)
  BY InLoopAccounts, GraphAccounts, OthersAccount DEF Next, Step
<1>3. Init => Account!Init
  BY AccountInit
<1> QED
  BY <1>1, <1>2, <1>3, PTL DEF Spec, RefinesAccount, Account!Spec

\* Every account comes out even.
LEMMA AccountsAreEven == Account!Spec => []Account!Even
<1>1. Account!Init => Account!Even
  BY DEF Account!Init, Account!Even
<1>2. Account!Even /\ [Account!Next]_(Account!vars) => Account!Even'
  <2> SUFFICES ASSUME Account!Even, [Account!Next]_(Account!vars) PROVE Account!Even'
    OBVIOUS
  <2>1. CASE Account!Begin
    BY <2>1 DEF Account!Even, Account!Begin, Account!work, Account!Claim
  <2>2. CASE Account!Fail
    BY <2>2 DEF Account!Even, Account!Fail, Account!work, Account!Claim
  <2>3. CASE Account!Cancel
    BY <2>3 DEF Account!Even, Account!Cancel, Account!work, Account!Claim
  <2>4. CASE Account!Revise
    BY <2>4 DEF Account!Even, Account!Revise, Account!work, Account!Claim
  <2>5. CASE Account!Refuse
    BY <2>5 DEF Account!Even, Account!Refuse, Account!work, Account!Claim
  <2>6. CASE Account!Conclude
    BY <2>6 DEF Account!Even, Account!Conclude, Account!MaySay, Account!work, Account!Claim
  <2>7. CASE Account!Pass
    BY <2>7 DEF Account!Even, Account!Pass, Account!work, Account!Claim
  <2>8. CASE Account!Return
    <3>1. CASE StageOf = "concluded"
      BY <2>8, <3>1 DEF Account!Even, Account!Return, Account!work, Account!Claim
    <3>2. CASE StageOf = "reviewed"
      <4>1. remembered' => reviewPassed
        <5>1. remembered' = FALSE \/ remembered' = reviewPassed
          BY <2>8, <3>2 DEF Account!Return
        <5> QED
          BY <5>1, Zenon
      <4> QED
        BY <2>8, <3>2, <4>1 DEF Account!Even, Account!Return, Account!work, Account!Claim
    <3> QED
      BY <2>8, <3>1, <3>2 DEF Account!Return
  <2>9. ASSUME NEW c, Account!Act(c) \/ Account!Acted(c) PROVE Account!Even'
    BY <2>9 DEF Account!Even, Account!Act, Account!Acted
  <2>10. CASE UNCHANGED Account!vars
    BY <2>10 DEF Account!Even, Account!vars, Account!work
  <2> QED
    BY <2>1, <2>2, <2>3, <2>4, <2>5, <2>6, <2>7, <2>8, <2>9, <2>10 DEF Account!Next
<1> QED
  BY <1>1, <1>2, PTL DEF Account!Spec

\* So the accounts of all runs come out even: what a caller reads in the result is what the
\* work supports.
THEOREM RunsComeOutEven == Spec => []Account!Even
  BY ImplementsAccount, AccountsAreEven, PTL DEF RefinesAccount
=============================================================================
