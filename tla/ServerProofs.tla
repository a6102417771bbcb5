---------------------------- MODULE ServerProofs ----------------------------
(* Proofs about parts of the server, for any instance of each: requests that*)
(* wait for a person's consent (Approvals) or for a slot to ask a model     *)
(* (ModelRequests), the connection to the media service (MediaManager), the *)
(* index of the repository (IndexRefresh) and the choice of the instance    *)
(* that serves a model (ModelRouting); then about all parts side by side    *)
(* (Server), each of which keeps the specification it was proved about.     *)
EXTENDS Server, MutationTransactionProofs, WorkingStateProofs, LiveValidationProofs,
        FiniteSetTheorems, SequenceTheorems, TLAPS

\* What a person has allowed is on record: a call that was let through has consent of its
\* own, and a run's grant is consent for each of its calls that is still to come.
Consented ==
  /\ ApTypeOK
  /\ ~AutoApprove => \A c \in Gated : request[c] \in {"approved", "run"} => c \in consent
  /\ \A c \in Gated : RunOf[c] \in grants /\ request[c] = "new" => c \in consent

LEMMA ConsentedInit == ApInit => Consented
BY DEF ApInit, Consented, ApTypeOK

\* Those who wait get the answer; nobody else's request moves.
LEMMA AnswersGiven ==
  ASSUME ApTypeOK, NEW S \in SUBSET Gated, NEW answer, Settle(S, answer)
  PROVE  /\ \A c \in Gated : request'[c] = request[c] \/ (c \in S /\ request'[c] = answer)
         /\ \A c \in Gated : request'[c] = "new" /\ answer # "new" => request[c] = "new"
         /\ answer \in {"approved", "denied"} =>
              request' \in [Gated -> {"new", "waiting", "approved", "denied", "run", "failed"}]
BY DEF Settle, Waiting, ApTypeOK

LEMMA ConsentedStep == Consented /\ [ApNext]_apVars => Consented'
<1> SUFFICES ASSUME Consented, [ApNext]_apVars PROVE Consented'
  OBVIOUS
<1> USE RunOfAssumption
<1>1. ASSUME NEW c \in Gated, Ask(c)  PROVE Consented'
  BY <1>1 DEF Consented, ApTypeOK, Ask
<1>2. ASSUME NEW c \in Gated, NEW yes \in BOOLEAN, Decide(c, yes)  PROVE Consented'
  <2> DEFINE answer == IF yes THEN "approved" ELSE "denied"
  <2>1. Settle({c}, answer) /\ UNCHANGED <<grants, client, over>>
    BY <1>2 DEF Decide
  <2>2. consent \subseteq consent' /\ consent' \subseteq Gated /\ (yes => c \in consent')
    BY <1>2 DEF Decide, Consented, ApTypeOK
  <2>3. /\ \A d \in Gated : request'[d] = request[d] \/ (d = c /\ request'[d] = answer)
        /\ \A d \in Gated : request'[d] = "new" => request[d] = "new"
        /\ request' \in [Gated -> {"new", "waiting", "approved", "denied", "run", "failed"}]
    <3>1. {c} \in SUBSET Gated /\ answer \in {"approved", "denied"} /\ answer # "new"  OBVIOUS
    <3> HIDE DEF answer
    <3> QED  BY <2>1, <3>1, AnswersGiven DEF Consented
  <2> QED  BY <2>1, <2>2, <2>3 DEF Consented, ApTypeOK
<1>3. ASSUME NEW r \in Run, ApproveAll(r)  PROVE Consented'
  <2>1. /\ \A d \in Gated : request'[d] = request[d] \/ (d \in Of(r) /\ request'[d] = "approved")
        /\ \A d \in Gated : request'[d] = "new" => request[d] = "new"
        /\ request' \in [Gated -> {"new", "waiting", "approved", "denied", "run", "failed"}]
    <3>1. Of(r) \in SUBSET Gated  BY DEF Of
    <3> QED  BY <1>3, <3>1, AnswersGiven DEF Consented, ApproveAll
  <2> QED  BY <1>3, <2>1 DEF ApproveAll, Of, Consented, ApTypeOK
<1>4. ASSUME NEW c \in Gated, Expire(c)  PROVE Consented'
  <2>1. /\ \A d \in Gated : request'[d] = request[d] \/ (d = c /\ request'[d] = "denied")
        /\ \A d \in Gated : request'[d] = "new" => request[d] = "new"
        /\ request' \in [Gated -> {"new", "waiting", "approved", "denied", "run", "failed"}]
    <3>1. {c} \in SUBSET Gated  OBVIOUS
    <3> QED  BY <1>4, <3>1, AnswersGiven DEF Consented, Expire
  <2> QED  BY <1>4, <2>1 DEF Expire, Consented, ApTypeOK
<1>5. ASSUME NEW c \in Gated, Execute(c)  PROVE Consented'
  BY <1>5 DEF Consented, ApTypeOK, Execute
<1>6. ASSUME NEW r \in Run, Close(r)  PROVE Consented'
  <2>1. /\ \A d \in Gated : request'[d] = request[d] \/ (d \in Of(r) /\ request'[d] = "denied")
        /\ \A d \in Gated : request'[d] = "new" => request[d] = "new"
        /\ request' \in [Gated -> {"new", "waiting", "approved", "denied", "run", "failed"}]
    <3>1. Of(r) \in SUBSET Gated  BY DEF Of
    <3> QED  BY <1>6, <3>1, AnswersGiven DEF Consented, Close
  <2>2. /\ consent' = consent \ {c \in Gated : RunOf[c] = r /\ request[c] = "new"}
        /\ grants' = grants \ {r} /\ client' = [client EXCEPT ![r] = "left"] /\ over' = over
    BY <1>6 DEF Close, Lapsed, Of
  <2> QED  BY <2>1, <2>2 DEF Of, Consented, ApTypeOK
<1>7. ASSUME NEW r \in Run, EndRun(r)  PROVE Consented'
  BY <1>7 DEF Consented, ApTypeOK, EndRun
<1>8. CASE UNCHANGED apVars
  BY <1>8 DEF Consented, ApTypeOK, apVars
<1> QED  BY <1>1, <1>2, <1>3, <1>4, <1>5, <1>6, <1>7, <1>8 DEF ApNext

\* Approval is only ever granted by an explicit decision (approvals.ts): no call that needs
\* consent is let through without a person's yes, in whatever order decisions, timers, the
\* run's connection and its end come.
THEOREM OnlyConsented == ApSpec => []OnlyConsentedRun
<1>1. Consented => OnlyConsentedRun  BY DEF Consented, OnlyConsentedRun
<1> QED  BY <1>1, ConsentedInit, ConsentedStep, PTL DEF ApSpec

\* The requests, grants and connections stay what they are (approvals.ts).
THEOREM ApTypeCorrect == ApSpec => []ApTypeOK
<1>1. Consented => ApTypeOK  BY DEF Consented
<1> QED  BY <1>1, ConsentedInit, ConsentedStep, PTL DEF ApSpec

-----------------------------------------------------------------------------
(* ModelRequests: counting clients, slots and the queue. *)

Clients ==
  /\ at \in [Client -> {"idle", "asking", "queued", "woken", "active", "tools", "settled"}]
  /\ asks \in [Client -> 0..MaxAsks] /\ overtaken \in Nat
  /\ \A c \in Client : at[c] \in {"idle", "asking"} => asks[c] < MaxAsks
\* The line holds those who wait, and nobody twice.
InLine ==
  /\ line \in Seq(Client)
  /\ \A i \in 1..Len(line) : at[line[i]] = "queued"
  /\ \A i, j \in 1..Len(line) : line[i] = line[j] => i = j
\* The counter counts the requests under way.
Counted == Clients /\ InLine /\ inUse = Cardinality(Is("active"))

\* Of each kind of clients there are finitely many.
LEMMA FewOfEach == \A s : IsFiniteSet(Is(s)) /\ Cardinality(Is(s)) \in Nat
<1> TAKE s
<1>1. Is(s) \subseteq Client  BY DEF Is
<1> QED  BY <1>1, ClientAssumption, FS_Subset, FS_CardinalityType

\* One client that joins a kind, or leaves it, counts for one.
LEMMA JoinsOne ==
  ASSUME NEW s, NEW c \in Client, Is(s)' = Is(s) \cup {c}, c \notin Is(s)
  PROVE  Cardinality(Is(s))' = Cardinality(Is(s)) + 1
<1>1. Cardinality(Is(s) \cup {c}) = Cardinality(Is(s)) + 1  BY FewOfEach, FS_AddElement
<1> QED  BY <1>1, Zenon

LEMMA LeavesOne ==
  ASSUME NEW s, NEW c \in Client, Is(s)' = Is(s) \ {c}, c \in Is(s)
  PROVE  Cardinality(Is(s))' = Cardinality(Is(s)) - 1
<1>1. Cardinality(Is(s) \ {c}) = Cardinality(Is(s)) - 1  BY FewOfEach, FS_RemoveElement
<1> QED  BY <1>1, Zenon

LEMMA SameNumber ==
  ASSUME NEW s, Is(s)' = Is(s)
  PROVE  Cardinality(Is(s))' = Cardinality(Is(s))
BY Zenon

LEMMA CountedInit == MrInit => Counted
<1> SUFFICES ASSUME MrInit PROVE Counted
  OBVIOUS
<1>1. Is("active") = {}  BY DEF MrInit, Is
<1>2. Cardinality(Is("active")) = 0  BY <1>1, FS_EmptySet, Zenon
<1> QED  BY <1>2, SlotAssumption DEF MrInit, Counted, Clients, InLine

\* What the steps do to the numbers of those under way and those woken.
LEMMA StartCounts ==
  ASSUME Counted, NEW c \in Client, Start(c) \/ Turn(c)
  PROVE  Is("active")' = Is("active") /\ Is("woken")' = Is("woken")
BY DEF Counted, Clients, InLine, Start, Turn, Is

LEMMA AcquireCounts ==
  ASSUME Counted, NEW c \in Client, Acquire(c)
  PROVE  /\ Is("woken")' = Is("woken")
         /\ IF inUse < MaxSlots THEN Is("active")' = Is("active") \cup {c} /\ c \notin Is("active")
                                ELSE Is("active")' = Is("active")
BY DEF Counted, Clients, InLine, Acquire, Is

LEMMA GoOnCounts ==
  ASSUME Counted, NEW c \in Client, GoOn(c)
  PROVE  /\ Is("woken")' = Is("woken") \ {c} /\ c \in Is("woken")
         /\ Is("active")' = Is("active") \cup {c} /\ c \notin Is("active")
BY DEF Counted, Clients, InLine, GoOn, Is

LEMMA ReleaseCounts ==
  ASSUME Counted, NEW c \in Client, Release(c)
  PROVE  /\ Is("active")' = Is("active") \ {c} /\ c \in Is("active")
         /\ IF line = <<>> THEN Is("woken")' = Is("woken")
            ELSE /\ Head(line) \in Client /\ Head(line) \notin Is("woken")
                 /\ Is("woken")' = Is("woken") \cup {Head(line)}
<1>1. CASE line = <<>>
  BY <1>1 DEF Counted, Clients, InLine, Release, Is
<1>2. CASE line # <<>>
  <2>1. Head(line) = line[1] /\ 1 \in 1..Len(line)  BY <1>2 DEF Counted, Clients, InLine
  <2>2. Head(line) \in Client /\ at[Head(line)] = "queued"  BY <2>1, <1>2 DEF Counted, Clients, InLine
  <2>3. at' = [at EXCEPT ![c] = "tools", ![Head(line)] = "woken"] /\ at[c] = "active"
    BY <1>2 DEF Release
  <2> QED  BY <1>2, <2>2, <2>3 DEF Counted, Clients, InLine, Is
<1> QED  BY <1>1, <1>2

LEMMA ClientsStep == Counted /\ [MrNext]_mrVars => Clients'
<1> SUFFICES ASSUME Counted, [MrNext]_mrVars PROVE Clients'
  OBVIOUS
<1> USE SlotAssumption
<1>1. ASSUME NEW c \in Client, Start(c) \/ Acquire(c) \/ GoOn(c) \/ Turn(c)  PROVE Clients'
  BY <1>1 DEF Start, Acquire, GoOn, Turn, Counted, Clients
<1>2. ASSUME NEW c \in Client, Release(c)  PROVE Clients'
  <2>1. CASE line = <<>>  BY <1>2, <2>1 DEF Release, Counted, Clients
  <2>2. CASE line # <<>>
    <3>1. Head(line) \in Client  BY <2>2 DEF Counted, InLine
    <3> QED  BY <1>2, <2>2, <3>1 DEF Release, Counted, Clients
  <2> QED  BY <2>1, <2>2
<1>3. CASE UNCHANGED mrVars  BY <1>3 DEF Counted, Clients, mrVars
<1> QED  BY <1>1, <1>2, <1>3 DEF MrNext

\* Nobody in the line moves but its head.
LEMMA InLineStep == Counted /\ [MrNext]_mrVars => InLine'
<1> SUFFICES ASSUME Counted, [MrNext]_mrVars PROVE InLine'
  OBVIOUS
<1>0. /\ line \in Seq(Client) /\ \A i \in 1..Len(line) : line[i] \in Client /\ at[line[i]] = "queued"
      /\ \A i, j \in 1..Len(line) : line[i] = line[j] => i = j
      /\ at \in [Client -> {"idle", "asking", "queued", "woken", "active", "tools", "settled"}]
  BY DEF Counted, Clients, InLine
<1>1. ASSUME NEW c \in Client, Start(c) \/ GoOn(c) \/ Turn(c) \/ (Acquire(c) /\ inUse < MaxSlots)
      PROVE InLine'
  <2>1. line' = line /\ at[c] # "queued" /\ \A d \in Client : d # c => at'[d] = at[d]
    BY <1>0, <1>1 DEF Start, GoOn, Turn, Acquire
  <2>2. \A i \in 1..Len(line) : at'[line[i]] = "queued"  BY <1>0, <2>1
  <2> QED  BY <1>0, <2>1, <2>2 DEF InLine
<1>2. ASSUME NEW c \in Client, Acquire(c), ~(inUse < MaxSlots)  PROVE InLine'
  <2>1. at' = [at EXCEPT ![c] = "queued"] /\ line' = Append(line, c) /\ at[c] = "asking"
    BY <1>2 DEF Acquire
  <2>2. line' \in Seq(Client) /\ Len(line') = Len(line) + 1
        /\ \A i \in 1..Len(line') : line'[i] = IF i = Len(line) + 1 THEN c ELSE line[i]
    BY <2>1, <1>0
  <2>3. \A i \in 1..Len(line) : line[i] # c  BY <2>1, <1>0
  <2>4. Len(line) \in Nat  BY <1>0
  <2>5. \A i \in 1..Len(line') : i = Len(line) + 1 \/ i \in 1..Len(line)  BY <2>2, <2>4
  <2>6. \A i \in 1..Len(line') : at'[line'[i]] = "queued"  BY <1>0, <2>1, <2>2, <2>5
  <2>7. ASSUME NEW i \in 1..Len(line'), NEW j \in 1..Len(line'), line'[i] = line'[j]  PROVE i = j
    BY <1>0, <2>2, <2>3, <2>5, <2>7
  <2> QED  BY <2>2, <2>6, <2>7 DEF InLine
<1>3. ASSUME NEW c \in Client, Release(c), line = <<>>  PROVE InLine'
  BY <1>3 DEF Release, InLine
<1>4. ASSUME NEW c \in Client, Release(c), line # <<>>  PROVE InLine'
  <2>1. at' = [at EXCEPT ![c] = "tools", ![Head(line)] = "woken"] /\ line' = Tail(line) /\ at[c] = "active"
    BY <1>4 DEF Release
  <2>2. /\ Head(line) = line[1] /\ line' \in Seq(Client) /\ Len(line) \in Nat /\ Len(line') = Len(line) - 1
        /\ \A i \in 1..Len(line') : line'[i] = line[i + 1]
        /\ 1 \in 1..Len(line)
    BY <1>4, <1>0, <2>1
  <2>3. \A i \in 1..Len(line') : i + 1 \in 1..Len(line) /\ i + 1 # 1  BY <2>2
  <2>4. \A i \in 1..Len(line') : line'[i] # line[1] /\ line'[i] \in Client /\ at[line'[i]] = "queued"
    BY <1>0, <2>2, <2>3
  <2>5. \A i \in 1..Len(line') : at'[line'[i]] = "queued"  BY <1>0, <2>1, <2>2, <2>4
  <2>6. ASSUME NEW i \in 1..Len(line'), NEW j \in 1..Len(line'), line'[i] = line'[j]  PROVE i = j
    <3>1. line[i + 1] = line[j + 1]  BY <2>2, <2>6
    <3>2. i + 1 = j + 1  BY <3>1, <2>3, <1>0
    <3>3. i \in Int /\ j \in Int  OBVIOUS
    <3> QED  BY <3>2, <3>3
  <2> QED  BY <2>2, <2>5, <2>6 DEF InLine
<1>5. CASE UNCHANGED mrVars  BY <1>5 DEF Counted, InLine, mrVars
<1> QED  BY <1>1, <1>2, <1>3, <1>4, <1>5 DEF MrNext

\* The counter follows those under way.
LEMMA CountedStep == Counted /\ [MrNext]_mrVars => Counted'
<1> SUFFICES ASSUME Counted, [MrNext]_mrVars PROVE Counted'
  OBVIOUS
<1> DEFINE N == Cardinality(Is("active"))
<1>0. N = inUse /\ N \in Nat  BY FewOfEach DEF Counted
<1>1. SUFFICES inUse' = N'  BY ClientsStep, InLineStep DEF Counted
<1>2. ASSUME NEW c \in Client, Start(c) \/ Turn(c)  PROVE inUse' = N'
  <2>1. N' = N  BY <1>2, StartCounts, SameNumber
  <2> QED  BY <1>0, <1>2, <2>1 DEF Start, Turn
<1>3. ASSUME NEW c \in Client, Acquire(c)  PROVE inUse' = N'
  <2>1. CASE inUse < MaxSlots
    <3>1. N' = N + 1  BY <1>3, <2>1, AcquireCounts, JoinsOne
    <3>2. inUse' = inUse + 1  BY <1>3, <2>1 DEF Acquire
    <3> QED  BY <1>0, <3>1, <3>2
  <2>2. CASE ~(inUse < MaxSlots)
    <3>1. N' = N  BY <1>3, <2>2, AcquireCounts, SameNumber
    <3>2. inUse' = inUse  BY <1>3, <2>2 DEF Acquire
    <3> QED  BY <1>0, <3>1, <3>2
  <2> QED  BY <2>1, <2>2
<1>4. ASSUME NEW c \in Client, GoOn(c)  PROVE inUse' = N'
  <2>1. N' = N + 1  BY <1>4, GoOnCounts, JoinsOne
  <2>2. inUse' = inUse + 1  BY <1>4 DEF GoOn
  <2> QED  BY <1>0, <2>1, <2>2
<1>5. ASSUME NEW c \in Client, Release(c)  PROVE inUse' = N'
  <2>1. N' = N - 1  BY <1>5, ReleaseCounts, LeavesOne
  <2>2. inUse' = inUse - 1  BY <1>5 DEF Release
  <2> QED  BY <1>0, <2>1, <2>2
<1>6. CASE UNCHANGED mrVars
  <2>1. Is("active")' = Is("active")  BY <1>6 DEF mrVars, Is
  <2>2. N' = N  BY <2>1, SameNumber
  <2> QED  BY <1>0, <1>6, <2>2 DEF mrVars
<1> QED  BY <1>2, <1>3, <1>4, <1>5, <1>6 DEF MrNext

\* The slots in use or promised, and what has been overtaken.
LEMMA OverrunInit == MrInit => OverrunIsOvertaking
<1> SUFFICES ASSUME MrInit PROVE OverrunIsOvertaking
  OBVIOUS
<1>1. Is("woken") = {}  BY DEF MrInit, Is
<1>2. Cardinality(Is("woken")) = 0  BY <1>1, FS_EmptySet, Zenon
<1> QED  BY <1>2, SlotAssumption DEF MrInit, OverrunIsOvertaking

LEMMA OverrunStep == Counted /\ OverrunIsOvertaking /\ [MrNext]_mrVars => OverrunIsOvertaking'
<1> SUFFICES ASSUME Counted, OverrunIsOvertaking, [MrNext]_mrVars PROVE OverrunIsOvertaking'
  OBVIOUS
<1> DEFINE W == Cardinality(Is("woken"))
<1>0. W \in Nat /\ inUse \in Nat /\ overtaken \in Nat /\ MaxSlots \in Nat /\ inUse + W <= MaxSlots + overtaken
  BY FewOfEach, SlotAssumption DEF Counted, Clients, InLine, OverrunIsOvertaking
<1>9. SUFFICES inUse' + W' <= MaxSlots + overtaken'
  BY DEF OverrunIsOvertaking
<1>1. ASSUME NEW c \in Client, Start(c) \/ Turn(c)  PROVE inUse' + W' <= MaxSlots + overtaken'
  <2>1. W' = W  BY <1>1, StartCounts, SameNumber
  <2>2. inUse' = inUse /\ overtaken' = overtaken  BY <1>1 DEF Start, Turn
  <2> HIDE DEF W
  <2> QED  BY <1>0, <2>1, <2>2
<1>2. ASSUME NEW c \in Client, Acquire(c)  PROVE inUse' + W' <= MaxSlots + overtaken'
  <2>1. W' = W  BY <1>2, AcquireCounts, SameNumber
  <2>2. Is("woken") = {} => W = 0  BY FS_EmptySet, Zenon
  <2>3. \/ inUse' = inUse /\ overtaken' = overtaken
        \/ /\ inUse < MaxSlots /\ inUse' = inUse + 1
           /\ (overtaken' = overtaken /\ Is("woken") = {}) \/ overtaken' = overtaken + 1
    BY <1>2 DEF Acquire
  <2> HIDE DEF W
  <2>4. \/ inUse' = inUse /\ overtaken' = overtaken
        \/ /\ inUse < MaxSlots /\ inUse' = inUse + 1
           /\ (overtaken' = overtaken /\ W = 0) \/ overtaken' = overtaken + 1
    BY <2>2, <2>3, Zenon
  <2> QED  BY <1>0, <2>1, <2>4
<1>3. ASSUME NEW c \in Client, GoOn(c)  PROVE inUse' + W' <= MaxSlots + overtaken'
  <2>1. W' = W - 1  BY <1>3, GoOnCounts, LeavesOne
  <2>2. inUse' = inUse + 1 /\ overtaken' = overtaken  BY <1>3 DEF GoOn
  <2> HIDE DEF W
  <2> QED  BY <1>0, <2>1, <2>2
<1>4. ASSUME NEW c \in Client, Release(c)  PROVE inUse' + W' <= MaxSlots + overtaken'
  <2>1. inUse' = inUse - 1 /\ overtaken' = overtaken  BY <1>4 DEF Release
  <2>2. W' = W \/ W' = W + 1
    <3>1. CASE line = <<>>  BY <1>4, <3>1, ReleaseCounts, SameNumber
    <3>2. CASE line # <<>>  BY <1>4, <3>2, ReleaseCounts, JoinsOne
    <3> QED  BY <3>1, <3>2
  <2> HIDE DEF W
  <2> QED  BY <1>0, <2>1, <2>2
<1>5. CASE UNCHANGED mrVars
  <2>1. Is("woken")' = Is("woken")  BY <1>5 DEF mrVars, Is
  <2>2. W' = W  BY <2>1, SameNumber
  <2>3. inUse' = inUse /\ overtaken' = overtaken  BY <1>5 DEF mrVars
  <2> HIDE DEF W
  <2> QED  BY <1>0, <2>2, <2>3
<1> QED  BY <1>1, <1>2, <1>3, <1>4, <1>5 DEF MrNext

\* A slot that is given back is promised to the first of those who wait.
LEMMA IdleStep == Counted /\ NoSlotIsIdle /\ [MrNext]_mrVars => NoSlotIsIdle'
<1> SUFFICES ASSUME Counted, NoSlotIsIdle, [MrNext]_mrVars, line' # <<>> PROVE NoSlotIsIdle'
  BY DEF NoSlotIsIdle
<1> DEFINE W == Cardinality(Is("woken"))
<1>0. /\ W \in Nat /\ inUse \in Nat /\ MaxSlots \in Nat /\ line \in Seq(Client)
      /\ line # <<>> => inUse + W >= MaxSlots
  BY FewOfEach, SlotAssumption DEF Counted, InLine, NoSlotIsIdle
<1>9. SUFFICES inUse' + W' >= MaxSlots
  BY DEF NoSlotIsIdle
<1>1. ASSUME NEW c \in Client, Start(c) \/ Turn(c)  PROVE inUse' + W' >= MaxSlots
  <2>1. W' = W  BY <1>1, StartCounts, SameNumber
  <2>2. inUse' = inUse /\ line' = line  BY <1>1 DEF Start, Turn
  <2> HIDE DEF W
  <2> QED  BY <1>0, <2>1, <2>2
<1>2. ASSUME NEW c \in Client, Acquire(c)  PROVE inUse' + W' >= MaxSlots
  <2>1. W' = W  BY <1>2, AcquireCounts, SameNumber
  <2>2. \/ inUse >= MaxSlots /\ inUse' = inUse
        \/ inUse' = inUse + 1 /\ line' = line
    BY <1>0, <1>2 DEF Acquire
  <2> HIDE DEF W
  <2> QED  BY <1>0, <2>1, <2>2
<1>3. ASSUME NEW c \in Client, GoOn(c)  PROVE inUse' + W' >= MaxSlots
  <2>1. W' = W - 1  BY <1>3, GoOnCounts, LeavesOne
  <2>2. inUse' = inUse + 1 /\ line' = line  BY <1>3 DEF GoOn
  <2> HIDE DEF W
  <2> QED  BY <1>0, <2>1, <2>2
<1>4. ASSUME NEW c \in Client, Release(c)  PROVE inUse' + W' >= MaxSlots
  <2>1. inUse' = inUse - 1 /\ line # <<>>  BY <1>4 DEF Release
  <2>2. W' = W + 1  BY <1>4, <2>1, ReleaseCounts, JoinsOne
  <2> HIDE DEF W
  <2> QED  BY <1>0, <2>1, <2>2
<1>5. CASE UNCHANGED mrVars
  <2>1. Is("woken")' = Is("woken")  BY <1>5 DEF mrVars, Is
  <2>2. W' = W  BY <2>1, SameNumber
  <2>3. inUse' = inUse /\ line' = line  BY <1>5 DEF mrVars
  <2> HIDE DEF W
  <2> QED  BY <1>0, <2>2, <2>3
<1> QED  BY <1>1, <1>2, <1>3, <1>4, <1>5 DEF MrNext

\* A reader that has settled stays so, and the writer starts when all have.
LEMMA WriterStep == Counted /\ WriterIsAlone /\ [MrNext]_mrVars => WriterIsAlone'
<1> SUFFICES ASSUME Counted, WriterIsAlone, [MrNext]_mrVars PROVE WriterIsAlone'
  OBVIOUS
<1> DEFINE Stays == \A d \in Client : at[d] = "settled" => at'[d] = "settled"
<1>1. Stays
  <2>1. ASSUME NEW c \in Client, Start(c) \/ Acquire(c) \/ GoOn(c) \/ Turn(c)  PROVE Stays
    BY <2>1 DEF Start, Acquire, GoOn, Turn, Counted, Clients, InLine
  <2>2. ASSUME NEW c \in Client, Release(c)  PROVE Stays
    <3>1. CASE line = <<>>  BY <2>2, <3>1 DEF Release, Counted, Clients, InLine
    <3>2. CASE line # <<>>
      <4>1. at[Head(line)] = "queued"  BY <3>2 DEF Counted, Clients, InLine
      <4> QED  BY <2>2, <3>2, <4>1 DEF Release, Counted, Clients, InLine
    <3> QED  BY <3>1, <3>2
  <2>3. CASE UNCHANGED mrVars  BY <2>3 DEF mrVars
  <2> QED  BY <2>1, <2>2, <2>3 DEF MrNext
<1>2. Settled => Settled'  BY <1>1 DEF Settled, Client
<1> DEFINE Alone == \A w \in Writer : at[w] = "idle" /\ at'[w] # "idle" => Settled
<1>3. Alone
  <2>1. ASSUME NEW c \in Client, Start(c)  PROVE Alone
    BY <2>1 DEF Start, Counted, Clients, InLine, Client
  <2>2. ASSUME NEW c \in Client, Acquire(c) \/ GoOn(c) \/ Turn(c) \/ Release(c)  PROVE Alone
    <3>1. line # <<>> => at[Head(line)] = "queued"  BY DEF Counted, Clients, InLine
    <3>2. \A w \in Client : at[w] = "idle" => at'[w] = "idle"
      BY <2>2, <3>1 DEF Acquire, GoOn, Turn, Release, Counted, Clients, InLine
    <3> QED  BY <3>2 DEF Client
  <2>3. CASE UNCHANGED mrVars  BY <2>3 DEF mrVars
  <2> QED  BY <2>1, <2>2, <2>3 DEF MrNext
<1>4. \A w \in Writer : at[w] # "idle" => Settled  BY DEF WriterIsAlone
<1> QED  BY <1>2, <1>3, <1>4 DEF WriterIsAlone

-----------------------------------------------------------------------------
(* The theorems.                                                           *)

\* Slots, queue and clients stay what they are, the counter included
\* (model-request-semaphore.ts).
THEOREM MrTypeCorrect == MrSpec => []MrTypeOK
<1>1. Counted => MrTypeOK  BY FewOfEach DEF Counted, Clients, InLine, MrTypeOK
<1> QED  BY <1>1, CountedInit, CountedStep, PTL DEF MrSpec

\* The limit on model requests is exceeded by as many requests as have come between the
\* waking of a waiter and its next step, and by no others.
THEOREM OverrunExplained == MrSpec => []OverrunIsOvertaking
<1> QED  BY CountedInit, CountedStep, OverrunInit, OverrunStep, PTL DEF MrSpec

\* Whatever the limit and the order of requests, nobody queues for a model while a slot is
\* neither in use nor promised (model-request-semaphore.ts).
THEOREM NoWakingIsLost == MrSpec => []NoSlotIsIdle
<1>1. MrInit => NoSlotIsIdle  BY DEF MrInit, NoSlotIsIdle
<1> QED  BY <1>1, CountedInit, CountedStep, IdleStep, PTL DEF MrSpec

\* The writer of a parallel run never works beside a reader (parallel-model-executor.ts).
THEOREM WriterWorksAlone == MrSpec => []WriterIsAlone
<1>1. MrInit => WriterIsAlone  BY DEF MrInit, WriterIsAlone, Client
<1> QED  BY <1>1, CountedInit, CountedStep, WriterStep, PTL DEF MrSpec

-----------------------------------------------------------------------------
(* MediaManager: stop ends the tunnels. *)

\* What this.tunnel, the processes and what an exit event erased have to do with each other.
Accounted ==
  /\ ssh \in [Tunnel -> {"gone", "connecting", "open", "killed"}]
  /\ link \subseteq Running /\ erased \subseteq Running /\ link \cap erased = {}
  /\ Running \subseteq link \cup erased
  /\ stopped \in BOOLEAN /\ (stopped => link = {})

LEMMA AccountedInit == MmInit => Accounted
BY DEF MmInit, Accounted, Running

\* A signal to this.tunnel leaves the erased ones running, and nothing is link.
LEMMA KillAccounts ==
  ASSUME Accounted, Kill, stopped' \in BOOLEAN
  PROVE  Accounted'
BY DEF Accounted, Kill, Killed, Running

\* A process that is gone is not erased, what was link is.
LEMMA ExitAccounts ==
  ASSUME Accounted, NEW t \in Tunnel, Exits(t)
  PROVE  Accounted'
BY DEF Accounted, Exits, flags, Running

LEMMA SameAccounts ==
  ASSUME Accounted, UNCHANGED procs, UNCHANGED stopped
  PROVE  Accounted'
BY DEF Accounted, procs, Running

\* A process takes the place of this.tunnel; after a stop it is told to end at once.
LEMMA EnsureAccounts == Accounted /\ EnsureTunnel => Accounted'
<1> SUFFICES ASSUME Accounted, EnsureTunnel PROVE Accounted'
  OBVIOUS
<1>0. UNCHANGED stopped  BY DEF EnsureTunnel, Fails, Proceeds, flags
<1>1. CASE UNCHANGED procs  BY <1>0, <1>1, SameAccounts
<1>2. ASSUME NEW t \in Tunnel,
             ssh[t] = "gone",
             ssh' = [Killed EXCEPT ![t] = IF stopped THEN "killed" ELSE "connecting"],
             link' = IF stopped THEN {} ELSE {t},
             UNCHANGED erased
      PROVE  Accounted'
  <2>1. t \notin link /\ t \notin erased  BY <1>2 DEF Accounted, Running
  <2>2. CASE stopped  BY <1>0, <1>2, <2>1, <2>2 DEF Accounted, Running, Killed
  <2>3. CASE ~stopped  BY <1>0, <1>2, <2>1, <2>3 DEF Accounted, Running, Killed
  <2> QED  BY <2>2, <2>3
<1> QED  BY <1>1, <1>2 DEF EnsureTunnel

LEMMA AccountedStep == Accounted /\ [MmNext]_mmVars => Accounted'
<1> SUFFICES ASSUME Accounted, [MmNext]_mmVars PROVE Accounted'
  OBVIOUS
<1>1. CASE PodStarts \/ PodStops \/ ModelsLoad \/ MonitorTick \/ Reconnect
  BY <1>1, SameAccounts DEF PodStarts, PodStops, ModelsLoad, MonitorTick, Reconnect, flags
<1>2. CASE FindEndpoint \/ StartPod \/ AwaitPod \/ RestoreService \/ AwaitModels
  BY <1>2, SameAccounts
     DEF FindEndpoint, StartPod, AwaitPod, RestoreService, AwaitModels, Fails, Proceeds, flags
<1>3. CASE EnsureTunnel  BY <1>3, EnsureAccounts
<1>4. CASE PollTunnel
  <2>1. UNCHANGED stopped  BY <1>4 DEF PollTunnel, Fails, Proceeds, flags
  <2>2. stopped' \in BOOLEAN  BY <2>1 DEF Accounted
  <2> QED  BY <1>4, <2>1, <2>2, SameAccounts, KillAccounts DEF PollTunnel
<1>5. CASE MonitorOnce
  <2>1. UNCHANGED stopped  BY <1>5 DEF MonitorOnce
  <2>2. stopped' \in BOOLEAN  BY <2>1 DEF Accounted
  <2> QED  BY <1>5, <2>1, <2>2, SameAccounts, KillAccounts DEF MonitorOnce, procs
<1>6. CASE StopManager  BY <1>6, KillAccounts DEF StopManager
<1>7. ASSUME NEW t \in Tunnel, Connects(t)  PROVE Accounted'
  BY <1>7 DEF Connects, Accounted, flags, Running
<1>8. ASSUME NEW t \in Tunnel, Ends(t) \/ Drops(t)  PROVE Accounted'
  BY <1>8, ExitAccounts DEF Ends, Drops
<1>9. CASE UNCHANGED mmVars  BY <1>9, SameAccounts DEF mmVars, flags
<1> QED  BY <1>1, <1>2, <1>3, <1>4, <1>5, <1>6, <1>7, <1>8, <1>9 DEF MmNext, Initialization

\* After stop no process runs on but those whose reference an exit event had erased
\* (runpod-media-manager.ts: stop, ensureTunnel and its exit listener).
THEOREM StopEndsAll == MmSpec => []StopEndsTunnels
<1>1. Accounted => StopEndsTunnels  BY DEF Accounted, StopEndsTunnels
<1> QED  BY <1>1, AccountedInit, AccountedStep, PTL DEF MmSpec

\* The places of an initialization, the flags, the pod, and what is used up of the bounds.
Places ==
  /\ pod \in {"off", "starting", "on"} /\ service \in {"down", "loading", "serving"}
  /\ stage \in {"none", "endpoint", "starting", "waiting", "ssh", "service", "tunnel",
                "polling", "models"}
  /\ looking \in BOOLEAN /\ startRequested \in BOOLEAN /\ ready \in BOOLEAN
Bounds == podStops \in 0..MaxPodStops /\ outages \in 0..MaxOutages /\ reconnects \in 0..MaxReconnects

LEMMA PlacesStep == Places /\ [MmNext]_mmVars => Places'
<1> SUFFICES ASSUME Places, [MmNext]_mmVars PROVE Places'
  OBVIOUS
<1>1. CASE PodStarts \/ PodStops \/ ModelsLoad \/ StopManager
  BY <1>1 DEF Places, PodStarts, PodStops, ModelsLoad, StopManager, world, flags
<1>2. CASE FindEndpoint  BY <1>2 DEF Places, FindEndpoint, Fails, Proceeds, world, flags
<1>3. CASE StartPod  BY <1>3 DEF Places, StartPod, Fails
<1>4. CASE AwaitPod  BY <1>4 DEF Places, AwaitPod, Fails, Proceeds, world, flags
<1>5. CASE RestoreService  BY <1>5 DEF Places, RestoreService, Fails, Proceeds, flags
<1>6. CASE EnsureTunnel  BY <1>6 DEF Places, EnsureTunnel, Fails, Proceeds, world, flags
<1>7. CASE PollTunnel  BY <1>7 DEF Places, PollTunnel, Fails, Proceeds, world, flags
<1>8. CASE AwaitModels  BY <1>8 DEF Places, AwaitModels, Fails, world
<1>9. CASE MonitorTick \/ MonitorOnce \/ Reconnect
  BY <1>9 DEF Places, MonitorTick, MonitorOnce, Reconnect, Initialize, world, flags
<1>10. ASSUME NEW t \in Tunnel, Connects(t) \/ Ends(t) \/ Drops(t)  PROVE Places'
  BY <1>10 DEF Places, Connects, Ends, Drops, Exits, world, flags
<1>11. CASE UNCHANGED mmVars  BY <1>11 DEF Places, mmVars, world, flags
<1> QED  BY <1>1, <1>2, <1>3, <1>4, <1>5, <1>6, <1>7, <1>8, <1>9, <1>10, <1>11
         DEF MmNext, Initialization

LEMMA BoundsStep == Bounds /\ [MmNext]_mmVars => Bounds'
<1> SUFFICES ASSUME Bounds, [MmNext]_mmVars PROVE Bounds'
  OBVIOUS
<1> USE BoundAssumption
<1>0. ASSUME UNCHANGED <<podStops, reconnects>>, Outage \/ Works  PROVE Bounds'
  BY <1>0 DEF Bounds, Outage, Works
<1>1. CASE UNCHANGED <<podStops, outages, reconnects>>  BY <1>1 DEF Bounds
<1>2. CASE PodStops  BY <1>2 DEF Bounds, PodStops
<1>3. CASE Reconnect  BY <1>3 DEF Bounds, Reconnect, world
<1>4. CASE PodStarts \/ ModelsLoad \/ MonitorTick \/ StopManager
  BY <1>1, <1>4 DEF PodStarts, ModelsLoad, MonitorTick, StopManager, world
<1>5. CASE FindEndpoint  BY <1>0, <1>5 DEF FindEndpoint, world
<1>6. CASE StartPod  BY <1>0, <1>6 DEF StartPod
<1>7. CASE AwaitPod  BY <1>0, <1>7 DEF AwaitPod, world
<1>8. CASE RestoreService  BY <1>0, <1>8 DEF RestoreService
<1>9. CASE EnsureTunnel  BY <1>0, <1>9 DEF EnsureTunnel, world
<1>10. CASE PollTunnel  BY <1>0, <1>10 DEF PollTunnel, world
<1>11. CASE AwaitModels  BY <1>1, <1>11 DEF AwaitModels, world
<1>12. CASE MonitorOnce  BY <1>0, <1>12 DEF MonitorOnce, world
<1>13. ASSUME NEW t \in Tunnel, Connects(t)  PROVE Bounds'
  BY <1>1, <1>13 DEF Connects, world
<1>14. ASSUME NEW t \in Tunnel, Ends(t) \/ Drops(t)  PROVE Bounds'
  BY <1>0, <1>14 DEF Ends, Drops, Exits, world
<1>15. CASE UNCHANGED mmVars  BY <1>1, <1>15 DEF mmVars, world
<1> QED  BY <1>2, <1>3, <1>4, <1>5, <1>6, <1>7, <1>8, <1>9, <1>10, <1>11, <1>12, <1>13, <1>14,
            <1>15 DEF MmNext, Initialization

\* this.tunnel is never more than one process.
LEMMA OneHeld == Accounted /\ Cardinality(link) <= 1 /\ [MmNext]_mmVars => Cardinality(link)' <= 1
<1> SUFFICES ASSUME Accounted, Cardinality(link) <= 1, [MmNext]_mmVars
             PROVE  Cardinality(link)' <= 1
  OBVIOUS
<1>1. link' = link \/ link' = {} \/ \E t \in Tunnel : link' = {t}
  BY DEF MmNext, PodStarts, PodStops, ModelsLoad, Initialization, FindEndpoint, StartPod, AwaitPod,
         RestoreService, EnsureTunnel, PollTunnel, AwaitModels, MonitorTick, MonitorOnce,
         Reconnect, StopManager, Connects, Ends, Drops, Exits, mmVars, procs, Kill
<1>2. CASE link' = link  BY <1>2, Zenon
<1>3. CASE link' = {}
  <2>1. Cardinality(link)' = 0  BY <1>3, FS_EmptySet, Zenon
  <2> QED  BY <2>1
<1>4. ASSUME NEW t \in Tunnel, link' = {t}  PROVE Cardinality(link)' <= 1
  <2>1. Cardinality({t}) = 1  BY FS_Singleton
  <2>2. Cardinality(link)' = 1  BY <1>4, <2>1, Zenon
  <2> QED  BY <2>2
<1> QED  BY <1>1, <1>2, <1>3, <1>4

MmInv == Accounted /\ Places /\ Bounds /\ Cardinality(link) <= 1

LEMMA NothingHeld == link = {} => Cardinality(link) <= 1
<1> SUFFICES ASSUME link = {} PROVE Cardinality(link) <= 1
  OBVIOUS
<1>1. Cardinality(link) = 0  BY FS_EmptySet, Zenon
<1> QED  BY <1>1

LEMMA MmInvInit == MmInit => MmInv
<1> SUFFICES ASSUME MmInit PROVE MmInv
  OBVIOUS
<1>1. Cardinality(link) <= 1  BY NothingHeld DEF MmInit
<1>2. Places  BY DEF MmInit, Places
<1>3. Bounds  BY BoundAssumption DEF MmInit, Bounds
<1> QED  BY <1>1, <1>2, <1>3, AccountedInit DEF MmInv

LEMMA MmInvStep == MmInv /\ [MmNext]_mmVars => MmInv'
<1> SUFFICES ASSUME MmInv, [MmNext]_mmVars PROVE MmInv'
  OBVIOUS
<1>1. Accounted /\ Places /\ Bounds /\ Cardinality(link) <= 1  BY DEF MmInv
<1>2. Accounted' /\ Places' /\ Bounds'  BY <1>1, AccountedStep, PlacesStep, BoundsStep
<1>3. Cardinality(link)' <= 1  BY <1>1, OneHeld
<1> QED  BY <1>2, <1>3 DEF MmInv

LEMMA MmInvTypes == MmInv => MmTypeOK /\ StopEndsTunnels
BY DEF MmInv, Accounted, Places, Bounds, MmTypeOK, StopEndsTunnels

\* The processes, this.tunnel, the places and flags stay what they are
\* (runpod-media-manager.ts).
THEOREM MmTypeCorrect == MmSpec => []MmTypeOK
<1> QED  BY MmInvInit, MmInvStep, MmInvTypes, PTL DEF MmSpec

-----------------------------------------------------------------------------
(* IndexRefresh: what a hash and an answer vouch for. *)

\* The states of files and rows, and what the place of the refresh says about them.
Stored ==
  /\ disk \in [Source -> Version \cup {Gone}] /\ hashOf \in [Source -> Version \cup {Gone}]
  /\ symbolAt \in [Source -> [Place -> Version \cup {Gone}]]
  /\ seen \in [Source -> Version \cup {Gone}] /\ left \subseteq Source
  /\ file \in Source /\ text \in Version \cup {Gone}
  /\ step \in {"none", "walk", "files", "delete", "deleteHash", "insert"}

\* Between its deletion and its insertion a file has no symbols; while they come, no hash.
Vouched ==
  /\ HashVouches
  /\ step = "deleteHash" => symbolAt[file] = NoSymbols
  /\ step = "insert" => /\ text # Gone /\ hashOf[file] = Gone
                        /\ \A s \in Place : symbolAt[file][s] \in {Gone, AllOf(text)[s]}

LEMMA NoSymbolsType == NoSymbols \in [Place -> Version \cup {Gone}]
BY DEF NoSymbols
LEMMA AllOfType ==
  ASSUME NEW v \in Version PROVE AllOf(v) \in [Place -> Version \cup {Gone}]
BY DEF AllOf

LEMMA StoredInit == IxInit => Stored /\ Vouched
<1> SUFFICES ASSUME IxInit PROVE Stored /\ Vouched
  OBVIOUS
<1>1. SomeFile \in Source  BY GoneAssumption DEF SomeFile
<1>2. \A p \in Source : symbolAt[p] = IF disk[p] = Gone THEN NoSymbols ELSE AllOf(disk[p])
  BY DEF IxInit
<1>3. symbolAt \in [Source -> [Place -> Version \cup {Gone}]]
  BY <1>2, NoSymbolsType, AllOfType DEF IxInit
<1>4. Stored  BY <1>1, <1>3 DEF IxInit, Stored
<1>5. Vouched  BY <1>2 DEF IxInit, Vouched, HashVouches
<1> QED  BY <1>4, <1>5

LEMMA StoredStep == Stored /\ [IxNext]_ixVars => Stored'
<1> SUFFICES ASSUME Stored, [IxNext]_ixVars PROVE Stored'
  OBVIOUS
<1>1. ASSUME NEW p \in Source, NEW v \in Version \cup {Gone},
             ChangeElsewhere(p, v) \/ \E e \in Editor : Edit(e, p, v)
      PROVE  Stored'
  BY <1>1 DEF Stored, ChangeElsewhere, Edit, Put, tables, scan
<1>2. CASE StartRefresh \/ Plan  BY <1>2 DEF Stored, StartRefresh, Plan, tables
<1>3. CASE DeleteSymbols  BY <1>3, NoSymbolsType DEF Stored, DeleteSymbols
<1>4. CASE DeleteHash  BY <1>4 DEF Stored, DeleteHash
<1>5. CASE PutHash  BY <1>5 DEF Stored, PutHash
<1>6. CASE Refreshed \/ BreakOff \/ ServerEnds
  BY <1>6 DEF Stored, Refreshed, BreakOff, ServerEnds, Answer, tables
<1>7. ASSUME NEW p \in Source, Walk(p)  PROVE Stored'
  BY <1>7 DEF Stored, Walk, tables
<1>8. ASSUME NEW p \in Source, TakeFile(p)  PROVE Stored'
  BY <1>8 DEF Stored, TakeFile, Answer, tables
<1>9. ASSUME NEW s \in Place, Insert(s)  PROVE Stored'
  BY <1>9 DEF Stored, Insert, scan
<1>10. CASE UNCHANGED ixVars  BY <1>10 DEF Stored, ixVars, tables, scan
<1> QED  BY <1>1, <1>2, <1>3, <1>4, <1>5, <1>6, <1>7, <1>8, <1>9, <1>10 DEF IxNext

\* A step that leaves the rows alone, and is not one from statement to statement.
LEMMA SameVouched ==
  ASSUME Vouched, UNCHANGED tables,
         UNCHANGED <<step, file, text>> \/ step' \notin {"deleteHash", "insert"}
  PROVE  Vouched'
BY DEF Vouched, HashVouches, tables

LEMMA VouchedStep == Stored /\ Vouched /\ [IxNext]_ixVars => Vouched'
<1> SUFFICES ASSUME Stored, Vouched, [IxNext]_ixVars PROVE Vouched'
  OBVIOUS
<1>1. ASSUME NEW p \in Source, NEW v \in Version \cup {Gone},
             ChangeElsewhere(p, v) \/ \E e \in Editor : Edit(e, p, v)
      PROVE  Vouched'
  BY <1>1, SameVouched DEF ChangeElsewhere, Edit, scan
<1>2. CASE StartRefresh \/ Plan \/ Refreshed \/ BreakOff \/ ServerEnds
  BY <1>2, SameVouched DEF StartRefresh, Plan, Refreshed, BreakOff, ServerEnds, Answer
<1>3. ASSUME NEW p \in Source, Walk(p) \/ TakeFile(p)  PROVE Vouched'
  BY <1>3, SameVouched DEF Walk, TakeFile, Answer
<1>4. CASE DeleteSymbols
  <2>1. symbolAt'[file] = NoSymbols  BY <1>4 DEF DeleteSymbols, Stored
  <2>2. \A p \in Source \ {file} : symbolAt'[p] = symbolAt[p]  BY <1>4 DEF DeleteSymbols, Stored
  <2>3. HashVouches'  BY <1>4, <2>1, <2>2 DEF DeleteSymbols, Vouched, HashVouches
  <2> QED  BY <1>4, <2>1, <2>3 DEF DeleteSymbols, Vouched
<1>5. CASE DeleteHash
  <2>1. hashOf'[file] = Gone  BY <1>5 DEF DeleteHash, Stored
  <2>2. \A p \in Source \ {file} : hashOf'[p] = hashOf[p]  BY <1>5 DEF DeleteHash, Stored
  <2>3. HashVouches'  BY <1>5, <2>1, <2>2 DEF DeleteHash, Vouched, HashVouches
  <2>4. \A s \in Place : symbolAt[file][s] = Gone  BY <1>5 DEF DeleteHash, Vouched, NoSymbols
  <2> QED  BY <1>5, <2>1, <2>3, <2>4 DEF DeleteHash, Vouched
<1>6. ASSUME NEW s \in Place, Insert(s)  PROVE Vouched'
  <2>1. \A p \in Source \ {file} : symbolAt'[p] = symbolAt[p]  BY <1>6 DEF Insert, Stored
  <2>2. HashVouches'  BY <1>6, <2>1 DEF Insert, Vouched, HashVouches, scan
  <2>3. symbolAt'[file] = [symbolAt[file] EXCEPT ![s] = text]  BY <1>6 DEF Insert, Stored
  <2>4. symbolAt[file] \in [Place -> Version \cup {Gone}]  BY DEF Stored
  <2>5. AllOf(text)[s] = text  BY <1>6 DEF Insert, AllOf
  <2>6. \A q \in Place : symbolAt'[file][q] \in {Gone, AllOf(text)[q]}
    BY <1>6, <2>3, <2>4, <2>5 DEF Insert, Vouched
  <2> QED  BY <1>6, <2>2, <2>6 DEF Insert, Vouched, scan, AllOf
<1>7. CASE PutHash
  <2>1. hashOf'[file] = text  BY <1>7 DEF PutHash, Stored
  <2>2. \A p \in Source \ {file} : hashOf'[p] = hashOf[p]  BY <1>7 DEF PutHash, Stored
  <2>3. HashVouches'  BY <1>7, <2>1, <2>2 DEF PutHash, Vouched, HashVouches, AllOf
  <2> QED  BY <1>7, <2>3 DEF PutHash, Vouched
<1>8. CASE UNCHANGED ixVars  BY <1>8, SameVouched DEF ixVars, scan
<1> QED  BY <1>1, <1>2, <1>3, <1>4, <1>5, <1>6, <1>7, <1>8 DEF IxNext

\* Wherever a refresh is broken off, and whatever is edited meanwhile, a hash stands for all
\* symbols of its version, or for a deletion that was broken off (indexer.ts: indexFile;
\* repository-store.ts: deleteFile).
THEOREM HashesVouch == IxSpec => []HashVouches
<1>1. Vouched => HashVouches  BY DEF Vouched
<1> QED  BY <1>1, StoredInit, StoredStep, VouchedStep, PTL DEF IxSpec

\* The queue of refreshes: each run that is in it waits and is in it once.
Queued ==
  /\ tail \in Seq(Editor)
  /\ \A i \in 1..Len(tail) : tail[i] \in Waiters
  /\ \A i, j \in 1..Len(tail) : tail[i] = tail[j] => i = j
  /\ step # "none" => tail # <<>>
  /\ told \in [Editor -> {"idle", "waiting", "fresh", "stale"}] /\ target \in [Editor -> Source]
  /\ since \in [Editor -> SUBSET (Version \cup {Gone})]

LEMMA QueuedInit == IxInit => Queued
<1> SUFFICES ASSUME IxInit PROVE Queued
  OBVIOUS
<1>1. SomeFile \in Source  BY GoneAssumption DEF SomeFile
<1> QED  BY <1>1 DEF IxInit, Queued

\* Whoever is first in the queue is answered, and the others wait on.
LEMMA AnswerQueues ==
  ASSUME Queued, NEW word \in {"fresh", "stale"}, tail # <<>>, Answer(word), UNCHANGED since
  PROVE  Queued'
<1>1. /\ Head(tail) = tail[1] /\ tail' \in Seq(Editor) /\ Len(tail') = Len(tail) - 1
      /\ \A i \in 1..Len(tail') : tail'[i] = tail[i + 1]
  BY DEF Answer, Queued
<1>2. \A i \in 1..Len(tail') : tail'[i] \in Waiters /\ tail'[i] # Head(tail)
  <2> TAKE i \in 1..Len(tail')
  <2>1. Len(tail) \in Nat  BY DEF Queued
  <2>2. i + 1 \in 1..Len(tail) /\ 1 \in 1..Len(tail) /\ i + 1 # 1  BY <1>1, <2>1
  <2>3. tail[i + 1] \in Waiters  BY <2>2 DEF Queued
  <2>4. tail[i + 1] # tail[1]  BY <2>2 DEF Queued
  <2> QED  BY <1>1, <2>3, <2>4
<1>3. \A i, j \in 1..Len(tail') : tail'[i] = tail'[j] => i = j
  BY <1>1 DEF Queued
<1>4. told' \in [Editor -> {"idle", "waiting", "fresh", "stale"}]
  BY DEF Answer, Queued
<1>5. \A i \in 1..Len(tail') : tail'[i] \in Waiters'
  BY <1>2, <1>4 DEF Answer, Queued, Waiters
<1> QED  BY <1>1, <1>3, <1>4, <1>5 DEF Answer, Queued

LEMMA EditQueues ==
  ASSUME Queued, NEW e \in Editor, NEW p \in Source, NEW v \in Version \cup {Gone}, Edit(e, p, v)
  PROVE  Queued'
<1>1. /\ tail' \in Seq(Editor) /\ Len(tail') = Len(tail) + 1
      /\ \A i \in 1..Len(tail) : tail'[i] = tail[i]
      /\ tail'[Len(tail) + 1] = e
  BY DEF Edit, Queued
<1>2. e \notin Waiters  BY DEF Edit
<1>3. \A i \in 1..Len(tail) : tail[i] # e  BY <1>2 DEF Queued
<1>4. told' \in [Editor -> {"idle", "waiting", "fresh", "stale"}] /\ told'[e] = "waiting"
  BY DEF Edit, Queued
<1>5. \A d \in Editor : d # e => told'[d] = told[d]  BY DEF Edit, Queued
<1>6. \A i \in 1..Len(tail') : tail'[i] \in Waiters'
  BY <1>1, <1>4, <1>5 DEF Queued, Waiters
<1>7. \A i, j \in 1..Len(tail') : tail'[i] = tail'[j] => i = j
  BY <1>1, <1>3 DEF Queued
<1>8. step' # "none" => tail' # <<>>  BY <1>1 DEF Queued
<1>9. target' \in [Editor -> Source] /\ since' \in [Editor -> SUBSET (Version \cup {Gone})]
  BY DEF Edit, Queued
<1> QED  BY <1>1, <1>4, <1>6, <1>7, <1>8, <1>9 DEF Queued

LEMMA QueuedStep == Queued /\ [IxNext]_ixVars => Queued'
<1> SUFFICES ASSUME Queued, [IxNext]_ixVars PROVE Queued'
  OBVIOUS
<1>1. ASSUME UNCHANGED runs, UNCHANGED since, step' = "none" \/ step # "none" \/ tail # <<>>
      PROVE  Queued'
  BY <1>1 DEF Queued, runs, Waiters
<1>2. ASSUME NEW p \in Source, NEW v \in Version \cup {Gone}, ChangeElsewhere(p, v)
      PROVE  Queued'
  <2>1. since' \in [Editor -> SUBSET (Version \cup {Gone})]  BY <1>2 DEF ChangeElsewhere, Queued
  <2> QED  BY <1>2, <2>1 DEF ChangeElsewhere, Queued, runs, scan, Waiters
<1>3. ASSUME NEW p \in Source, NEW v \in Version \cup {Gone}, NEW e \in Editor, Edit(e, p, v)
      PROVE  Queued'
  BY <1>3, EditQueues
<1>4. CASE StartRefresh \/ Plan \/ DeleteSymbols \/ DeleteHash \/ PutHash
  BY <1>1, <1>4 DEF StartRefresh, Plan, DeleteSymbols, DeleteHash, PutHash
<1>5. CASE Refreshed \/ BreakOff
  BY <1>5, AnswerQueues DEF Refreshed, BreakOff, Queued
<1>6. ASSUME NEW p \in Source, Walk(p)  PROVE Queued'
  BY <1>1, <1>6 DEF Walk
<1>7. ASSUME NEW p \in Source, TakeFile(p)  PROVE Queued'
  <2>1. tail # <<>> /\ UNCHANGED since  BY <1>7 DEF TakeFile, Queued
  <2>2. CASE Answer("stale")  BY <2>1, <2>2, AnswerQueues
  <2>3. CASE UNCHANGED runs  BY <1>1, <1>7, <2>1, <2>3
  <2> QED  BY <1>7, <2>2, <2>3 DEF TakeFile
<1>8. ASSUME NEW s \in Place, Insert(s)  PROVE Queued'
  BY <1>1, <1>8 DEF Insert, scan
<1>9. CASE ServerEnds  BY <1>9 DEF ServerEnds, Queued
<1>10. CASE UNCHANGED ixVars  BY <1>1, <1>10 DEF ixVars, scan
<1> QED  BY <1>2, <1>3, <1>4, <1>5, <1>6, <1>7, <1>8, <1>9, <1>10 DEF IxNext

\* What the refresh of run e has made of the file that e edited: seen it, put it on the list,
\* read it again, indexed it; each time as it was at the edit or later.
UnderWay == step \in {"delete", "deleteHash", "insert"}
Looked(e) ==
  LET p == target[e]
  IN  /\ step = "walk" /\ p \notin left => seen[p] \in since[e]
      /\ (step = "files" \/ UnderWay) /\ p \in left => seen[p] \in since[e]
      /\ UnderWay /\ file = p => text \in since[e]
      /\ (step = "files" \/ UnderWay) /\ p \notin left /\ ~(UnderWay /\ file = p)
           => hashOf[p] \in since[e]

Current ==
  /\ \A e \in Waiters : disk[target[e]] \in since[e]
  /\ UnderWay => file \notin left
  /\ step # "none" => Looked(Head(tail))

LEMMA HeadWaits ==
  ASSUME Queued, tail # <<>>
  PROVE  Head(tail) \in Waiters /\ Head(tail) \in Editor /\ target[Head(tail)] \in Source
<1>1. Len(tail) \in Nat /\ Len(tail) # 0  BY DEF Queued
<1>2. 1 \in 1..Len(tail) /\ Head(tail) = tail[1]  BY <1>1 DEF Queued
<1>3. Head(tail) \in Waiters  BY <1>2 DEF Queued
<1> QED  BY <1>3 DEF Waiters, Queued

LEMMA CurrentInit == IxInit => Current
BY DEF IxInit, Current, Waiters, UnderWay

\* Other edits only add to what the file of a waiting run has held.
LEMMA ChangeCurrent ==
  ASSUME Stored, Queued, Current, NEW p \in Source, NEW v \in Version \cup {Gone},
         ChangeElsewhere(p, v)
  PROVE  Current'
<1>1. \A d \in Editor : since[d] \subseteq since'[d]
  BY DEF ChangeElsewhere, Queued
<1>2. Waiters' = Waiters /\ target' = target /\ tail' = tail
  BY DEF ChangeElsewhere, runs, Waiters
<1>3. ASSUME NEW e \in Waiters  PROVE disk'[target[e]] \in since'[e]
  <2>1. e \in Editor /\ target[e] \in Source  BY DEF Waiters, Queued
  <2>2. CASE target[e] = p  BY <2>1, <2>2 DEF ChangeElsewhere, Put, Queued, Stored
  <2>3. CASE target[e] # p
    BY <1>1, <2>1, <2>3 DEF ChangeElsewhere, Put, Queued, Stored, Current
  <2> QED  BY <2>2, <2>3
<1>4. step' # "none" => Looked(Head(tail))'
  BY <1>1, <1>2, HeadWaits DEF ChangeElsewhere, Current, Looked, UnderWay, scan, tables, Queued
<1>5. UnderWay' => file' \notin left'  BY DEF ChangeElsewhere, Current, UnderWay, scan
<1> QED  BY <1>2, <1>3, <1>4, <1>5 DEF Current

LEMMA EditCurrent ==
  ASSUME Stored, Queued, Current, NEW e \in Editor, NEW p \in Source,
         NEW v \in Version \cup {Gone}, Edit(e, p, v)
  PROVE  Current'
<1>1. /\ e \notin Waiters
      /\ \A d \in Waiters : since[d] \subseteq since'[d] /\ target'[d] = target[d]
  BY DEF Edit, Queued, Waiters
<1>2. target'[e] = p /\ since'[e] = {v} /\ disk'[p] = v  BY DEF Edit, Put, Queued, Stored
<1>3. Waiters' \subseteq Waiters \cup {e}  BY DEF Edit, Waiters, Queued
<1>4. ASSUME NEW d \in Waiters'  PROVE disk'[target'[d]] \in since'[d]
  <2>1. CASE d = e  BY <1>2, <2>1
  <2>2. CASE d # e
    <3>1. d \in Waiters /\ d \in Editor /\ target[d] \in Source  BY <1>3, <2>2 DEF Waiters, Queued
    <3>2. CASE target[d] = p  BY <1>1, <1>2, <2>2, <3>1, <3>2 DEF Edit, Queued
    <3>3. CASE target[d] # p
      BY <1>1, <3>1, <3>3 DEF Edit, Put, Queued, Stored, Current
    <3> QED  BY <3>2, <3>3
  <2> QED  BY <2>1, <2>2
<1>5. step' # "none" => Looked(Head(tail))'
  <2> SUFFICES ASSUME step' # "none" PROVE Looked(Head(tail))'
    OBVIOUS
  <2>1. step = step' /\ tail # <<>>  BY DEF Edit, scan, Queued
  <2>2. Head(tail) \in Waiters  BY <2>1, HeadWaits
  <2>3. Head(tail') = Head(tail)  BY <2>1 DEF Edit, Queued
  <2>4. Looked(Head(tail))  BY <2>1 DEF Current
  <2>5. since[Head(tail)] \subseteq since'[Head(tail)] /\ target'[Head(tail)] = target[Head(tail)]
    BY <1>1, <2>2
  <2>6. UNCHANGED <<step, seen, left, file, text, hashOf>>  BY DEF Edit, scan, tables
  <2> QED  BY <2>3, <2>4, <2>5, <2>6 DEF Looked, UnderWay
<1>6. UnderWay' => file' \notin left'  BY DEF Edit, Current, UnderWay, scan
<1> QED  BY <1>4, <1>5, <1>6 DEF Current

\* The waiting runs and the files stay; the refresh goes on.
LEMMA SameFiles ==
  ASSUME Current, UNCHANGED <<disk, runs, since>>
  PROVE  \A e \in Waiters' : disk'[target'[e]] \in since'[e]
BY DEF Current, runs, Waiters

\* A refresh that is over leaves the others waiting.
LEMMA AnswerCurrent ==
  ASSUME Queued, Current, NEW word \in {"fresh", "stale"}, Answer(word), UNCHANGED <<disk, since>>
  PROVE  Current'
<1>1. Waiters' \subseteq Waiters  BY DEF Answer, Queued, Waiters
<1> QED  BY <1>1 DEF Current, Answer, UnderWay

LEMMA CurrentStep == Stored /\ Queued /\ Current /\ [IxNext]_ixVars => Current'
<1> SUFFICES ASSUME Stored, Queued, Current, [IxNext]_ixVars PROVE Current'
  OBVIOUS
<1> DEFINE h == Head(tail)
           q == target[h]
<1>0. step # "none" => h \in Waiters /\ q \in Source /\ Looked(h) /\ disk[q] \in since[h]
  BY HeadWaits DEF Queued, Current
<1>1. ASSUME NEW p \in Source, NEW v \in Version \cup {Gone},
             ChangeElsewhere(p, v) \/ \E e \in Editor : Edit(e, p, v)
      PROVE  Current'
  BY <1>1, ChangeCurrent, EditCurrent
<1>2. CASE StartRefresh
  BY <1>2, SameFiles, HeadWaits DEF StartRefresh, Current, Looked, UnderWay, runs
<1>3. ASSUME NEW p \in Source, Walk(p)  PROVE Current'
  BY <1>0, <1>3, SameFiles DEF Walk, Current, Looked, UnderWay, runs, Stored
<1>4. CASE Plan
  BY <1>0, <1>4, SameFiles DEF Plan, Current, Looked, UnderWay, runs, tables, Stored
<1>5. ASSUME NEW p \in Source, TakeFile(p)  PROVE Current'
  <2>1. CASE Answer("stale")  BY <1>5, <2>1, AnswerCurrent DEF TakeFile
  <2>2. CASE /\ step' = "delete" /\ left' = left \ {p} /\ file' = p
             /\ text' = IF seen[p] = Gone THEN Gone ELSE disk[p]
             /\ UNCHANGED runs
    BY <1>0, <1>5, <2>2, SameFiles DEF TakeFile, Current, Looked, UnderWay, runs, tables
  <2> QED  BY <1>5, <2>1, <2>2 DEF TakeFile
<1>6. CASE DeleteSymbols
  BY <1>0, <1>6, SameFiles DEF DeleteSymbols, Current, Looked, UnderWay, runs
<1>7. CASE DeleteHash
  BY <1>0, <1>7, SameFiles DEF DeleteHash, Current, Looked, UnderWay, runs, Stored
<1>8. ASSUME NEW s \in Place, Insert(s)  PROVE Current'
  BY <1>0, <1>8, SameFiles DEF Insert, Current, Looked, UnderWay, runs, scan
<1>9. CASE PutHash
  BY <1>0, <1>9, SameFiles DEF PutHash, Current, Looked, UnderWay, runs, Stored
<1>10. CASE Refreshed \/ BreakOff  BY <1>10, AnswerCurrent DEF Refreshed, BreakOff
<1>11. CASE ServerEnds  BY <1>11 DEF ServerEnds, Current, Waiters, UnderWay
<1>12. CASE UNCHANGED ixVars
  BY <1>0, <1>12, SameFiles DEF ixVars, Current, Looked, UnderWay, runs, scan, tables
<1> QED  BY <1>1, <1>2, <1>3, <1>4, <1>5, <1>6, <1>7, <1>8, <1>9, <1>10, <1>11, <1>12 DEF IxNext

\* Only the end of its own refresh tells a run that its file is indexed.
LEMMA OnlyFinishTells ==
  ASSUME Stored, Queued, Current, [IxNext]_ixVars, NEW e \in Waiters, told'[e] = "fresh"
  PROVE  hashOf[target[e]] \in since[e]
<1>0. e \in Editor /\ told[e] = "waiting"  BY DEF Waiters
<1>1. CASE Refreshed
  <2>1. e = Head(tail)  BY <1>0, <1>1 DEF Refreshed, Answer, Queued
  <2>2. target[e] \in Source /\ Looked(e)  BY <1>0, <1>1, <2>1 DEF Refreshed, Queued, Current
  <2> QED  BY <1>1, <2>2 DEF Refreshed, Looked, UnderWay
<1>2. CASE UNCHANGED told  BY <1>0, <1>2
<1>3. CASE Answer("stale") \/ ServerEnds  BY <1>0, <1>3 DEF Answer, ServerEnds, Queued
<1>4. ASSUME NEW p \in Source, NEW v \in Version \cup {Gone}, NEW d \in Editor, Edit(d, p, v)
      PROVE  FALSE
  BY <1>0, <1>4 DEF Edit, Queued
<1> QED  BY <1>1, <1>2, <1>3, <1>4
         DEF IxNext, ChangeElsewhere, StartRefresh, Plan, DeleteSymbols, DeleteHash, PutHash,
             Walk, TakeFile, Insert, BreakOff, ixVars, runs, scan

\* Whoever else edits and whatever fails, a run is told that its file's symbols are fresh only
\* when its file is indexed as it was at its edit or later (incremental-index-refresh.ts:
\* refreshSemanticIndex; indexer.ts: indexAll).
THEOREM FreshMeansCurrent == IxSpec => FreshIsCurrent
<1> DEFINE Inv == Stored /\ Queued /\ Current
<1>1. IxInit => Inv  BY StoredInit, QueuedInit, CurrentInit
<1>2. Inv /\ [IxNext]_ixVars => Inv'  BY StoredStep, QueuedStep, CurrentStep
<1>3. Inv /\ [IxNext]_ixVars
        => [\A e \in Waiters : told'[e] = "fresh" => hashOf[target[e]] \in since[e]]_ixVars
  BY OnlyFinishTells
<1> HIDE DEF Inv
<1> QED  BY <1>1, <1>2, <1>3, PTL DEF IxSpec, FreshIsCurrent

\* Every reachable state of the index and of its queue of refreshes is well typed, and each
\* run in the queue waits.
THEOREM IxTypeCorrect == IxSpec => []IxTypeOK
<1> DEFINE Counts == changes \in 0..MaxChanges /\ breaks \in 0..MaxBreaks
           Inv == Stored /\ Queued /\ Counts
<1>1. IxInit => Counts  BY IndexAssumption DEF IxInit
<1>2. Counts /\ [IxNext]_ixVars => Counts'
  <2> SUFFICES ASSUME Counts, [IxNext]_ixVars PROVE Counts'
    OBVIOUS
  <2>1. \/ UNCHANGED <<changes, breaks>>
        \/ changes < MaxChanges /\ changes' = changes + 1 /\ UNCHANGED breaks
        \/ breaks < MaxBreaks /\ breaks' = breaks + 1 /\ UNCHANGED changes
    BY DEF IxNext, ixVars, ChangeElsewhere, Edit, Put, StartRefresh, Plan, DeleteSymbols,
           DeleteHash, PutHash, Refreshed, Walk, TakeFile, Insert, BreakOff, ServerEnds, Break
  <2> QED  BY <2>1, IndexAssumption
<1>3. Inv => IxTypeOK  BY DEF Stored, Queued, IxTypeOK
<1> HIDE DEF Counts
<1>4. IxInit => Inv  BY <1>1, StoredInit, QueuedInit
<1>5. Inv /\ [IxNext]_ixVars => Inv'  BY <1>2, StoredStep, QueuedStep
<1> HIDE DEF Inv
<1> QED  BY <1>3, <1>4, <1>5, PTL DEF IxSpec

-----------------------------------------------------------------------------
(* ModelRouting: where a request may run. *)

\* Who waits has asked for an alias; what an answer, under way or kept, says is no older than the
\* answer itself and the look at the control plane before it was kept.
Heard ==
  /\ RoTypeOK
  /\ \A c \in Asker : asked[c].at = "waits" => asked[c].alias \in Alias /\ asked[c].opts \in Options
  /\ \A a \in found : probing = "settling" /\ quiet[a] <= 1
  /\ Fresh => \A a \in cache.serves : quiet[a] <= age + 1

\* The alias that serves is the one asked for, or its twin on the other side for a reason.
LEMMA PreferredFor ==
  ASSUME RoTypeOK, NEW a \in Alias, NEW o, NEW S, NEW b, b = Preferred(a, o, S)
  PROVE  \/ b = a /\ (NeedsAnswer(a, o) /\ HostOf(a) = "gpu" => a \in S \/ LocalTwin(a) = {})
         \/ b \in LocalTwin(a)
         \/ NeedsAnswer(a, o) /\ HostOf(a) = "local" /\ b \in GpuTwin(a) \cap S
<1> DEFINE up   == GpuTwin(a) \cap S
           down == IF a \in S THEN {} ELSE LocalTwin(a)
           across == IF HostOf(a) = "gpu" THEN down ELSE up
<1>1. CASE ~NeedsAnswer(a, o)  BY <1>1 DEF Preferred
<1>2. CASE NeedsAnswer(a, o)
  <2>1. b = IF across = {} THEN a ELSE CHOOSE x \in across : TRUE  BY <1>2 DEF Preferred
  <2>2. CASE across = {}
    <3>1. b = a  BY <2>1, <2>2
    <3> QED  BY <2>2, <3>1
  <2>3. CASE across # {}
    <3>1. b \in across  BY <2>1, <2>3
    <3>2. HostOf(a) = "gpu" \/ HostOf(a) = "local"  BY <1>2 DEF NeedsAnswer
    <3> QED  BY <1>2, <3>1, <3>2
  <2> QED  BY <2>2, <2>3
<1> QED  BY <1>1, <1>2

LEMMA HostsKnown ==
  ASSUME RoTypeOK  PROVE /\ \A a \in Alias : HostOf(a) \in Instance
                         /\ setup.place \in [Alias -> Instance]
BY RoutingAssumption DEF RoTypeOK, HostOf

\* A request that is routed by a recent answer goes where it may.
LEMMA RoutedWell ==
  ASSUME RoTypeOK, NEW a \in Alias, NEW o \in Options, NEW S \in SUBSET Alias,
         NeedsAnswer(a, o) => \A b \in S : quiet[b] <= Ttl
  PROVE  /\ Routed(a, o, S) \in Request
         /\ Routed(a, o, S).at \in {"tested", "refused"}
         /\ Routed(a, o, S).at = "tested" => KeptToItsHost(Routed(a, o, S)) /\ GoneToAnswering(Routed(a, o, S))
<1> DEFINE b == Preferred(a, o, S)
           r == Routed(a, o, S)
           heard == IF HostOf(b) = "gpu" THEN quiet[b] ELSE 0
<1>1. \/ b = a /\ (NeedsAnswer(a, o) /\ HostOf(a) = "gpu" => a \in S \/ LocalTwin(a) = {})
      \/ b \in LocalTwin(a)
      \/ NeedsAnswer(a, o) /\ HostOf(a) = "local" /\ b \in GpuTwin(a) \cap S
  <2> HIDE DEF b
  <2> QED  BY PreferredFor DEF b
<1>2. b \in Alias
  <2> HIDE DEF b
  <2> QED  BY <1>1 DEF LocalTwin, GpuTwin
<1>3. HostOf(a) \in Instance /\ HostOf(b) \in Instance  BY <1>2, HostsKnown
<1>4. r = [at |-> IF Offered(b) /\ Allowed(HostOf(b), o) THEN "tested" ELSE "refused",
           alias |-> a, home |-> HostOf(a), via |-> b, on |-> HostOf(b), opts |-> o, heard |-> heard]
  BY DEF Routed
<1> HIDE DEF b, r
<1>5. heard \in 0..Ttl + 1
  <2>1. quiet[b] \in 0..Ttl + 1  BY <1>2 DEF RoTypeOK
  <2>2. 0 \in 0..Ttl + 1  BY RoutingAssumption
  <2> QED  BY <2>1, <2>2
<1> HIDE DEF heard
<1>6. r \in Request
  <2>1. o \in [tools : BOOLEAN, explicit : BOOLEAN, preferLocal : BOOLEAN]  BY DEF Options
  <2> QED  BY <1>2, <1>3, <1>4, <1>5, <2>1 DEF Request
<1>7. r.at \in {"tested", "refused"}  BY <1>4
<1>8. ASSUME r.at = "tested"  PROVE KeptToItsHost(r)
  <2>1. Allowed(HostOf(b), o) /\ Offered(b)  BY <1>4, <1>8
  <2>2. r.on = HostOf(b) /\ r.home = HostOf(a) /\ r.opts = o  BY <1>4
  <2>3. CASE b = a  BY <1>3, <2>1, <2>2, <2>3 DEF KeptToItsHost, Allowed, Instance
  <2>4. CASE b \in LocalTwin(a)
    <3>1. HostOf(b) = "local"  BY <2>4 DEF LocalTwin
    <3> QED  BY <2>2, <3>1 DEF KeptToItsHost
  <2>5. CASE NeedsAnswer(a, o) /\ HostOf(a) = "local" /\ b \in GpuTwin(a) \cap S
    <3>1. HostOf(b) = "gpu"  BY <2>5 DEF GpuTwin
    <3>2. setup.policy = "gpu-preferred" /\ ~o.preferLocal  BY <2>5 DEF NeedsAnswer
    <3> QED  BY <2>2, <2>5, <3>1, <3>2 DEF KeptToItsHost
  <2> QED  BY <1>1, <2>3, <2>4, <2>5
<1>9. ASSUME r.at = "tested"  PROVE GoneToAnswering(r)
  <2>1. r.on = HostOf(b) /\ r.alias = a /\ r.via = b /\ r.opts = o /\ r.heard = heard  BY <1>4
  <2>2. SUFFICES ASSUME HostOf(b) = "gpu", ~o.preferLocal, b # a \/ LocalTwin(a) # {}  PROVE heard <= Ttl
    BY <2>1 DEF GoneToAnswering
  <2>3. heard = quiet[b]  BY <2>2 DEF heard
  <2>4. NeedsAnswer(a, o) /\ b \in S
    <3>1. CASE b = a
      <4>1. Offered(a)  BY <1>4, <1>9, <3>1
      <4>2. NeedsAnswer(a, o)  BY <2>2, <3>1, <4>1 DEF NeedsAnswer
      <4>3. b \notin LocalTwin(a)  BY <3>1 DEF LocalTwin
      <4>4. ~(HostOf(a) = "local")  BY <2>2, <3>1
      <4> QED  BY <1>1, <2>2, <3>1, <4>2, <4>3, <4>4
    <3>2. CASE b # a
      <4>1. b \notin LocalTwin(a)  BY <2>2 DEF LocalTwin
      <4> QED  BY <1>1, <3>2, <4>1
    <3> QED  BY <3>1, <3>2
  <2> QED  BY <2>3, <2>4
<1> QED  BY <1>6, <1>7, <1>8, <1>9 DEF r

LEMMA HeardInit == RoInit => Heard /\ RunsWhereItMay
<1> SUFFICES ASSUME RoInit  PROVE Heard /\ RunsWhereItMay
  OBVIOUS
<1>1. Ttl + 1 \in 0..Ttl + 1 /\ 0 \in 0..Ttl + 1 /\ 0 \in 0..Ttl  BY RoutingAssumption
<1>2. Idle \in Request /\ Idle.at = "none"  BY <1>1 DEF Idle, Request, Plain, Instance, Unasked, Alias
<1>3. RoTypeOK  BY <1>1, <1>2 DEF RoInit, RoTypeOK
<1>4. \A c \in Asker : asked[c].at = "none"  BY <1>2 DEF RoInit
<1>5. found = {} /\ ~Fresh  BY DEF RoInit, Fresh
<1> QED  BY <1>3, <1>4, <1>5 DEF Heard, RunsWhereItMay

\* One request moves, to a place where it may be.
LEMMA OneMoves ==
  ASSUME Heard, RunsWhereItMay, NEW c \in Asker, NEW r \in Request, asked' = [asked EXCEPT ![c] = r], setup' = setup,
         r.at = "waits" => r.alias \in Alias /\ r.opts \in Options,
         r.at \in {"tested", "served"} => KeptToItsHost(r) /\ GoneToAnswering(r)
  PROVE  /\ RunsWhereItMay' /\ asked' \in [Asker -> Request]
         /\ \A d \in Asker : asked'[d].at = "waits" => asked'[d].alias \in Alias /\ asked'[d].opts \in Options
<1>1. asked \in [Asker -> Request]  BY DEF Heard, RoTypeOK
<1>2. \A d \in Asker : asked'[d] = IF d = c THEN r ELSE asked[d]  BY <1>1
<1>3. ASSUME NEW d \in Asker, asked'[d].at \in {"tested", "served"}
      PROVE  KeptToItsHost(asked[d])' /\ GoneToAnswering(asked[d])'
  <2>1. KeptToItsHost(asked'[d]) /\ GoneToAnswering(asked'[d])
    <3>1. CASE d = c  BY <1>2, <1>3, <3>1
    <3>2. CASE d # c  BY <1>2, <1>3, <3>2 DEF RunsWhereItMay
    <3> QED  BY <3>1, <3>2
  <2> QED  BY <2>1 DEF KeptToItsHost, GoneToAnswering, LocalTwin, Offered, HostOf
<1>4. RunsWhereItMay'  BY <1>3 DEF RunsWhereItMay
<1>5. asked' \in [Asker -> Request]  BY <1>1
<1>6. ASSUME NEW d \in Asker, asked'[d].at = "waits"  PROVE asked'[d].alias \in Alias /\ asked'[d].opts \in Options
  BY <1>2, <1>6 DEF Heard
<1> QED  BY <1>4, <1>5, <1>6

LEMMA HeardStep == Heard /\ RunsWhereItMay /\ [RoNext]_roVars => Heard' /\ RunsWhereItMay'
<1> SUFFICES ASSUME Heard, RunsWhereItMay, [RoNext]_roVars  PROVE Heard' /\ RunsWhereItMay'
  OBVIOUS
<1> USE RoutingAssumption
<1>1. ASSUME NEW c \in Asker, NEW a \in Alias, NEW o \in Options, AskFor(c, a, o)  PROVE Heard' /\ RunsWhereItMay'
  <2>1. UNCHANGED <<setup, cache, age, quiet>>  BY <1>1 DEF AskFor
  <2>2. CASE NeedsAnswer(a, o) /\ ~Fresh
    <3> DEFINE r == [Idle EXCEPT !.at = "waits", !.alias = a, !.home = HostOf(a), !.opts = o]
    <3>1. asked' = [asked EXCEPT ![c] = r] /\ StartProbe  BY <1>1, <2>2 DEF AskFor
    <3>2. r \in Request /\ r.at = "waits" /\ r.alias = a /\ r.opts = o
      <4>1. HostOf(a) \in Instance  BY HostsKnown DEF Heard
      <4>2. 0 \in 0..Ttl + 1  OBVIOUS
      <4> QED  BY <4>1, <4>2 DEF Idle, Request, Options, Instance, Unasked, Alias
    <3> HIDE DEF r
    <3>3. /\ RunsWhereItMay' /\ asked' \in [Asker -> Request]
          /\ \A d \in Asker : asked'[d].at = "waits" => asked'[d].alias \in Alias /\ asked'[d].opts \in Options
      BY <2>1, <3>1, <3>2, OneMoves
    <3>4. /\ probing' \in {"none", "account", "asking", "repairing", "again", "settling"}
          /\ \A b \in found' : probing' = "settling" /\ quiet[b] <= 1
          /\ found' \subseteq Installed
      BY <3>1 DEF StartProbe, Heard, RoTypeOK
    <3> QED  BY <2>1, <3>3, <3>4 DEF Heard, RoTypeOK, Fresh
  <2>3. CASE ~(NeedsAnswer(a, o) /\ ~Fresh)
    <3> DEFINE r == Routed(a, o, cache.serves)
    <3>1. asked' = [asked EXCEPT ![c] = r] /\ UNCHANGED <<probing, found>>  BY <1>1, <2>3 DEF AskFor
    <3>2. NeedsAnswer(a, o) => \A b \in cache.serves : quiet[b] <= Ttl
      <4> SUFFICES ASSUME Fresh, NEW b \in cache.serves  PROVE quiet[b] <= Ttl
        BY <2>3
      <4>1. quiet[b] <= age + 1 /\ age < Ttl  BY DEF Heard, Fresh
      <4>2. b \in Alias /\ quiet[b] \in 0..Ttl + 1 /\ age \in 0..Ttl  BY DEF Heard, RoTypeOK
      <4> QED  BY <4>1, <4>2
    <3>3. cache.serves \in SUBSET Alias  BY DEF Heard, RoTypeOK
    <3>4. /\ r \in Request /\ r.at \in {"tested", "refused"}
          /\ r.at = "tested" => KeptToItsHost(r) /\ GoneToAnswering(r)
      BY <3>2, <3>3, RoutedWell DEF Heard
    <3> HIDE DEF r
    <3>5. /\ RunsWhereItMay' /\ asked' \in [Asker -> Request]
          /\ \A d \in Asker : asked'[d].at = "waits" => asked'[d].alias \in Alias /\ asked'[d].opts \in Options
      BY <2>1, <3>1, <3>4, OneMoves
    <3> QED  BY <2>1, <3>1, <3>5 DEF Heard, RoTypeOK, Fresh
  <2> QED  BY <2>2, <2>3
<1>2. ASSUME NEW c \in Asker, NEW i \in Instance, AskForRow(c, i)  PROVE Heard' /\ RunsWhereItMay'
  <2> DEFINE o    == [Plain EXCEPT !.tools = TRUE]
             on   == IF i \in setup.on THEN i ELSE "local"
             into == Allowed(i, o) /\ (i \in setup.on \/ (i = "gpu" /\ setup.policy # "manual-provider-selection"))
             r    == [at |-> IF into THEN "tested" ELSE "refused", alias |-> Unasked,
                      home |-> i, via |-> Unasked, on |-> on, opts |-> o, heard |-> 0]
  <2>1. asked' = [asked EXCEPT ![c] = r] /\ UNCHANGED <<setup, probing, found, cache, age, quiet>>
    BY <1>2 DEF AskForRow
  <2>2. o \in [tools : BOOLEAN, explicit : BOOLEAN, preferLocal : BOOLEAN]  BY DEF Plain
  <2>3. on \in Instance /\ 0 \in 0..Ttl + 1  BY DEF Instance
  <2>4. r \in Request /\ r.at # "waits" /\ r.at # "served"  BY <2>2, <2>3 DEF Request
  <2>5. ASSUME r.at = "tested"  PROVE KeptToItsHost(r) /\ GoneToAnswering(r)
    <3>1. Allowed(i, o)  BY <2>5
    <3>2. r.on = on /\ r.home = i /\ r.opts = o /\ r.alias = Unasked  OBVIOUS
    <3>3. on = i \/ on = "local"  OBVIOUS
    <3> HIDE DEF r, on, o, into
    <3>4. KeptToItsHost(r)  BY <3>1, <3>2, <3>3 DEF KeptToItsHost, Allowed
    <3> QED  BY <3>2, <3>4 DEF GoneToAnswering
  <2> HIDE DEF r
  <2>6. /\ RunsWhereItMay' /\ asked' \in [Asker -> Request]
        /\ \A d \in Asker : asked'[d].at = "waits" => asked'[d].alias \in Alias /\ asked'[d].opts \in Options
    BY <2>1, <2>4, <2>5, OneMoves
  <2> QED  BY <2>1, <2>6 DEF Heard, RoTypeOK, Fresh
<1>3. ASSUME NEW c \in Asker, NEW able \in BOOLEAN, Test(c, able)  PROVE Heard' /\ RunsWhereItMay'
  <2> DEFINE q == asked[c]
             r == IF able \/ ~q.opts.tools THEN [q EXCEPT !.at = "served"]
                  ELSE IF Stand(q) = {} THEN [q EXCEPT !.at = "refused"]
                  ELSE [q EXCEPT !.via = CHOOSE b \in Stand(q) : TRUE, !.on = "local",
                                 !.opts.preferLocal = TRUE, !.heard = 0]
  <2>1. asked' = [asked EXCEPT ![c] = r] /\ q.at = "tested" /\ UNCHANGED <<setup, probing, found, cache, age, quiet>>
    BY <1>3 DEF Test
  <2>2. q \in Request  BY DEF Heard, RoTypeOK
  <2>3. KeptToItsHost(q) /\ GoneToAnswering(q)  BY <2>1 DEF RunsWhereItMay
  <2> HIDE DEF q
  <2>4. /\ r \in Request /\ r.at # "waits"
        /\ r.at \in {"tested", "served"} => KeptToItsHost(r) /\ GoneToAnswering(r)
    <3>1. CASE able \/ ~q.opts.tools
      <4>1. r = [q EXCEPT !.at = "served"]  BY <3>1
      <4>2. /\ r.on = q.on /\ r.home = q.home /\ r.opts = q.opts /\ r.alias = q.alias /\ r.via = q.via
            /\ r.heard = q.heard /\ r \in Request /\ r.at = "served"
        BY <2>2, <4>1 DEF Request
      <4> HIDE DEF r
      <4> QED  BY <2>3, <4>2 DEF KeptToItsHost, GoneToAnswering
    <3>2. CASE ~(able \/ ~q.opts.tools) /\ Stand(q) = {}
      <4>1. r = [q EXCEPT !.at = "refused"]  BY <3>2
      <4> QED  BY <2>2, <4>1 DEF Request
    <3>3. CASE ~(able \/ ~q.opts.tools) /\ Stand(q) # {}
      <4>1. PICK b : b \in Stand(q) /\ b = CHOOSE x \in Stand(q) : TRUE  BY <3>3
      <4>2. b \in Alias \cup {Unasked}  BY <2>2, <4>1 DEF Stand, LocalTwin, Request
      <4>3. r = [q EXCEPT !.via = b, !.on = "local", !.opts.preferLocal = TRUE, !.heard = 0]  BY <3>3, <4>1
      <4>4. r \in Request /\ r.at = q.at /\ r.on = "local"
        <5>1. q = [at |-> q.at, alias |-> q.alias, home |-> q.home, via |-> q.via, on |-> q.on, opts |-> q.opts,
                   heard |-> q.heard]
          BY <2>2 DEF Request
        <5> DEFINE opts == [q.opts EXCEPT !.preferLocal = TRUE]
        <5>2. opts \in [tools : BOOLEAN, explicit : BOOLEAN, preferLocal : BOOLEAN]  BY <2>2 DEF Request
        <5>3. r = [at |-> q.at, alias |-> q.alias, home |-> q.home, via |-> b, on |-> "local", opts |-> opts,
                   heard |-> 0]
          BY <4>3, <5>1
        <5> HIDE DEF opts, r
        <5>4. 0 \in 0..Ttl + 1  OBVIOUS
        <5> QED  BY <2>2, <4>2, <5>2, <5>3, <5>4 DEF Request, Instance
      <4> HIDE DEF r
      <4> QED  BY <2>1, <4>4 DEF KeptToItsHost, GoneToAnswering, q
    <3> QED  BY <3>1, <3>2, <3>3
  <2> HIDE DEF r
  <2>5. /\ RunsWhereItMay' /\ asked' \in [Asker -> Request]
        /\ \A d \in Asker : asked'[d].at = "waits" => asked'[d].alias \in Alias /\ asked'[d].opts \in Options
    BY <2>1, <2>4, OneMoves
  <2> QED  BY <2>1, <2>5 DEF Heard, RoTypeOK, Fresh
<1>4. ASSUME UNCHANGED <<setup, asked>>, Heard'  PROVE Heard' /\ RunsWhereItMay'
  BY <1>4 DEF RunsWhereItMay, KeptToItsHost, GoneToAnswering, LocalTwin, Offered, HostOf
<1>5. ASSUME Look  PROVE Heard' /\ RunsWhereItMay'
  BY <1>4, <1>5 DEF Look, StartProbe, Heard, RoTypeOK, Fresh
<1>6. ASSUME NEW yes \in BOOLEAN, Account(yes) \/ Miss(yes)  PROVE Heard' /\ RunsWhereItMay'
  BY <1>4, <1>6 DEF Account, Miss, Heard, RoTypeOK, Fresh
<1>7. ASSUME NEW S \in SUBSET Installed, Hear(S)  PROVE Heard' /\ RunsWhereItMay'
  <2>1. \A a \in Alias : quiet'[a] = IF a \in S THEN 0 ELSE quiet[a]  BY <1>7 DEF Hear
  <2>2. S \subseteq Alias  OBVIOUS
  <2>3. quiet' \in [Alias -> 0..Ttl + 1]
    <3>1. quiet' = [a \in Alias |-> IF a \in S THEN 0 ELSE quiet[a]]  BY <1>7 DEF Hear
    <3>2. \A a \in Alias : quiet[a] \in 0..Ttl + 1  BY DEF Heard, RoTypeOK
    <3> QED  BY <3>1, <3>2
  <2>4. \A a \in found' : probing' = "settling" /\ quiet'[a] <= 1
    BY <1>7, <2>1, <2>2 DEF Hear
  <2>5. Fresh' => \A a \in cache'.serves : quiet'[a] <= age' + 1
    <3> SUFFICES ASSUME Fresh, NEW a \in cache.serves  PROVE quiet'[a] <= age + 1
      BY <1>7 DEF Hear, Fresh
    <3>1. a \in Alias /\ age \in Nat /\ quiet[a] <= age + 1  BY DEF Heard, RoTypeOK
    <3> QED  BY <2>1, <3>1
  <2>6. Heard'  BY <1>7, <2>3, <2>4, <2>5 DEF Hear, Heard, RoTypeOK
  <2> QED  BY <1>4, <1>7, <2>6 DEF Hear
<1>8. ASSUME Repair  PROVE Heard' /\ RunsWhereItMay'
  BY <1>4, <1>8 DEF Repair, Heard, RoTypeOK, Fresh
<1>9. ASSUME SettleProbe  PROVE Heard' /\ RunsWhereItMay'
  <2> DEFINE To(c) == Routed(asked[c].alias, asked[c].opts, found)
  <2>1. /\ UNCHANGED <<setup, quiet>> /\ probing' = "none" /\ found' = {} /\ age' = 0
        /\ cache' = [known |-> TRUE, serves |-> found]
        /\ asked' = [c \in Asker |-> IF asked[c].at = "waits" THEN To(c) ELSE asked[c]]
    BY <1>9 DEF SettleProbe
  <2>2. found \in SUBSET Alias /\ \A a \in found : quiet[a] <= 1 /\ quiet[a] <= Ttl
    BY DEF Heard, RoTypeOK
  <2>3. ASSUME NEW c \in Asker, asked[c].at = "waits"
        PROVE  /\ To(c) \in Request /\ To(c).at \in {"tested", "refused"}
               /\ To(c).at = "tested" => KeptToItsHost(To(c)) /\ GoneToAnswering(To(c))
    <3>1. asked[c].alias \in Alias /\ asked[c].opts \in Options  BY <2>3 DEF Heard
    <3> QED  BY <2>2, <3>1, RoutedWell DEF Heard
  <2> HIDE DEF To
  <2>4. ASSUME NEW c \in Asker
        PROVE  /\ asked'[c] \in Request /\ asked'[c].at # "waits"
               /\ asked'[c].at \in {"tested", "served"} => KeptToItsHost(asked'[c]) /\ GoneToAnswering(asked'[c])
    <3>1. CASE asked[c].at = "waits"
      <4>1. asked'[c] = To(c)  BY <2>1, <3>1
      <4> QED  BY <2>3, <3>1, <4>1
    <3>2. CASE asked[c].at # "waits"
      <4>1. asked'[c] = asked[c]  BY <2>1, <3>2
      <4> QED  BY <3>2, <4>1 DEF RunsWhereItMay, Heard, RoTypeOK
    <3> QED  BY <3>1, <3>2
  <2>5. RunsWhereItMay'
    BY <2>1, <2>4 DEF RunsWhereItMay, KeptToItsHost, GoneToAnswering, LocalTwin, Offered, HostOf
  <2>6. asked' \in [Asker -> Request]  BY <2>1, <2>4
  <2>7. cache' \in [known : BOOLEAN, serves : SUBSET Installed] /\ cache'.serves = found
    BY <2>1 DEF Heard, RoTypeOK
  <2> QED  BY <2>1, <2>2, <2>4, <2>5, <2>6, <2>7 DEF Heard, RoTypeOK, Fresh
<1>10. ASSUME Pass  PROVE Heard' /\ RunsWhereItMay'
  <2>1. /\ age' = Cap(age + 1, Ttl) /\ quiet' = [a \in Alias |-> Cap(quiet[a] + 1, Ttl + 1)]
        /\ UNCHANGED <<setup, probing, found, cache, asked>>
        /\ probing = "settling" => \A a \in found : quiet[a] = 0
    BY <1>10 DEF Pass
  <2>2. age \in 0..Ttl /\ \A a \in Alias : quiet[a] \in 0..Ttl + 1  BY DEF Heard, RoTypeOK
  <2>3. age' \in 0..Ttl /\ (age' < Ttl => age' = age + 1)  BY <2>1, <2>2 DEF Cap
  <2>4. \A a \in Alias : quiet'[a] \in 0..Ttl + 1 /\ quiet'[a] <= quiet[a] + 1  BY <2>1, <2>2 DEF Cap
  <2>5. quiet' \in [Alias -> 0..Ttl + 1]  BY <2>1, <2>4
  <2>6. \A a \in found' : probing' = "settling" /\ quiet'[a] <= 1
    <3> SUFFICES ASSUME NEW a \in found  PROVE probing = "settling" /\ quiet'[a] <= 1
      BY <2>1
    <3>1. probing = "settling" /\ a \in Alias  BY DEF Heard, RoTypeOK
    <3>2. quiet[a] = 0  BY <2>1, <3>1
    <3> QED  BY <2>4, <3>1, <3>2
  <2>7. Fresh' => \A a \in cache'.serves : quiet'[a] <= age' + 1
    <3> SUFFICES ASSUME Fresh', NEW a \in cache.serves  PROVE quiet'[a] <= age' + 1
      BY <2>1
    <3>1. cache.known /\ age' < Ttl  BY <2>1 DEF Fresh
    <3>2. age' = age + 1 /\ age < Ttl  BY <2>2, <2>3, <3>1
    <3>3. a \in Alias /\ quiet[a] <= age + 1  BY <3>1, <3>2 DEF Heard, RoTypeOK, Fresh
    <3> QED  BY <2>2, <2>4, <3>2, <3>3
  <2>8. Heard'  BY <2>1, <2>3, <2>5, <2>6, <2>7 DEF Heard, RoTypeOK
  <2> QED  BY <1>4, <2>1, <2>8
<1>11. CASE UNCHANGED roVars
  BY <1>11 DEF roVars, Heard, RoTypeOK, Fresh, RunsWhereItMay, KeptToItsHost, GoneToAnswering, LocalTwin, Offered, HostOf
<1> QED
  BY <1>1, <1>2, <1>3, <1>5, <1>6, <1>7, <1>8, <1>9, <1>10, <1>11 DEF RoNext, ProbeStep

\* The requests, the probe and its answer are well typed in every reachable state.
THEOREM RoTypeCorrect == RoSpec => []RoTypeOK
<1>1. Heard => RoTypeOK  BY DEF Heard
<1> QED  BY <1>1, HeardInit, HeardStep, PTL DEF RoSpec

\* A paid model serves only who asked for it, and with consent where the policy wants it; the pod
\* serves a local alias only under gpu-preferred, and only on an answer no older than Ttl, whoever
\* asked for it (provider-registry.ts: resolveAlias, applyGpuPreference; gpu-availability.ts).
THEOREM ServedWhereAllowed == RoSpec => []RunsWhereItMay
BY HeardInit, HeardStep, PTL DEF RoSpec

-----------------------------------------------------------------------------
(* The parts side by side. *)

\* A step of the server is, for each part, a step of it or nothing.
LEMMA OnePartSteps ==
  ASSUME [Next]_serverVars
  PROVE  /\ [TxNext]_txVars /\ [WsNext]_wsVars /\ [ApNext]_apVars /\ [MrNext]_mrVars
         /\ [LvNext]_lvVars /\ [MmNext]_mmVars /\ [IxNext]_ixVars /\ [RoNext]_roVars
         /\ part' = part
<1>1. CASE Next
  BY <1>1, Zenon DEF Next, TxStep, WsStep, ApStep, MrStep, LvStep, MmStep, IxStep, RoStep
<1>2. CASE UNCHANGED serverVars
  BY <1>2, Zenon DEF serverVars
<1> QED  BY <1>1, <1>2

\* A manager of media that was stopped before it began holds nothing.
LEMMA MmOffHoldsNothing == MmOff => MmInv
<1> SUFFICES ASSUME MmOff PROVE MmInv
  OBVIOUS
<1>1. Cardinality(link) <= 1  BY NothingHeld DEF MmOff
<1>2. Accounted  BY DEF MmOff, Accounted, Running
<1>3. Places  BY DEF MmOff, Places
<1>4. Bounds  BY BoundAssumption DEF MmOff, Bounds
<1> QED  BY <1>1, <1>2, <1>3, <1>4 DEF MmInv

LEMMA PartsBegin ==
  ASSUME Init
  PROVE  /\ TxInit /\ WsInit /\ ApInit /\ MrInit /\ LvInit /\ IxInit /\ RoInit
         /\ MmInv /\ part \in Part
<1>1. /\ TxInit /\ WsInit /\ ApInit /\ MrInit /\ LvInit /\ IxInit /\ RoInit
      /\ part \in Part /\ (MmInit \/ MmOff)
  BY Zenon DEF Init
<1> QED  BY <1>1, MmInvInit, MmOffHoldsNothing

\* Each part of the server behaves as it does alone: what is proved of transactions, the row
\* of a run, approvals, model requests, live validation, the index and routing holds when they
\* are put side by side.
THEOREM PartsKeepTheirSpecs ==
  Spec => TxSpec /\ WsSpec /\ ApSpec /\ MrSpec /\ LvSpec /\ IxSpec /\ RoSpec
<1> QED  BY PartsBegin, OnePartSteps, PTL
         DEF Spec, TxSpec, WsSpec, ApSpec, MrSpec, LvSpec, IxSpec, RoSpec

\* The media manager side by side with the others, running or stopped.
LEMMA MediaKept == Spec => []MmInv
<1> QED  BY PartsBegin, OnePartSteps, MmInvStep, PTL DEF Spec

\* Whatever parts are put together, in the state of the server each keeps its own promise:
\* originals and evidence of a transaction, the reviews and the ending in a run's row, consent,
\* the limit on requests, stops that reach every target, tunnels that end, hashes, and routes
\* (transactional-mutation-executor.ts, agent.ts, approvals.ts, model-request-semaphore.ts,
\* live-validation-safety-controller.ts, runpod-media-manager.ts,
\* semantic-index-refresh-executor.ts, provider-registry.ts).
THEOREM PromisesKept ==
  Spec => [](/\ RecoverableUnlessRespelled /\ EvidenceIsCurrent /\ AcceptedIsReviewed /\ EndIsRecorded
             /\ OnlyConsentedRun /\ OverrunIsOvertaking /\ NoSlotIsIdle /\ StopReachesAll
             /\ QueueIsServed /\ StopEndsTunnels /\ HashVouches /\ RunsWhereItMay)
<1> QED
  BY PartsKeepTheirSpecs, MediaKept, MmInvTypes, OriginalsAreKept, EvidenceStaysCurrent,
     AcceptanceIsReviewed, EndingIsRecorded, OnlyConsented, OverrunExplained, NoWakingIsLost, StopsAreHeard,
     QueuesAreServed, HashesVouch, ServedWhereAllowed, PTL

\* The variables of the part that was chosen stay what they are, whichever it is.
THEOREM ServerTypeCorrect == Spec => []ServerTypeOK
<1>1. Spec => [](part \in Part)
  <2>1. Init => part \in Part  BY PartsBegin
  <2>2. part \in Part /\ [Next]_serverVars => (part \in Part)'  BY OnePartSteps
  <2> QED  BY <2>1, <2>2, PTL DEF Spec
<1>2. ASSUME TxTypeOK, WsTypeOK, ApTypeOK, MrTypeOK, LvTypeOK, MmTypeOK, IxTypeOK, RoTypeOK,
             part \in Part
      PROVE  ServerTypeOK
  <2>1. part \in {"tx", "ws", "ap", "mr", "lv", "mm", "ix", "ro"}  BY <1>2, PartAssumption
  <2> HIDE DEF TxTypeOK, WsTypeOK, ApTypeOK, MrTypeOK, LvTypeOK, MmTypeOK, IxTypeOK, RoTypeOK
  <2> QED  BY <1>2, <2>1 DEF ServerTypeOK
<1> QED
  BY <1>1, <1>2, PartsKeepTheirSpecs, MediaKept, MmInvTypes, TxTypeCorrect, WsTypeCorrect,
     ApTypeCorrect, MrTypeCorrect, LvTypeCorrect, IxTypeCorrect, RoTypeCorrect, PTL
=============================================================================
