--------------------------- MODULE AccountableRun ---------------------------
(***************************************************************************)
(* What may be expected of a run of the agent, whatever the model says and *)
(* however the loop counts: an answer that claims completion stands on     *)
(* work that is accounted for, or it is labelled as what it is.            *)
(*                                                                         *)
(* An execution acts, one effect at a time.  A change is open until a      *)
(* check that was begun after it answers for it.  What the executor says   *)
(* at its end is limited by what is open, by what its caller demands, and  *)
(* by a cancellation.  A demanding caller has it reviewed, lets it try     *)
(* once more, and withdraws a claim that the review did not pass.          *)
(***************************************************************************)
CONSTANTS Change, Check, Effect  \* calls that change something, that check it, others

VARIABLES
  stage,       \* "ready" | "working" | "concluded" | "reviewed" | "returned" | "failed"
  demands,     \* of the caller: "validate", "mutate", "guard", "signal", "review"
  cancelled,
  acting,      \* the call whose effect is under way, if there is one
  open,        \* changes of this execution that no check has answered for
  changed,     \* has this execution changed anything?
  said,        \* "nothing" | "verified" | "complete" | "answered" | "stopped"
  consent,     \* of the completion guard
  revised,     \* is there no further execution?
  passed,      \* the review
  remembered   \* has the run been recorded as completed?

work == <<acting, open, changed>>
vars == <<stage, demands, cancelled, work, said, consent, revised, passed, remembered>>

Claim  == {"verified", "complete"}
Demand == {"validate", "mutate", "guard", "signal", "review"}

Init ==
  /\ stage = "ready" /\ demands \in SUBSET Demand /\ cancelled = FALSE
  /\ acting = {} /\ open = {} /\ changed = FALSE
  /\ said = "nothing" /\ consent = FALSE
  /\ revised = FALSE /\ passed = FALSE /\ remembered = FALSE

\* An execution begins with nothing to answer for.  A review may demand a change.
Begin ==
  /\ stage = "ready" /\ stage' = "working"
  /\ open' = {} /\ changed' = FALSE /\ consent' = FALSE
  /\ demands' = demands \/ (revised /\ demands' = demands \cup {"mutate"})
  /\ UNCHANGED <<cancelled, acting, said, revised, passed, remembered>>

\* It cannot begin.
Fail ==
  /\ stage = "ready" /\ stage' = "failed"
  /\ UNCHANGED <<demands, cancelled, work, said, consent, revised, passed, remembered>>

\* One effect at a time, and none after a cancellation.
Act(c) ==
  /\ stage = "working" /\ ~cancelled /\ acting = {} /\ acting' = {c}
  /\ UNCHANGED <<stage, demands, cancelled, open, changed, said, consent, revised, passed, remembered>>

\* It is over: a change is open from now on, a check may answer for what was open.
Acted(c) ==
  /\ acting = {c} /\ acting' = {}
  /\ \/ UNCHANGED <<open, changed>>
     \/ c \in Change /\ open' = open \cup {c} /\ changed' = TRUE
     \/ c \in Check /\ open' \in SUBSET open /\ UNCHANGED changed
  /\ UNCHANGED <<stage, demands, cancelled, said, consent, revised, passed, remembered>>

Cancel ==
  /\ stage \notin {"returned", "failed"} /\ ~cancelled /\ cancelled' = TRUE
  /\ UNCHANGED <<stage, demands, work, said, consent, revised, passed, remembered>>

\* What the executor may say now.
MaySay(v) ==
  CASE v = "verified" -> ~cancelled /\ changed /\ open = {} /\ ("guard" \in demands => consent')
    [] v = "complete" -> /\ ~cancelled /\ ("guard" \in demands => consent')
                         /\ "mutate" \in demands => changed
                         /\ "validate" \in demands => open = {}
    [] v = "answered" -> ~cancelled /\ "signal" \notin demands
    [] v = "stopped"  -> TRUE

Conclude ==
  /\ stage = "working" /\ acting = {} /\ stage' = "concluded"
  /\ consent' \in {consent, TRUE}
  /\ \E v \in Claim \cup {"answered", "stopped"} : MaySay(v) /\ said' = v
  /\ UNCHANGED <<demands, cancelled, work, revised, passed, remembered>>

\* A review passes only a claim with nothing open.
Pass ==
  /\ stage = "concluded" /\ "review" \in demands /\ said \in Claim /\ open = {}
  /\ stage' = "reviewed" /\ passed' = TRUE
  /\ UNCHANGED <<demands, cancelled, work, said, consent, revised, remembered>>

\* Otherwise there is one more execution, or the end.
Revise ==
  /\ stage = "concluded" /\ "review" \in demands /\ ~revised
  /\ stage' = "ready" /\ said' = "nothing" /\ revised' = TRUE
  /\ UNCHANGED <<demands, cancelled, work, consent, passed, remembered>>

Refuse ==
  /\ stage = "concluded" /\ "review" \in demands /\ revised
  /\ stage' = "reviewed"
  /\ UNCHANGED <<demands, cancelled, work, said, consent, revised, passed, remembered>>

\* A claim that was not passed is withdrawn, and not remembered.
Return ==
  /\ stage' = "returned"
  /\ \/ /\ stage = "concluded" /\ "review" \notin demands
        /\ UNCHANGED <<said, remembered>>
     \/ /\ stage = "reviewed"
        /\ said' = IF passed THEN said ELSE "stopped"
        /\ remembered' \in {FALSE, passed}
  /\ UNCHANGED <<demands, cancelled, work, consent, revised, passed>>

Next == \/ Begin \/ Fail \/ Cancel \/ Conclude \/ Pass \/ Revise \/ Refuse \/ Return
        \/ \E c \in Change \cup Check \cup Effect : Act(c) \/ Acted(c)

Spec == Init /\ [][Next]_vars

-----------------------------------------------------------------------------
\* What an account comes to: only an execution that is under way acts; a verified answer has
\* changes and none of them open; the review passed a claim with nothing open, and without it
\* a run that is to be reviewed returns no claim and is not remembered.
Even ==
  /\ acting # {} => stage = "working"
  /\ said # "nothing" => stage \in {"concluded", "reviewed", "returned"}
  /\ said = "verified" => changed /\ open = {}
  /\ passed => stage \in {"reviewed", "returned"} /\ said \in Claim /\ open = {}
  /\ stage = "returned" /\ "review" \in demands => said = "stopped" \/ passed
  /\ remembered => stage = "returned" /\ passed
=============================================================================
