------------------------ MODULE NotificationsProofs -------------------------
(***************************************************************************)
(* Proofs about Notifications for any rules, minions and bounds.           *)
(***************************************************************************)
EXTENDS Notifications, TLAPS

(* What Leave writes is well typed.                                        *)
LEMMA LeaveType ==
  ASSUME TypeOK, NEW x \in Runner, Leave(x)
  PROVE  /\ pc' \in [Runner -> {"idle", "next", "compare", "send", "record"}]
         /\ queue' \in [Runner -> SUBSET Rule]
         /\ rule' \in [Runner -> Rule \cup {NoRule}]
         /\ current' \in [Runner -> SUBSET Minion]
         /\ events' \in [Runner -> SUBSET Event]
         /\ overtaken' \in [Runner -> SUBSET Minion]
BY DEF TypeOK, Leave

(* A run is at a rule while it compares, sends and records.                *)
AtRule == \A x \in Runner :
            pc[x] \in {"compare", "send", "record"} => rule[x] \in Rule
TypeInv == TypeOK /\ AtRule

(* The types are inductive once a run is known to be at a rule.            *)
LEMMA TypeInvCorrect == Spec => []TypeInv
<1> USE NotificationAssumption
<1>1. Init => TypeInv
  BY DEF Init, TypeInv, TypeOK, AtRule, Silent, Word
<1>2. ASSUME TypeInv, [Next]_vars
      PROVE  TypeInv'
  <2>0. TypeOK /\ AtRule
    BY <1>2 DEF TypeInv
  <2> USE DEF TypeOK, AtRule, TypeInv, worldVars, runVars, historyVars
  <2>1. ASSUME NEW x \in Runner, Begin(x)
        PROVE  TypeInv'
    BY <2>0, <2>1 DEF Begin
  <2>2. ASSUME NEW x \in Runner, Quit(x) \/ Crash(x)
        PROVE  TypeInv'
    <3>1. Leave(x) /\ UNCHANGED <<worldVars, state, told, unsaved>>
          /\ faults' \in 0..MaxFault
      BY <2>0, <2>2 DEF Quit, Crash
    <3>2. TypeOK'
      BY <2>0, <3>1, LeaveType
    <3>3. AtRule'
      BY <2>0, <3>1 DEF Leave
    <3>. QED BY <3>2, <3>3
  <2>3. ASSUME NEW x \in Runner, NEW r \in Rule, Survey(x, r)
        PROVE  TypeInv'
    BY <2>0, <2>3 DEF Survey
  <2>4. ASSUME NEW x \in Runner, NEW r \in Rule, CannotEvaluate(x, r)
        PROVE  TypeInv'
    BY <2>0, <2>4 DEF CannotEvaluate
  <2>5. ASSUME NEW x \in Runner, Compare(x)
        PROVE  TypeInv'
    <3>1. events' \in [Runner -> SUBSET Event]
      BY <2>0, <2>5 DEF Compare, Event, Word, Firing, Recovered
    <3>. QED BY <2>0, <2>5, <3>1 DEF Compare
  <2>6. ASSUME NEW x \in Runner, NEW e \in Event, Deliver(x, e)
        PROVE  TypeInv'
    <3>1. e.minion \in Minion /\ e.word \in Word /\ rule[x] \in Rule
      BY <2>0, <2>6 DEF Event, Deliver
    <3>. QED BY <2>0, <2>6, <3>1 DEF Deliver
  <2>7. ASSUME NEW x \in Runner, NEW e \in Event, Record(x, e)
        PROVE  TypeInv'
    <3>1. e.minion \in Minion /\ e.word \in Word /\ rule[x] \in Rule
      BY <2>0, <2>7 DEF Event, Record
    <3>2. CASE rule[x] \notin gone
      <4>1. /\ state' = [state EXCEPT ![rule[x]][e.minion] = e.word]
            /\ \/ unsaved' = unsaved \ {<<rule[x], e.minion>>}
               \/ unsaved' = unsaved \cup {<<rule[x], e.minion>>}
            /\ overtaken' = [y \in Runner |-> IF y # x /\ rule[y] = rule[x]
                                             THEN overtaken[y] \cup {e.minion} ELSE overtaken[y]]
            /\ events' = [events EXCEPT ![x] = @ \ {e}]
            /\ pc' = [pc EXCEPT ![x] = "send"] /\ pc[x] = "record"
            /\ UNCHANGED <<worldVars, told, queue, rule, current, faults>>
        BY <2>7, <3>2 DEF Record
      <4>2. unsaved' \subseteq Rule \X Minion /\ overtaken' \in [Runner -> SUBSET Minion]
        BY <2>0, <3>1, <4>1
      <4>3. /\ state' \in [Rule -> [Minion -> Word]] /\ events' \in [Runner -> SUBSET Event]
            /\ pc' \in [Runner -> {"idle", "next", "compare", "send", "record"}]
        BY <2>0, <3>1, <4>1
      <4>. QED BY <2>0, <4>1, <4>2, <4>3
    <3>3. CASE rule[x] \in gone
      <4>1. Leave(x) /\ UNCHANGED <<worldVars, state, told, faults, unsaved>>
        BY <2>7, <3>3 DEF Record
      <4>2. TypeOK'
        BY <2>0, <4>1, LeaveType
      <4>3. AtRule'
        BY <2>0, <4>1 DEF Leave
      <4>. QED BY <4>2, <4>3
    <3>. QED BY <3>2, <3>3
  <2>8. ASSUME NEW x \in Runner, NextRule(x)
        PROVE  TypeInv'
    BY <2>0, <2>8 DEF NextRule
  <2>9. ASSUME NEW r \in Rule, Switch(r)
        PROVE  TypeInv'
    BY <2>0, <2>9 DEF Switch
  <2>10. ASSUME NEW r \in Rule, Remove(r)
         PROVE  TypeInv'
    BY <2>0, <2>10 DEF Remove, Silent, Word
  <2>11. ASSUME NEW r \in Rule, NEW m \in Minion, Change(r, m)
         PROVE  TypeInv'
    BY <2>0, <2>11 DEF Change
  <2>12. CASE UNCHANGED vars
    BY <2>0, <2>12 DEF vars
  <2>. QED BY ONLY <1>2, <2>1, <2>2, <2>3, <2>4, <2>5, <2>6, <2>7, <2>8, <2>9,
                   <2>10, <2>11, <2>12 DEF Next, Step
<1>. QED BY <1>1, <1>2, PTL DEF Spec

(* Every variable keeps its type.                                          *)
THEOREM TypeCorrect == Spec => []TypeOK
<1>1. TypeInv => TypeOK
  BY DEF TypeInv
<1>. QED BY <1>1, TypeInvCorrect, PTL

-----------------------------------------------------------------------------
(* Why a run does not repeat what was said: for every minion whose row     *)
(* says what was sent last, so it does; and what a run has yet to send     *)
(* about a minion, one message at most, differs from the row, unless       *)
(* another run wrote that row since this one compared.                     *)
SaidIsStored ==
  \A r \in Rule \ gone, m \in Minion :
    <<r, m>> \notin unsaved => told[r][m] = state[r][m]

Queued(x) ==
  /\ pc[x] \in {"send", "record"} =>
       \A a, b \in events[x] : a.minion = b.minion => a = b
  /\ pc[x] \in {"send", "record"} /\ rule[x] \notin gone =>
       \A e \in events[x] :
         (pc[x] = "send" \/ e.minion \notin current[x]) /\ e.minion \notin overtaken[x] =>
           state[rule[x]][e.minion] # e.word

IInv == TypeInv /\ SaidIsStored /\ \A x \in Runner : Queued(x)

(* The conditions are inductive however runs overlap.                      *)
LEMMA RunsCorrect == Spec => []IInv
<1>1. Init => SaidIsStored /\ \A x \in Runner : Queued(x)
  BY DEF Init, SaidIsStored, Queued
<1>2. ASSUME IInv, TypeInv', [Next]_vars
      PROVE  IInv'
  <2>0. /\ TypeOK /\ AtRule /\ SaidIsStored /\ \A x \in Runner : Queued(x)
    BY <1>2 DEF IInv, TypeInv
  <2> DEFINE Good == SaidIsStored /\ \A x \in Runner : Queued(x)
  <2>1. ASSUME UNCHANGED <<gone, state, told, pc, rule, current, events, unsaved, overtaken>>
        PROVE  Good'
    BY <2>0, <2>1 DEF SaidIsStored, Queued
\* A step of one run that leaves the rows alone concerns no other run.
  <2>2. ASSUME NEW x \in Runner, Queued(x)', UNCHANGED <<gone, state, told, unsaved>>,
               \A y \in Runner \ {x} :
                 /\ pc'[y] = pc[y] /\ rule'[y] = rule[y] /\ current'[y] = current[y]
                 /\ events'[y] = events[y] /\ overtaken'[y] = overtaken[y]
        PROVE  Good'
    BY <2>0, <2>2 DEF SaidIsStored, Queued
  <2>3. ASSUME NEW x \in Runner,
               Begin(x) \/ Quit(x) \/ Crash(x) \/ NextRule(x)
        PROVE  Good'
    <3>1. /\ pc'[x] \notin {"send", "record"} /\ UNCHANGED <<gone, state, told, unsaved>>
          /\ \A y \in Runner \ {x} :
               /\ pc'[y] = pc[y] /\ rule'[y] = rule[y] /\ current'[y] = current[y]
               /\ events'[y] = events[y] /\ overtaken'[y] = overtaken[y]
      BY <2>0, <2>3 DEF Begin, Quit, Crash, NextRule, Leave, TypeOK, worldVars, historyVars
    <3>2. Queued(x)'
      BY <3>1 DEF Queued
    <3>. QED BY <2>2, <3>1, <3>2
  <2>4. ASSUME NEW x \in Runner, NEW r \in Rule, Survey(x, r)
        PROVE  Good'
    <3>1. /\ pc'[x] \notin {"send", "record"} /\ UNCHANGED <<gone, state, told, unsaved>>
          /\ \A y \in Runner \ {x} :
               /\ pc'[y] = pc[y] /\ rule'[y] = rule[y] /\ current'[y] = current[y]
               /\ events'[y] = events[y] /\ overtaken'[y] = overtaken[y]
      BY <2>0, <2>4 DEF Survey, TypeOK, worldVars, historyVars
    <3>2. Queued(x)'
      BY <3>1 DEF Queued
    <3>. QED BY <2>2, <3>1, <3>2
  <2>5. ASSUME NEW x \in Runner, NEW r \in Rule, CannotEvaluate(x, r)
        PROVE  Good'
    BY <2>1, <2>5 DEF CannotEvaluate, worldVars, historyVars
  <2>6. ASSUME NEW x \in Runner, Compare(x)
        PROVE  Good'
    <3> DEFINE said == state[rule[x]]
    <3>1. /\ events'[x] = [minion : Firing(said, current[x]), word : {"alerting"}]
                            \cup [minion : Recovered(said, current[x]), word : {"clear"}]
          /\ pc'[x] = "send" /\ rule' = rule
          /\ UNCHANGED <<gone, state, told, unsaved>>
          /\ \A y \in Runner \ {x} :
               /\ pc'[y] = pc[y] /\ rule'[y] = rule[y] /\ current'[y] = current[y]
               /\ events'[y] = events[y] /\ overtaken'[y] = overtaken[y]
      BY <2>0, <2>6 DEF Compare, TypeOK, worldVars
    <3>2. \A e \in events'[x] :
            \/ e.word = "alerting" /\ said[e.minion] # "alerting"
               /\ e = [minion |-> e.minion, word |-> "alerting"]
            \/ e.word = "clear" /\ said[e.minion] = "alerting"
               /\ e = [minion |-> e.minion, word |-> "clear"]
      BY <3>1 DEF Firing, Recovered
    <3> HIDE DEF said
    <3>3. \A a, b \in events'[x] : a.minion = b.minion => a = b
      BY <3>2
    <3>4. \A e \in events'[x] : said[e.minion] # e.word
      BY <3>2
    <3>5. Queued(x)'
      BY <3>1, <3>3, <3>4 DEF Queued, said
    <3>. QED BY <2>2, <3>1, <3>5
  <2>7. ASSUME NEW x \in Runner, NEW e \in Event, Deliver(x, e)
        PROVE  Good'
    <3>1. /\ pc[x] = "send" /\ e \in events[x] /\ rule[x] \in Rule
          /\ e.minion \in Minion
      BY <2>0, <2>7 DEF Deliver, AtRule, Event
    <3>2. /\ told' = [told EXCEPT ![rule[x]][e.minion] = e.word]
          /\ unsaved' = unsaved \cup {<<rule[x], e.minion>>}
          /\ pc'[x] = "record"
          /\ UNCHANGED <<gone, state, rule, events, overtaken>>
          /\ \A y \in Runner \ {x} : pc'[y] = pc[y] /\ current'[y] = current[y]
      BY <2>0, <2>7 DEF Deliver, TypeOK, worldVars
    <3>3. SaidIsStored'
      BY <2>0, <3>1, <3>2 DEF SaidIsStored, TypeOK
    <3>4. ASSUME NEW y \in Runner PROVE Queued(y)'
      <4>1. CASE y = x
        BY <2>0, <3>1, <3>2, <4>1 DEF Queued
      <4>2. CASE y # x
        BY <2>0, <3>2, <4>2 DEF Queued
      <4>. QED BY <4>1, <4>2
    <3>. QED BY <3>3, <3>4
  <2>8. ASSUME NEW x \in Runner, NEW e \in Event, Record(x, e)
        PROVE  Good'
    <3>1. /\ pc[x] = "record" /\ e \in events[x] /\ rule[x] \in Rule
          /\ current[x] = {e.minion} /\ e.minion \in Minion
      BY <2>0, <2>8 DEF Record, AtRule, Event
    <3>2. CASE rule[x] \notin gone
      <4>1. /\ state' = [state EXCEPT ![rule[x]][e.minion] = e.word]
            /\ unsaved' = IF told[rule[x]][e.minion] = e.word
                          THEN unsaved \ {<<rule[x], e.minion>>}
                          ELSE unsaved \cup {<<rule[x], e.minion>>}
            /\ overtaken' = [y \in Runner |-> IF y # x /\ rule[y] = rule[x]
                                             THEN overtaken[y] \cup {e.minion} ELSE overtaken[y]]
            /\ events'[x] = events[x] \ {e} /\ pc'[x] = "send"
            /\ UNCHANGED <<gone, told, rule, current>>
            /\ \A y \in Runner \ {x} : pc'[y] = pc[y] /\ events'[y] = events[y]
        BY <2>0, <2>8, <3>2 DEF Record, TypeOK, worldVars
      <4>2. SaidIsStored'
        BY <2>0, <3>1, <4>1 DEF SaidIsStored, TypeOK
      <4>3. Queued(x)'
        <5>1. overtaken'[x] = overtaken[x] /\ events'[x] \subseteq events[x]
          BY <4>1
        <5>2. ASSUME NEW f \in events'[x], f.minion \notin overtaken[x]
              PROVE  state'[rule[x]][f.minion] # f.word
          <6>1. f \in events[x] /\ f # e /\ f.minion \in Minion
            BY <2>0, <4>1 DEF TypeOK, Event
          <6>2. f.minion # e.minion
            BY <2>0, <3>1, <6>1 DEF Queued
          <6>3. state[rule[x]][f.minion] # f.word
            BY <2>0, <3>1, <3>2, <5>2, <6>1, <6>2 DEF Queued
          <6>4. state'[rule[x]][f.minion] = state[rule[x]][f.minion]
            BY <2>0, <3>1, <4>1, <6>1, <6>2 DEF TypeOK
          <6>. QED BY <6>3, <6>4
        <5>3. \A f, g \in events'[x] : f.minion = g.minion => f = g
          BY <2>0, <3>1, <5>1 DEF Queued
        <5>. QED BY <4>1, <5>1, <5>2, <5>3 DEF Queued
      <4>4. ASSUME NEW y \in Runner \ {x} PROVE Queued(y)'
        <5>1. CASE rule[y] = rule[x]
          <6>1. overtaken'[y] = overtaken[y] \cup {e.minion}
            BY <4>1, <5>1
          <6>2. \A m \in Minion \ {e.minion} : state'[rule[y]][m] = state[rule[y]][m]
            BY <2>0, <3>1, <4>1, <5>1 DEF TypeOK
          <6>3. \A f \in events[y] : f.minion \in Minion
            BY <2>0 DEF TypeOK, Event
          <6>. QED BY <2>0, <4>1, <6>1, <6>2, <6>3 DEF Queued
        <5>2. CASE rule[y] # rule[x]
          <6>1. overtaken'[y] = overtaken[y]
            BY <4>1, <5>2
          <6>2. pc[y] \in {"send", "record"} => state'[rule[y]] = state[rule[y]]
            BY <2>0, <3>1, <4>1, <5>2 DEF TypeOK, AtRule
          <6>. QED BY <2>0, <4>1, <6>1, <6>2 DEF Queued
        <5>. QED BY <5>1, <5>2
      <4>. QED BY <4>2, <4>3, <4>4
    <3>3. CASE rule[x] \in gone
      <4>1. /\ pc'[x] \notin {"send", "record"} /\ UNCHANGED <<gone, state, told, unsaved>>
            /\ \A y \in Runner \ {x} :
                 /\ pc'[y] = pc[y] /\ rule'[y] = rule[y] /\ current'[y] = current[y]
                 /\ events'[y] = events[y] /\ overtaken'[y] = overtaken[y]
        BY <2>0, <2>8, <3>3 DEF Record, Leave, TypeOK, worldVars
      <4>2. Queued(x)'
        BY <4>1 DEF Queued
      <4>. QED BY <2>2, <4>1, <4>2
    <3>. QED BY <3>2, <3>3
  <2>9. ASSUME NEW r \in Rule, Switch(r)
        PROVE  Good'
    BY <2>1, <2>9 DEF Switch, runVars, historyVars
  <2>10. ASSUME NEW r \in Rule, Remove(r)
         PROVE  Good'
    <3>1. /\ gone' = gone \cup {r} /\ \A q \in Rule \ {r} : state'[q] = state[q]
          /\ UNCHANGED <<told, pc, rule, current, events, unsaved, overtaken>>
      BY <2>0, <2>10 DEF Remove, TypeOK, runVars, historyVars
    <3>2. SaidIsStored'
      BY <2>0, <3>1 DEF SaidIsStored
    <3>3. \A x \in Runner : Queued(x)'
      BY <2>0, <3>1 DEF Queued, AtRule
    <3>. QED BY <3>2, <3>3
  <2>11. ASSUME NEW r \in Rule, NEW m \in Minion, Change(r, m)
         PROVE  Good'
    BY <2>1, <2>11 DEF Change, runVars, historyVars
  <2>12. CASE UNCHANGED vars
    <3>1. Good'
      BY <2>1, <2>12 DEF vars, worldVars, runVars, historyVars
    <3>. QED BY <1>2, <3>1 DEF IInv
  <2> HIDE DEF Good
  <2>13. Good' \/ UNCHANGED vars
    BY ONLY <1>2, <2>3, <2>4, <2>5, <2>6, <2>7, <2>8, <2>9, <2>10, <2>11 DEF Next, Step
  <2>. QED BY <1>2, <2>12, <2>13 DEF IInv, Good
<1>3. TypeInv /\ SaidIsStored /\ (\A x \in Runner : Queued(x)) <=> IInv
  BY DEF IInv
<1>4. Spec => Init /\ []TypeInv
  BY TypeInvCorrect, PTL DEF Spec
<1>. QED BY <1>1, <1>2, <1>3, <1>4, PTL DEF Spec

(* Alerts fire on a transition, never on a state (module docstring): for   *)
(* any number of runs, overlapping or not, a rule that still exists        *)
(* repeats itself about a minion only if the row does not say what was     *)
(* sent last, or another run wrote it since this one compared, whatever    *)
(* the fleet and the operators did meanwhile.                              *)
THEOREM TransitionsOnly == Spec => NeverRepeats
<1> DEFINE Fresh == \A x \in Runner, r \in Rule \ gone, m \in Minion, word \in Word :
                      Sends(x, r, m, word) =>
                        told[r][m] # word \/ <<r, m>> \in unsaved \/ m \in overtaken[x]
<1>1. ASSUME IInv
      PROVE  Fresh
  <2>1. TypeOK /\ SaidIsStored /\ \A x \in Runner : Queued(x)
    BY <1>1 DEF IInv, TypeInv
  <2>2. ASSUME NEW x \in Runner, NEW r \in Rule \ gone, NEW m \in Minion, NEW word \in Word,
               Sends(x, r, m, word), <<r, m>> \notin unsaved, m \notin overtaken[x]
        PROVE  told[r][m] # word
    <3> DEFINE e == [minion |-> m, word |-> word]
    <3>1. pc[x] = "send" /\ rule[x] = r /\ e \in events[x] /\ e.minion = m /\ e.word = word
      BY <2>2 DEF Sends
    <3> HIDE DEF e
    <3>2. state[r][m] # word
      BY <2>1, <2>2, <3>1 DEF Queued
    <3>. QED BY <2>1, <2>2, <3>2 DEF SaidIsStored
  <2>. QED BY <2>2
<1>2. Spec => [][Fresh]_vars
  BY <1>1, RunsCorrect, PTL DEF Spec
<1>. QED BY <1>2 DEF NeverRepeats
=============================================================================
