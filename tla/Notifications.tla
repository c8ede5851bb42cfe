---------------------------- MODULE Notifications ---------------------------
(***************************************************************************)
(* The notify command (api/notifications.py, run_rules()).                 *)
(*                                                                         *)
(* A run takes the enabled rules one after the other.  For each it asks    *)
(* which minions offend now, compares that with what the rule last said    *)
(* (NotificationState), and for every difference sends a message and then  *)
(* records it, one minion at a time, outside any transaction.  Cron starts *)
(* a run whether or not the one before has ended; a run can die anywhere.  *)
(* Sending counts whether or not a channel worked, as it does in the code. *)
(* A definition named Bug... is a faulty variant of the one that follows   *)
(* it, for checking that the properties notice the fault.                  *)
(***************************************************************************)
EXTENDS Naturals, FiniteSets

CONSTANTS
  Rule,      \* notification rules
  Minion,    \* minion ids
  Runner,    \* runs of the command that can be under way at a time
  NoRule,    \* no rule
  MaxFault   \* bound on crashes and rules that cannot be evaluated

ASSUME NotificationAssumption ==
  /\ NoRule \notin Rule
  /\ MaxFault \in Nat

(* What a message says, and whether the state row says ALERTING; no row    *)
(* and a row that says CLEAR are the same to every reader.                 *)
Word == {"alerting", "clear"}
Event == [minion : Minion, word : Word]

VARIABLES
  rules,    \* rules that exist and are enabled
  gone,     \* rules that were deleted
  offends,  \* Rule -> minions offenders_for() would return now
  state,    \* Rule -> Minion -> NotificationState
  told,     \* Rule -> Minion -> the last message sent
  pc,       \* Runner -> where the run is
  queue,    \* Runner -> rules the run has yet to take
  rule,     \* Runner -> the rule it is at
  current,  \* Runner -> the offenders it found for that rule
  events,   \* Runner -> messages it has yet to send, or the one to record
  faults,   \* crashes and failed evaluations so far
  unsaved,  \* history: <<rule, minion>> of which the row says not what was sent last
  overtaken \* history: Runner -> minions whose row another run wrote since it compared

worldVars == <<rules, gone, offends>>
runVars == <<pc, queue, rule, current, events>>
historyVars == <<unsaved, overtaken>>
vars == <<worldVars, state, told, runVars, faults, historyVars>>

TypeOK ==
  /\ rules \subseteq Rule
  /\ gone \subseteq Rule
  /\ offends \in [Rule -> SUBSET Minion]
  /\ state \in [Rule -> [Minion -> Word]]
  /\ told \in [Rule -> [Minion -> Word]]
  /\ pc \in [Runner -> {"idle", "next", "compare", "send", "record"}]
  /\ queue \in [Runner -> SUBSET Rule]
  /\ rule \in [Runner -> Rule \cup {NoRule}]
  /\ current \in [Runner -> SUBSET Minion]
  /\ events \in [Runner -> SUBSET Event]
  /\ faults \in 0..MaxFault
  /\ unsaved \subseteq Rule \X Minion
  /\ overtaken \in [Runner -> SUBSET Minion]

Silent == [m \in Minion |-> "clear"]

Init ==
  /\ rules \in SUBSET Rule
  /\ gone = {}
  /\ offends = [r \in Rule |-> {}]
  /\ state = [r \in Rule |-> Silent]
  /\ told = [r \in Rule |-> Silent]
  /\ pc = [x \in Runner |-> "idle"]
  /\ queue = [x \in Runner |-> {}]
  /\ rule = [x \in Runner |-> NoRule]
  /\ current = [x \in Runner |-> {}]
  /\ events = [x \in Runner |-> {}]
  /\ faults = 0
  /\ unsaved = {}
  /\ overtaken = [x \in Runner |-> {}]

-----------------------------------------------------------------------------
(* Cron starts a run: the enabled rules are read once. *)
Begin(x) ==
  /\ pc[x] = "idle"
  /\ pc' = [pc EXCEPT ![x] = "next"]
  /\ queue' = [queue EXCEPT ![x] = rules]
  /\ UNCHANGED <<worldVars, state, told, rule, current, events, faults, historyVars>>

(* The run is over, or is cut short. *)
Leave(x) ==
  /\ pc' = [pc EXCEPT ![x] = "idle"]
  /\ queue' = [queue EXCEPT ![x] = {}]
  /\ rule' = [rule EXCEPT ![x] = NoRule]
  /\ current' = [current EXCEPT ![x] = {}]
  /\ events' = [events EXCEPT ![x] = {}]
  /\ overtaken' = [overtaken EXCEPT ![x] = {}]

Quit(x) ==
  /\ pc[x] = "next"
  /\ queue[x] = {}
  /\ Leave(x)
  /\ UNCHANGED <<worldVars, state, told, faults, unsaved>>

(* transitions(): offenders_for() walks the fleet. *)
Survey(x, r) ==
  /\ pc[x] = "next"
  /\ r \in queue[x]
  /\ queue' = [queue EXCEPT ![x] = @ \ {r}]
  /\ rule' = [rule EXCEPT ![x] = r]
  /\ current' = [current EXCEPT ![x] = offends[r]]
  /\ pc' = [pc EXCEPT ![x] = "compare"]
  /\ UNCHANGED <<worldVars, state, told, events, faults, historyVars>>

(* A rule that cannot be evaluated does not stop the others. *)
CannotEvaluate(x, r) ==
  /\ pc[x] = "next"
  /\ r \in queue[x]
  /\ faults < MaxFault
  /\ faults' = faults + 1
  /\ queue' = [queue EXCEPT ![x] = @ \ {r}]
  /\ UNCHANGED <<worldVars, state, told, pc, rule, current, events, historyVars>>

(* transitions(): what the rule last said about each minion.               *)
BugEveryOffender(said, now) == now
Firing(said, now) == {m \in now : said[m] # "alerting"}

BugNeverRecovered(said, now) == {}
Recovered(said, now) == {m \in Minion : said[m] = "alerting" /\ m \notin now}

Compare(x) ==
  LET said == state[rule[x]] IN
  /\ pc[x] = "compare"
  /\ events' = [events EXCEPT ![x] =
       [minion : Firing(said, current[x]), word : {"alerting"}]
         \cup [minion : Recovered(said, current[x]), word : {"clear"}]]
  /\ pc' = [pc EXCEPT ![x] = "send"]
  /\ overtaken' = [overtaken EXCEPT ![x] = {}]
  /\ UNCHANGED <<worldVars, state, told, queue, rule, current, faults, unsaved>>

(* deliver(): alerts before recoveries. *)
Deliver(x, e) ==
  /\ pc[x] = "send"
  /\ e \in events[x]
  /\ e.word = "clear" => \A other \in events[x] : other.word = "clear"
  /\ told' = [told EXCEPT ![rule[x]][e.minion] = e.word]
  /\ unsaved' = unsaved \cup {<<rule[x], e.minion>>}
  /\ current' = [current EXCEPT ![x] = {e.minion}]
  /\ pc' = [pc EXCEPT ![x] = "record"]
  /\ UNCHANGED <<worldVars, state, queue, rule, events, faults, overtaken>>

(* record() of the message just sent: an upsert.  The rule may have been   *)
(* deleted meanwhile; then the foreign key fails and takes the run down.   *)
Record(x, e) ==
  /\ pc[x] = "record"
  /\ e \in events[x] /\ current[x] = {e.minion}
  /\ \/ /\ rule[x] \notin gone
        /\ state' = [state EXCEPT ![rule[x]][e.minion] = e.word]
        /\ unsaved' = IF told[rule[x]][e.minion] = e.word
                       THEN unsaved \ {<<rule[x], e.minion>>}
                       ELSE unsaved \cup {<<rule[x], e.minion>>}
        /\ overtaken' = [y \in Runner |-> IF y # x /\ rule[y] = rule[x]
                                         THEN overtaken[y] \cup {e.minion} ELSE overtaken[y]]
        /\ events' = [events EXCEPT ![x] = @ \ {e}]
        /\ pc' = [pc EXCEPT ![x] = "send"]
        /\ UNCHANGED <<queue, rule, current>>
     \/ /\ rule[x] \in gone
        /\ Leave(x)
        /\ UNCHANGED <<state, unsaved>>
  /\ UNCHANGED <<worldVars, told, faults>>

(* The rule is done. *)
NextRule(x) ==
  /\ pc[x] = "send"
  /\ events[x] = {}
  /\ overtaken' = [overtaken EXCEPT ![x] = {}]
  /\ pc' = [pc EXCEPT ![x] = "next"]
  /\ rule' = [rule EXCEPT ![x] = NoRule]
  /\ current' = [current EXCEPT ![x] = {}]
  /\ UNCHANGED <<worldVars, state, told, queue, events, faults, unsaved>>

(* The run is killed, or the database goes away under it. *)
Crash(x) ==
  /\ pc[x] # "idle"
  /\ faults < MaxFault
  /\ faults' = faults + 1
  /\ Leave(x)
  /\ UNCHANGED <<worldVars, state, told, unsaved>>

-----------------------------------------------------------------------------
(* A minion starts or stops offending against a rule. *)
Change(r, m) ==
  /\ offends' = [offends EXCEPT ![r] = IF m \in @ THEN @ \ {m} ELSE @ \cup {m}]
  /\ UNCHANGED <<rules, gone, state, told, runVars, faults, historyVars>>

(* NotificationRuleViewSet: a rule is enabled or disabled. *)
Switch(r) ==
  /\ r \notin gone
  /\ rules' = IF r \in rules THEN rules \ {r} ELSE rules \cup {r}
  /\ UNCHANGED <<gone, offends, state, told, runVars, faults, historyVars>>

(* It is deleted, and its states with it (on_delete=CASCADE). *)
Remove(r) ==
  /\ r \notin gone
  /\ rules' = rules \ {r}
  /\ gone' = gone \cup {r}
  /\ state' = [state EXCEPT ![r] = Silent]
  /\ UNCHANGED <<offends, told, runVars, faults, historyVars>>

Step(x) ==
  \/ Quit(x) \/ Compare(x) \/ NextRule(x)
  \/ \E r \in Rule : Survey(x, r)
  \/ \E e \in Event : Deliver(x, e) \/ Record(x, e)

Next ==
  \/ \E x \in Runner :
       \/ Begin(x) \/ Step(x) \/ Crash(x)
       \/ \E r \in Rule : CannotEvaluate(x, r)
  \/ \E r \in Rule : Switch(r) \/ Remove(r) \/ \E m \in Minion : Change(r, m)

Spec == Init /\ [][Next]_vars

(* Cron starts runs for ever, and a run that goes on ends. *)
FairSpec == Spec /\ \A x \in Runner : WF_vars(Begin(x)) /\ WF_vars(Step(x))

-----------------------------------------------------------------------------
Sends(x, r, m, word) ==
  /\ pc[x] = "send" /\ pc'[x] = "record"
  /\ rule[x] = r /\ current'[x] = {m} /\ [minion |-> m, word |-> word] \in events[x]

(* Alerts fire on a transition, never on a state (module docstring): a     *)
(* rule that still exists repeats itself about a minion only if its row    *)
(* does not say what was sent last (a run died between sending and         *)
(* recording, or runs recorded in another order than they sent), or if     *)
(* another run wrote that row after this one had read it - whichever       *)
(* minions changed their minds, rules were switched, evaluations failed or *)
(* runs overlapped meanwhile.                                              *)
NeverRepeats ==
  [][\A x \in Runner, r \in Rule \ gone, m \in Minion, word \in Word :
       Sends(x, r, m, word) =>
         told[r][m] # word \/ <<r, m>> \in unsaved \/ m \in overtaken[x]]_vars

Matches(r, m) == <>[](r \in rules /\ m \in offends[r])
Rests(r, m) == <>[](r \in rules /\ m \notin offends[r])
Recorded(r, m) == <>[](<<r, m>> \notin unsaved)

(* When a minion keeps offending against an enabled rule, or keeps not to, *)
(* the last message about it says so, even if runs overlap or died, unless *)
(* the row is left without the last message about that minion.             *)
SettledWordIsRight ==
  \A r \in Rule, m \in Minion :
    /\ Matches(r, m) /\ Recorded(r, m) => <>[](told[r][m] = "alerting")
    /\ Rests(r, m) /\ Recorded(r, m) => <>[](told[r][m] = "clear")

(* Not kept, and checked by no run.                                        *)
(*                                                                         *)
(* "Alerts fire on a transition rather than on a state ... and a recovery  *)
(* is sent when it stops matching" (docs, Notifications): with no          *)
(* condition, the last message about a minion ends up right.               *)
LastWordIsRight ==
  \A r \in Rule, m \in Minion :
    /\ Matches(r, m) => <>[](told[r][m] = "alerting")
    /\ Rests(r, m) => <>[](told[r][m] = "clear")

(* "Alerts fire on a transition, never on a state" (module docstring):     *)
(* with no condition, no message repeats the last one.                     *)
EachMessageIsNews ==
  [][\A x \in Runner, r \in Rule \ gone, m \in Minion, word \in Word :
       Sends(x, r, m, word) => told[r][m] # word]_vars
=============================================================================
