----------------------------- MODULE Highstate -------------------------------
(* One host of a highstate as text: _format_host of                         *)
(* api/utils/output/highstate_output.py.  A host is a scalar, a list of     *)
(* errors, or the sequence of its states, in the order of arrival.          *)
EXTENDS Orders, Sequences

Result == {"True", "False", "None"}

\* One state; changes "highstate" is a nested highstate, for which _format_host
\* is called with an argument short and raises TypeError.
HostState ==
  [num : Nat, result : Result, changes : {"none", "some", "highstate"}, warnings : BOOLEAN]

\* sorted(data, key=__run_num__): the sort is stable.
RunsBefore(states) ==
  {pair \in (DOMAIN states) \X DOMAIN states :
     LET i == pair[1]
         k == pair[2]
     IN states[i].num < states[k].num \/ (states[i].num = states[k].num /\ i < k)}

RunPlaces(states) == InOrder(DOMAIN states, RunsBefore(states))

InRunOrder(states) == [n \in DOMAIN states |-> states[RunPlaces(states)[n]]]

\* rcounts: each result, and the warnings beside them.
RCounts(states) ==
  LET having(result) == {i \in DOMAIN states : states[i].result = result}
  IN [True |-> Cardinality(having("True")),
      False |-> Cardinality(having("False")),
      None |-> Cardinality(having("None")),
      warnings |-> Cardinality({i \in DOMAIN states : states[i].warnings})]

\* Mutant: the colour is that of the last state.
BugLastColor(color, s) ==
  CASE s.result = "False" -> "RED" [] s.result = "None" -> "YELLOW" [] OTHER -> "GREEN"

\* hcolor: every state that failed or did not run sets it anew.
Colored(color, s) ==
  CASE s.result = "False" -> "RED" [] s.result = "None" -> "YELLOW" [] OTHER -> color

HostColor(states) ==
  LET ran == InRunOrder(states)
      upTo[n \in 0..Len(ran)] == IF n = 0 THEN "GREEN" ELSE Colored(upTo[n - 1], ran[n])
  IN upTo[Len(ran)]

\* The summary: the test-mode results count as succeeded, and as unchanged.
Summary(states) ==
  LET counts == RCounts(states)
  IN [succeeded |-> counts.True + counts.None,
      failed    |-> counts.False,
      unchanged |-> counts.None,
      changed   |-> Cardinality({i \in DOMAIN states : states[i].changes # "none"}),
      total     |-> counts.True + counts.False + counts.None + counts.warnings
                      - counts.warnings]

FormatHost(host) ==
  CASE host.kind = "scalar" -> [ok |-> TRUE, color |-> "CYAN", changed |-> TRUE, ids |-> <<>>]
    [] host.kind = "errors" -> [ok |-> TRUE, color |-> "LIGHT_RED", changed |-> FALSE, ids |-> <<>>]
    [] host.kind = "states" ->
         [ok |-> \A i \in DOMAIN host.of : host.of[i].changes # "highstate",
          color |-> HostColor(host.of),
          changed |-> Summary(host.of).changed > 0,
          ids |-> [i \in DOMAIN host.of |-> InRunOrder(host.of)[i].num]]
=============================================================================
