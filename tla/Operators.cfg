\* Every operator of the views on small sets of inputs.
SPECIFICATION Asking
CONSTANTS
  Word <- FormWords
  Number <- Numbers
  Assigns <- Assignments
  Input <- AllInputs
INVARIANTS TargetsAsWritten CommandsAsMeant ResultsShown HostsShown JobPagesAddUp FaultsNamed IndexesEndUp
