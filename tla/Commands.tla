------------------------------ MODULE Commands -------------------------------
(* From the run form to the low state and back to the page: createCommand   *)
(* (src/src/components/RunCard.vue), RawCommand.parse (api/utils/input) and *)
(* the run view (api/views/alcali.py).  A command is the sequence of its    *)
(* words, as shlex splits it, after the program name and --client.          *)
EXTENDS Integers, Sequences, SequencesExt, FiniteSetsExt

CONSTANTS Number,  \* what int() makes of a word: a function on the words it takes
          Assigns  \* on the words with a "=": the name and the value, as json.loads reads it

\* A keyword names no field that the low state has already: it would replace it.
ASSUME CommandsAssumption ==
  /\ \A word \in DOMAIN Number : Number[word] \in Int
  /\ \A word \in DOMAIN Assigns : Assigns[word].name \notin {"client", "fun", "arg"}

BatchFlags == {"-b", "--batch", "--batch-size"}
TimeoutFlags == {"-t", "--timeout"}

\* target_dict, in its order.
TargetFlags ==
  << <<"pcre", {"-E", "--pcre"}>>, <<"list", {"-L", "--list"}>>,
     <<"grain", {"-G", "--grain"}>>, <<"grain_pcre", {"--grain-pcre"}>>,
     <<"pillar", {"-I", "--pillar"}>>, <<"pillar_pcre", {"--pillar-pcre"}>>,
     <<"range", {"-R", "--range"}>>, <<"compound", {"-C", "--compound"}>>,
     <<"nodegroup", {"-N", "--nodegroup"}>> >>

Local == {"local", "local_async", "local_batch"}
Masters == {"runner", "wheel", "runner_async", "wheel_async"}   \* startswith
NoLow == [error |-> TRUE]

\* Where a flag stands last; 0 when it is not there.
LastOf(args, flags) == Max({0} \cup {i \in DOMAIN args : args[i] \in flags})

\* Mutant: the option goes and its value stays.
BugLeavesValue(args, at) == IF at > 1 THEN RemoveAt(args, at) ELSE args

\* The option and its value are taken out, but not when the option is the first
\* word: its index is then 0, which `if batch_index:` takes for none.
Without(args, at) == IF at > 1 THEN RemoveAt(RemoveAt(args, at), at) ELSE args

\* Where in target_dict a word's flag is; 0 when it is none.
Place(word) ==
  Max({0} \cup {i \in DOMAIN TargetFlags : word \in TargetFlags[i][2]})

\* The flags in front of the target: for each of target_dict in order, one word
\* is taken if it is one of that flag's, and the last one taken decides.
Targeted(args) ==
  LET follows(i) == Place(args[i]) > (IF i = 1 THEN 0 ELSE Place(args[i - 1]))
      taken == Max({n \in 0..Len(args) : \A i \in 1..n : follows(i)})
  IN [tgt_type |-> IF taken = 0 THEN "glob" ELSE TargetFlags[Place(args[taken])][1],
      args     |-> SubSeq(args, taken + 1, Len(args))]

\* An answer that is no low state: too few words, an option without a value, or
\* any --timeout, not only the last, that is no number.
ParseLocal(client, args) ==
  LET batchAt == IF client = "local_batch" THEN LastOf(args, BatchFlags) ELSE 0
      unbatched == Without(args, batchAt)
      timeoutAt == LastOf(unbatched, TimeoutFlags)
      unread(i) == i = Len(unbatched) \/ unbatched[i + 1] \notin DOMAIN Number
      rest == Targeted(Without(unbatched, timeoutAt))
  IN IF \/ Len(args) < 2 \/ batchAt = Len(args)
        \/ \E i \in DOMAIN unbatched : unbatched[i] \in TimeoutFlags /\ unread(i)
        \/ Len(rest.args) < 2
       THEN NoLow
       ELSE [error |-> FALSE, client |-> client, tgt_type |-> rest.tgt_type,
             tgt |-> rest.args[1], fun |-> rest.args[2],
             arg |-> SubSeq(rest.args, 3, Len(rest.args)),
             batch |-> IF batchAt = 0 THEN <<>> ELSE <<args[batchAt + 1]>>,
             timeout |-> IF timeoutAt = 0 THEN <<>> ELSE <<Number[unbatched[timeoutAt + 1]]>>]

\* The words that are no assignment, and what each name was assigned last.
Positional(words) == SelectSeq(words, LAMBDA word : word \notin DOMAIN Assigns)

Keywords(words) ==
  LET assigning == {i \in DOMAIN words : words[i] \in DOMAIN Assigns}
      last(name) == Max({i \in assigning : Assigns[words[i]].name = name})
  IN [name \in {Assigns[words[i]].name : i \in assigning} |-> Assigns[words[last(name)]].value]

ParseMaster(client, args) ==
  IF args = <<>> THEN NoLow
  ELSE [error |-> FALSE, client |-> client, fun |-> Head(args),
        arg |-> Positional(Tail(args)), kw |-> Keywords(Tail(args))]

Parse(client, args) ==
  CASE client \in Local   -> ParseLocal(client, args)
    [] client \in Masters -> ParseMaster(client, args)
    [] OTHER              -> NoLow   \* "Client not implemented"

-----------------------------------------------------------------------------
(* The form.  A field holds a text, which the page pastes into the command  *)
(* without quotes: it is the words shlex finds in it, where every quote is  *)
(* closed in the field it is opened in; <<>> is an empty field, and one     *)
(* that was never set is pasted as the word null.  `args` are the arguments, *)
(* test=True, the keywords and the pillar, in this order.                   *)

Flags == BatchFlags \cup TimeoutFlags \cup UNION {TargetFlags[i][2] : i \in DOMAIN TargetFlags}

\* target_type of RunCard.vue, but for "glob".
OptionOf(type) ==
  CASE type = "pcre" -> "--pcre"             [] type = "list" -> "--list"
    [] type = "grain" -> "--grain"           [] type = "grain_pcre" -> "--grain-pcre"
    [] type = "pillar" -> "--pillar"         [] type = "pillar_pcre" -> "--pillar-pcre"
    [] type = "range" -> "--range"           [] type = "compound" -> "--compound"
    [] type = "nodegroup" -> "--nodegroup"

TargetTypes == {TargetFlags[i][1] : i \in DOMAIN TargetFlags} \cup {"glob"}

Form(words) ==
  [client : {"local", "runner", "wheel"}, async : BOOLEAN, batched : BOOLEAN,
   tgt_type : TargetTypes, tgt : Seq(words), fun : Seq(words), args : Seq(words),
   batch : Seq(words), timeout : Seq(words)]

Async == [local |-> "local_async", runner |-> "runner_async", wheel |-> "wheel_async"]

\* "Batch" stays set when another client is chosen.
ClientOf(form) ==
  IF form.batched THEN "local_batch" ELSE IF form.async THEN Async[form.client] ELSE form.client

Option(set, flag, text) == IF set /\ text # <<>> THEN <<flag>> \o text ELSE <<>>

TypeFlag(form) == IF form.tgt_type = "glob" THEN <<>> ELSE <<OptionOf(form.tgt_type)>>

CreateCommand(form) ==
  (IF form.client = "local" THEN TypeFlag(form) \o form.tgt ELSE <<>>)
    \o form.fun \o form.args
    \o Option(form.batched, "-b", form.batch) \o Option(TRUE, "-t", form.timeout)

-----------------------------------------------------------------------------
(* The answer run_raw returns: a mapping (of minions, or an error), a list  *)
(* (runner, wheel), a text or another scalar.  `of` is the sequence of its  *)
(* members; that of a text is what `"error" in ret` finds in it.  FALSE of  *)
(* every minion means that nothing was collected.                           *)

Reply == [kind : {"mapping"}, of : Seq({"FALSE", "out"})] \cup [kind : {"list"}, of : Seq({"out"})]

HighstateFuns == {"state.apply", "state.highstate"}

\* Mutant: the client is not looked at.
BugAlwaysHighstate(low) == low.fun \in HighstateFuns

AsHighstate(low) == low.fun \in HighstateFuns /\ low.client # "local_async"

Rendered(ret, how) == [status |-> 200, items |-> [i \in DOMAIN ret.of |-> how],
                       note |-> /\ ret.kind = "mapping" /\ ret.of # <<>>
                                /\ \A i \in DOMAIN ret.of : ret.of[i] = "FALSE"]

\* `"error" in ret` is asked before the kind is: of a mapping it is a member
\* that the next line reads, of a text or a list that line cannot read it, and
\* of another scalar the question itself fails.
RunView(low, ret) ==
  IF ret.kind = "scalar" \/ (ret.kind # "mapping" /\ "error" \in ToSet(ret.of))
  THEN [status |-> 500, items |-> <<>>, note |-> FALSE]
  ELSE CASE ret.kind = "error"   -> [status |-> 401, items |-> <<>>, note |-> FALSE]
         [] ret.kind = "text"    -> [status |-> 200, items |-> <<"nested">>, note |-> FALSE]
         [] ret.kind = "list"    -> Rendered(ret, "nested")
         [] ret.kind = "mapping" -> Rendered(ret, IF AsHighstate(low) THEN "highstate" ELSE "nested")
=============================================================================
