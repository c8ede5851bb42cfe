------------------------------ MODULE Matching -------------------------------
(* Target expressions evaluated on stored grains and pillar:                *)
(* api/utils/matching.py and MinionsViewSet.preview_target.                 *)
(* What is stored of a minion is a function from the locations in its JSON  *)
(* to what stands there.  A location is the sequence of the keys that lead  *)
(* to it, each with the indexes into the lists below that key.  A text is   *)
(* the sequence of its words between delimiters: "a:b" is <<"a", "b">>.     *)
EXTENDS Naturals, Sequences, FiniteSets, SequencesExt

Text == Seq(STRING)
Value ==
  [kind : {"leaf"}, text : Text] \cup [kind : {"bool"}, is : BOOLEAN]
    \cup [kind : {"null", "list", "dict"}]

Location == Seq([key : STRING, at : Seq(Nat)])
Under(place, key) == Append(place, [key |-> key, at |-> <<>>])
Parent(place) ==
  IF Last(place).at = <<>> THEN Front(place) ELSE [place EXCEPT ![Len(place)].at = Front(@)]

\* Grains and pillar are mappings; below, members stand in what holds them.
Document(stored) ==
  /\ DOMAIN stored \subseteq Location
  /\ \A place \in DOMAIN stored : stored[place] \in Value
  /\ <<>> \in DOMAIN stored /\ stored[<<>>].kind = "dict"
  /\ \A place \in DOMAIN stored \ {<<>>} :
       /\ Parent(place) \in DOMAIN stored
       /\ stored[Parent(place)].kind = IF Last(place).at = <<>> THEN "dict" ELSE "list"

Members(stored, place) == {p \in DOMAIN stored \ {<<>>} : Parent(p) = place}

IsList(stored, place) == stored[place].kind = "list"
Holds(stored, place, key) ==
  stored[place].kind = "dict" /\ Under(place, key) \in DOMAIN stored

-----------------------------------------------------------------------------
(* _walk.  Where it stands is the set of the places it has found: none, one, *)
(* or several, which are then a list of their own.                           *)

\* Where the next key is looked up: the members of a list, or the place itself.
Searched(stored, found) ==
  IF \E place \in found : found = {place} /\ IsList(stored, place)
    THEN UNION {Members(stored, place) : place \in found}
    ELSE found

\* Mutant: only one member of a list that has the key counts.
BugFirstFind(stored, found, key) ==
  LET holding == {place \in Searched(stored, found) : Holds(stored, place, key)}
  IN IF holding = {} THEN {} ELSE {Under(CHOOSE place \in holding : TRUE, key)}

Follow(stored, found, key) ==
  {Under(place, key) : place \in {p \in Searched(stored, found) : Holds(stored, p, key)}}

Walk(stored, path) ==
  LET upTo[n \in 0..Len(path)] ==
        IF n = 0 THEN {<<>>} ELSE Follow(stored, upTo[n - 1], path[n])
  IN upTo[Len(path)]

-----------------------------------------------------------------------------
(* subdict_match.                                                            *)

\* fnmatch, of which only the pattern that matches everything is kept.
Fnmatch(text, pattern) == pattern = <<"*">> \/ text = pattern

\* _value_matches, of a value that is no list; a mapping's text is no word.
ValueMatches(value, pattern) ==
  CASE value.kind = "leaf" -> Fnmatch(value.text, pattern)
    [] value.kind = "bool" -> pattern = <<IF value.is THEN "true" ELSE "false">>
    [] value.kind = "null" -> pattern \in {<<"none">>, <<"null">>}
    [] value.kind = "dict" -> pattern = <<"*">>

\* _value_matches, of a list: of its members, and of theirs.
InLists(place, p) ==
  /\ Len(p) = Len(place) /\ Front(p) = Front(place)
  /\ Last(p).key = Last(place).key /\ IsPrefix(Last(place).at, Last(p).at)

Values(stored, found) ==
  {p \in DOMAIN stored \ {<<>>} : /\ ~IsList(stored, p)
                                  /\ \E place \in found : InLists(place, p)}

Empty(stored, place) ==
  \/ stored[place].kind = "null"
  \/ stored[place].kind = "leaf" /\ stored[place].text = <<>>
  \/ stored[place].kind \in {"list", "dict"} /\ Members(stored, place) = {}

SubdictMatch(stored, expression) ==
  CASE expression = <<>>     -> FALSE
    [] Len(expression) = 1   ->
         \E place \in Walk(stored, expression) : ~Empty(stored, place)
    [] OTHER                 ->
         \E split \in 1..(Len(expression) - 1) :
           \E p \in Values(stored, Walk(stored, SubSeq(expression, 1, split))) :
             ValueMatches(stored[p], SubSeq(expression, split + 1, Len(expression)))

-----------------------------------------------------------------------------
(* preview_target over a roster of [id, grain, pillar]; a column that does   *)
(* not parse is not readable.  An expression of type "list" is its ids, one  *)
(* of type "glob" a text.                                                    *)
Evaluated == {"glob", "list", "grain", "pillar"}

ColumnOf(minion, tgtType) == IF tgtType = "grain" THEN minion.grain ELSE minion.pillar

Hit(minion, tgtType, expression) ==
  CASE tgtType = "glob" -> Fnmatch(<<minion.id>>, IF expression = <<>> THEN <<"*">> ELSE expression)
    [] tgtType = "list" -> minion.id \in ToSet(expression)
    [] OTHER            -> LET column == ColumnOf(minion, tgtType)
                           IN column.readable /\ SubdictMatch(column.stored, expression)

PreviewTarget(roster, tgtType, expression) ==
  IF tgtType \notin Evaluated THEN [evaluated |-> FALSE, matched |-> {}]
  ELSE [evaluated |-> TRUE,
        matched |-> {m.id : m \in {r \in roster : Hit(r, tgtType, expression)}}]

-----------------------------------------------------------------------------
(* The reference: an expression names the keys that lead to a place, however *)
(* many lists there are on the way, and what stands there.                   *)

KeysOf(place) == [i \in DOMAIN place |-> place[i].key]

Selects(stored, expression) ==
  IF Len(expression) = 1
  THEN \E place \in DOMAIN stored :
         place = Under(<<>>, expression[1]) /\ ~Empty(stored, place)
  ELSE \E place \in DOMAIN stored : \E split \in 1..(Len(expression) - 1) :
         /\ ~IsList(stored, place)
         /\ KeysOf(place) = SubSeq(expression, 1, split)
         /\ ValueMatches(stored[place], SubSeq(expression, split + 1, Len(expression)))

\* _walk does not look into a list that is a member of the one it stands on,
\* which several members that hold lists under one key are as well.
Stopped(stored, expression) ==
  \E n \in 1..(Len(expression) - 2) :
    \E place \in Searched(stored, Walk(stored, SubSeq(expression, 1, n))) :
      IsList(stored, place)
=============================================================================
