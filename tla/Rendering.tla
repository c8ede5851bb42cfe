------------------------------ MODULE Rendering ------------------------------
(* Job results as text: api/utils/output/nested_output.py.  A line keeps    *)
(* its indent, its prefix and what it shows.                                *)
(* Data is <<"scalar", v>>, <<"text", sequence of lines>>,                  *)
(* <<"list", sequence>> or <<"dict", sequence of <<key, data>> >>.          *)
EXTENDS Naturals, Sequences, SequencesExt

Line(indent, prefix, shown) == [indent |-> indent, prefix |-> prefix, shown |-> shown]

Nests(data) == data[1] \in {"list", "dict"}

\* Mutant: the first member of a collection is taken for all of it.
BugFirstOnly(lines) == IF lines = <<>> THEN <<>> ELSE lines[1]

Joined(lines) == FlattenSeq(lines)

\* NestDisplay.display
RECURSIVE Display(_, _, _)
Display(data, indent, prefix) ==
  CASE data[1] = "scalar" -> <<Line(indent, prefix, data[2])>>
    [] data[1] = "text"   -> [i \in DOMAIN data[2] |->
                                Line(indent, IF i = 1 \/ prefix = "" THEN prefix ELSE "  ",
                                     data[2][i])]
    [] data[1] = "list"   ->
         Joined([i \in DOMAIN data[2] |->
                   IF Nests(data[2][i])
                     THEN <<Line(indent, "", "|_")>>
                            \o Display(data[2][i], indent + 2,
                                       IF data[2][i][1] = "dict" THEN "" ELSE "- ")
                     ELSE Display(data[2][i], indent, "- ")])
    [] data[1] = "dict"   ->
         (IF indent = 0 THEN <<>> ELSE <<Line(indent, "", "----------")>>)
           \o Joined([i \in DOMAIN data[2] |->
                        <<Line(indent, prefix, data[2][i][1])>>
                          \o Display(data[2][i][2], indent + 4, "")])

Marks == {"|_", "----------"}
Shown(data) ==
  LET lines == SelectSeq(Display(data, 0, ""), LAMBDA l : l.shown \notin Marks)
  IN [i \in DOMAIN lines |-> lines[i].shown]

\* The reference: keys and leaves of the data from left to right.
RECURSIVE Contents(_)
Contents(data) ==
  CASE data[1] = "scalar" -> <<data[2]>>
    [] data[1] = "text"   -> data[2]
    [] data[1] = "list"   -> FlattenSeq([i \in DOMAIN data[2] |-> Contents(data[2][i])])
    [] data[1] = "dict"   -> FlattenSeq([i \in DOMAIN data[2] |->
                                           <<data[2][i][1]>> \o Contents(data[2][i][2])])

=============================================================================
