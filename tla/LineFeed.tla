------------------------------ MODULE LineFeed ------------------------------
(* What a page is promised of every event stream (with_keepalive's          *)
(* docstring and the comment above KEEPALIVE_SECONDS, api/views/alcali.py): *)
(* the master's chunks, each once and in order, and comments between two    *)
(* lines only.  How the chunks travel is not said here.                     *)
EXTENDS Naturals, Sequences

CONSTANTS Conn,       \* the connections
          Chunks,     \* what the master writes: "line" ends a line, "part" does not
          KeepAlive   \* the comment line

VARIABLES written,    \* per connection, the chunks the master has written
          read,       \* what has been written to the page, comments included
          handed,     \* how many of the chunks are among it
          over        \* the response has ended

vars == <<written, read, handed, over>>

\* Nothing, a whole line or a comment (which is a line) came last.
AtLineStart(s) == s = <<>> \/ s[Len(s)] # "part"

Init ==
  /\ written = [c \in Conn |-> <<>>]
  /\ read = [c \in Conn |-> <<>>]
  /\ handed = [c \in Conn |-> 0]
  /\ over = [c \in Conn |-> FALSE]

Write(c) ==
  /\ \E x \in Chunks : written' = [written EXCEPT ![c] = Append(@, x)]
  /\ UNCHANGED <<read, handed, over>>

Hand(c) ==
  LET n == handed[c] + 1
  IN /\ ~over[c]
     /\ n <= Len(written[c])
     /\ read' = [read EXCEPT ![c] = Append(@, written[c][n])]
     /\ handed' = [handed EXCEPT ![c] = n]
     /\ UNCHANGED <<written, over>>

Comment(c) ==
  /\ ~over[c]
  /\ AtLineStart(read[c])
  /\ read' = [read EXCEPT ![c] = Append(@, KeepAlive)]
  /\ UNCHANGED <<written, handed, over>>

\* The response ends; what it carried is forgotten.
End(c) ==
  /\ ~over[c]
  /\ over' = [over EXCEPT ![c] = TRUE]
  /\ written' = [written EXCEPT ![c] = <<>>]
  /\ read' = [read EXCEPT ![c] = <<>>]
  /\ handed' = [handed EXCEPT ![c] = 0]

\* The next stream takes the connection's place.
Reconnect(c) ==
  /\ over[c]
  /\ over' = [over EXCEPT ![c] = FALSE]
  /\ UNCHANGED <<written, read, handed>>

Next == \E c \in Conn : Write(c) \/ Hand(c) \/ Comment(c) \/ End(c) \/ Reconnect(c)

Spec == Init /\ [][Next]_vars
=============================================================================
