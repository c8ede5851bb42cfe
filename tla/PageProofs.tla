------------------------------ MODULE PageProofs ------------------------------
(* The page, for any number of connections, threads, calls and users: each  *)
(* connection of its event stream has an owner and hands on what the master *)
(* wrote (EventStream implements LineFeed), and its session is of one user  *)
(* (FrontendAuth).                                                          *)
EXTENDS EventStream, FrontendAuth, TLAPS

LEMMA IdleType ==
  Idle \in Connection /\ \A b \in BOOLEAN : Asked(b) \in Connection
<1>1. /\ <<>> \in Seq(Chunk)
      /\ <<>> \in Seq(Chunk \ {"empty"})
      /\ <<>> \in Seq(Chunk \cup {StreamEnd})
      /\ <<>> \in Seq(Chunk \cup {KeepAlive})
  OBVIOUS
<1> QED
  BY <1>1 DEF Idle, Asked, Connection

\* One end or one state of a connection changes.
LEMMA SetType ==
  ASSUME NEW x \in Connection
  PROVE  /\ [x EXCEPT !.client = FALSE] \in Connection
         /\ [x EXCEPT !.bearer = FALSE] \in Connection
         /\ [x EXCEPT !.response = "over", !.bearer = FALSE] \in Connection
         /\ [x EXCEPT !.upstream = "ended"] \in Connection
         /\ [x EXCEPT !.response = "streaming", !.bearer = FALSE, !.upstream = "open",
                      !.pump = "reading"] \in Connection
  BY DEF Connection

\* The backoff takes six values, whatever the order of errors and successes.
LEMMA BackoffType ==
  ASSUME NEW b \in {0, 5, 10, 20, 40, 60}
  PROVE  NextBackoff(b) \in {0, 5, 10, 20, 40, 60}
  BY DEF NextBackoff

\* A comment is all that the response adds to what the master wrote.
LEMMA CommentedType ==
  ASSUME NEW s \in Seq(Chunk \cup {KeepAlive})
  PROVE  Commented(s) \in Seq(Chunk \cup {KeepAlive})
  BY DEF Commented

LEMMA OverType ==
  ASSUME TypeOK, NEW c \in Conn
  PROVE  Over(c) \in [Conn -> Connection]
<1> DEFINE x == [Idle EXCEPT !.client = conn[c].client, !.pump = conn[c].pump,
                             !.response = "over", !.upstream = "closed"]
<1>1. conn[c] \in Connection
  BY DEF TypeOK
<1>2. x \in Connection
  BY <1>1, IdleType DEF Connection
<1> QED
  BY <1>2 DEF TypeOK, Over

(***************************************************************************)
(* Who owns a connection.  A page that waits for its timer is mounted; that *)
(* is what makes the timer's connection, the only one, the page's own.     *)
(***************************************************************************)
TimerOfMounted == page.streamTimer => ~page.destroyed

IInv == TypeOK /\ StreamHasOwner /\ TimerOfMounted

LEMMA InitIInv == Init => IInv
<1> SUFFICES ASSUME Init PROVE IInv
  OBVIOUS
<1>1. PICK c \in Conn, access \in BOOLEAN :
        /\ page = [eventSource |-> c, streamTimer |-> FALSE, streamBackoff |-> 0,
                   destroyed |-> FALSE, access |-> access]
        /\ conn = [d \in Conn |-> IF d = c THEN Asked(access) ELSE Idle]
        /\ master = [up |-> TRUE, token |-> TRUE, settled |-> FALSE]
  BY DEF Init
<1>2. TypeOK
  BY <1>1, IdleType DEF TypeOK
<1>3. StreamHasOwner /\ TimerOfMounted
  BY <1>1 DEF StreamHasOwner, TimerOfMounted, Idle, Asked
<1> QED
  BY <1>2, <1>3 DEF IInv

-----------------------------------------------------------------------------
(* Types, one lemma for the page, one for the view, one for the pump and    *)
(* the response, one for the master.                                        *)

LEMMA PageType ==
  ASSUME TypeOK,
         \/ SaltStatus \/ Unmount \/ \E c \in Conn : Error(c)
         \/ BearerExpires \/ BearerRenewed
  PROVE  TypeOK'
<1>1. CASE SaltStatus
  <2>1. PICK c \in Conn :
          /\ conn' = [conn EXCEPT ![c] = Asked(page.access)]
          /\ page' = [page EXCEPT !.streamTimer = FALSE, !.eventSource = c]
    BY <1>1 DEF SaltStatus
  <2> QED
    BY <1>1, <2>1, IdleType DEF SaltStatus, TypeOK
<1>2. CASE Unmount
  <2>1. \A c \in Conn : [conn[c] EXCEPT !.client = FALSE] \in Connection
    BY SetType DEF TypeOK
  <2> QED
    BY <1>2, <2>1 DEF Unmount, TypeOK
<1>3. CASE \E c \in Conn : Error(c)
  <2>1. PICK c \in Conn : Error(c)
    BY <1>3
  <2>2. CASE UNCHANGED <<page, conn>>
    BY <2>1, <2>2 DEF Error, TypeOK
  <2>3. CASE ~UNCHANGED <<page, conn>>
    <3>1. /\ conn' = [conn EXCEPT ![c].client = FALSE]
          /\ page' = [page EXCEPT !.eventSource = Nil, !.streamTimer = TRUE,
                                  !.streamBackoff = NextBackoff(@)]
      BY <2>1, <2>3 DEF Error, ScheduleReconnect
    <3>2. conn' \in [Conn -> Connection]
      <4>1. conn' = [conn EXCEPT ![c] = [@ EXCEPT !.client = FALSE]]
        BY <3>1
      <4> QED
        BY <4>1, SetType DEF TypeOK
    <3>3. page.streamBackoff \in {0, 5, 10, 20, 40, 60}
      BY DEF TypeOK
    <3>4. NextBackoff(page.streamBackoff) \in {0, 5, 10, 20, 40, 60}
      BY <3>3, BackoffType
    <3> QED
      BY <2>1, <3>1, <3>2, <3>4 DEF Error, TypeOK
  <2> QED
    BY <2>2, <2>3
<1>4. CASE BearerExpires
  <2>1. \A c \in Conn : [conn[c] EXCEPT !.bearer = FALSE] \in Connection
    BY SetType DEF TypeOK
  <2> QED
    BY <1>4, <2>1 DEF BearerExpires, TypeOK
<1>5. CASE BearerRenewed
  BY <1>5 DEF BearerRenewed, TypeOK
<1> QED
  BY <1>1, <1>2, <1>3, <1>4, <1>5

LEMMA ViewType ==
  ASSUME TypeOK, NEW c \in Conn, Connected(c) \/ Refused(c)
  PROVE  TypeOK'
<1>1. CASE Connected(c)
  <2>1. conn' \in [Conn -> Connection]
    <3>1. conn' = [conn EXCEPT ![c] = [@ EXCEPT !.response = "streaming", !.bearer = FALSE,
                                                !.upstream = "open", !.pump = "reading"]]
      BY <1>1 DEF Connected, TypeOK
    <3> QED
      BY <3>1, SetType DEF TypeOK
  <2> QED
    BY <1>1, <2>1 DEF Connected, TypeOK
<1>2. CASE Refused(c)
  <2>1. conn' = [conn EXCEPT ![c] = [@ EXCEPT !.response = "over", !.bearer = FALSE]]
    BY <1>2 DEF Refused, TypeOK
  <2>2. [conn[c] EXCEPT !.response = "over", !.bearer = FALSE] \in Connection
    BY SetType DEF TypeOK
  <2>3. conn' \in [Conn -> Connection]
    BY <2>1, <2>2 DEF TypeOK
  <2> QED
    BY <1>2, <2>3 DEF Refused, TypeOK
<1> QED
  BY <1>1, <1>2

LEMMA PumpType ==
  ASSUME TypeOK, NEW c \in Conn, PumpPut(c) \/ PumpEnd(c)
  PROVE  TypeOK'
<1>0. conn \in [Conn -> Connection] /\ conn[c] \in Connection
  BY DEF TypeOK
<1>1. CASE PumpPut(c)
  <2> DEFINE chunk == conn[c].sent[conn[c].taken + 1]
             q == IF chunk = "empty" THEN conn[c].queue ELSE Append(conn[c].queue, chunk)
  <2>1. chunk \in Chunk
    BY <1>0, <1>1 DEF PumpPut, Connection
  <2>2. q \in Seq(Chunk \cup {StreamEnd})
    BY <1>0, <2>1 DEF Connection
  <2>3. conn' = [conn EXCEPT ![c] = [@ EXCEPT !.taken = conn[c].taken + 1, !.queue = q]]
    BY <1>0, <1>1 DEF PumpPut, Connection
  <2>4. [conn[c] EXCEPT !.taken = conn[c].taken + 1, !.queue = q] \in Connection
    <3>1. conn[c].taken + 1 \in Nat
      BY <1>0 DEF Connection
    <3> QED
      BY <1>0, <2>2, <3>1 DEF Connection
  <2> QED
    BY <1>0, <1>1, <2>3, <2>4 DEF PumpPut, TypeOK
<1>2. CASE PumpEnd(c)
  <2> DEFINE q == IF Streaming(c) THEN Append(conn[c].queue, StreamEnd) ELSE conn[c].queue
  <2>1. q \in Seq(Chunk \cup {StreamEnd})
    BY <1>0 DEF Connection
  <2>2. conn' = [conn EXCEPT ![c] = [@ EXCEPT !.pump = "ended", !.queue = q]]
    BY <1>0, <1>2 DEF PumpEnd, Connection
  <2>3. [conn[c] EXCEPT !.pump = "ended", !.queue = q] \in Connection
    BY <1>0, <2>1 DEF Connection
  <2> QED
    BY <1>0, <1>2, <2>2, <2>3 DEF PumpEnd, TypeOK
<1> QED
  BY <1>1, <1>2

LEMMA ResponseType ==
  ASSUME TypeOK, NEW c \in Conn, Yield(c) \/ Quiet(c) \/ Return(c) \/ WriteFails(c)
  PROVE  TypeOK'
<1>0. conn \in [Conn -> Connection] /\ conn[c] \in Connection
  BY DEF TypeOK
<1>1. CASE Yield(c)
  <2> DEFINE chunk == Head(conn[c].queue)
             x == [conn[c] EXCEPT !.queue = Tail(conn[c].queue),
                                  !.handed = conn[c].handed + 1,
                                  !.atLineBoundary = chunk = "line",
                                  !.out = Append(conn[c].out, chunk)]
  <2>1. conn[c].queue \in Seq(Chunk \cup {StreamEnd}) /\ conn[c].queue # <<>>
    BY <1>0, <1>1 DEF Yield, Connection
  <2>2. chunk \in Chunk /\ Tail(conn[c].queue) \in Seq(Chunk \cup {StreamEnd})
    BY <1>1, <2>1 DEF Yield
  <2>3. Append(conn[c].out, chunk) \in Seq(Chunk \cup {KeepAlive})
    BY <1>0, <2>2 DEF Connection
  <2>4. x \in Connection
    <3>1. conn[c].handed + 1 \in Nat
      BY <1>0 DEF Connection
    <3> QED
      BY <1>0, <2>2, <2>3, <3>1 DEF Connection
  <2>5. conn' = [conn EXCEPT ![c] = x]
    BY <1>0, <1>1 DEF Yield, Connection
  <2> QED
    BY <1>0, <1>1, <2>4, <2>5 DEF Yield, TypeOK
<1>2. CASE Quiet(c)
  <2> DEFINE o == IF conn[c].atLineBoundary THEN Commented(conn[c].out) ELSE conn[c].out
  <2>1. o \in Seq(Chunk \cup {KeepAlive})
    BY <1>0, CommentedType DEF Connection
  <2>2. conn' = [conn EXCEPT ![c] = [@ EXCEPT !.out = o]]
    BY <1>0, <1>2 DEF Quiet, Connection
  <2>3. [conn[c] EXCEPT !.out = o] \in Connection
    BY <1>0, <2>1 DEF Connection
  <2> QED
    BY <1>0, <1>2, <2>2, <2>3 DEF Quiet, TypeOK
<1>3. CASE Return(c) \/ WriteFails(c)
  BY <1>3, OverType DEF Return, WriteFails, TypeOK
<1> QED
  BY <1>1, <1>2, <1>3

LEMMA MasterType ==
  ASSUME TypeOK,
         \/ Down \/ Up \/ Relogin \/ Settle
         \/ \E c \in Conn : Event(c) \/ FinishLine(c)
  PROVE  TypeOK'
<1>1. CASE Down
  <2>1. \A c \in Conn : [conn[c] EXCEPT !.upstream = "ended"] \in Connection
    BY SetType DEF TypeOK
  <2> QED
    BY <1>1, <2>1 DEF Down, TypeOK
<1>2. CASE Up \/ Relogin \/ Settle
  BY <1>2 DEF Up, Relogin, Settle, TypeOK
<1>3. CASE \E c \in Conn : Event(c) \/ FinishLine(c)
  <2>1. PICK c \in Conn : Event(c) \/ FinishLine(c)
    BY <1>3
  <2>2. PICK chunk \in Chunk :
          conn' = [conn EXCEPT ![c].sent = Append(@, chunk),
                               ![c].feed = IF chunk = "empty" THEN @ ELSE Append(@, chunk)]
    BY <2>1 DEF Event, FinishLine, Writes, Chunk
  <2>3. conn \in [Conn -> Connection] /\ conn[c] \in Connection
    BY DEF TypeOK
  <2> DEFINE s == Append(conn[c].sent, chunk)
             f == IF chunk = "empty" THEN conn[c].feed ELSE Append(conn[c].feed, chunk)
  <2>4. s \in Seq(Chunk) /\ f \in Seq(Chunk \ {"empty"})
    BY <2>3 DEF Connection
  <2>5. [conn[c] EXCEPT !.sent = s, !.feed = f] \in Connection
    BY <2>3, <2>4 DEF Connection
  <2>6. conn' = [conn EXCEPT ![c] = [@ EXCEPT !.sent = s, !.feed = f]]
    BY <2>2, <2>3 DEF Connection
  <2> QED
    BY <2>1, <2>3, <2>5, <2>6 DEF Event, FinishLine, Writes, TypeOK
<1> QED
  BY <1>1, <1>2, <1>3

LEMMA NextType == TypeOK /\ [Next]_vars => TypeOK'
<1> SUFFICES ASSUME TypeOK, [Next]_vars PROVE TypeOK'
  OBVIOUS
<1>1. CASE \/ SaltStatus \/ Unmount \/ \E c \in Conn : Error(c)
           \/ BearerExpires \/ BearerRenewed
  BY <1>1, PageType
<1>2. CASE \E c \in Conn : Serve(c)
  BY <1>2, ViewType, PumpType, ResponseType DEF Serve
<1>3. CASE \/ Down \/ Up \/ Relogin \/ Settle
           \/ \E c \in Conn : Event(c) \/ FinishLine(c)
  BY <1>3, MasterType
<1>4. CASE UNCHANGED vars
  BY <1>4 DEF vars, TypeOK
<1> QED
  BY <1>1, <1>2, <1>3, <1>4 DEF Next

-----------------------------------------------------------------------------
(* Owners.                                                                  *)

\* The server and the master open and close no end of the browser, nor does
\* what becomes of the access token.
LEMMA ServerKeepsClients ==
  ASSUME TypeOK,
         \/ \E c \in Conn : Serve(c) \/ Event(c) \/ FinishLine(c)
         \/ Down \/ Up \/ Relogin \/ Settle
         \/ BearerExpires \/ BearerRenewed
  PROVE  /\ \A d \in Conn : conn'[d].client = conn[d].client
         /\ page'.eventSource = page.eventSource
         /\ page'.streamTimer = page.streamTimer
         /\ page'.destroyed = page.destroyed
<1>0. conn \in [Conn -> Connection]
  BY DEF TypeOK
<1>1. \A c, d \in Conn : ([conn[d] EXCEPT !.upstream = "ended"]).client = conn[d].client
  BY <1>0 DEF Connection
<1>2. CASE \E c \in Conn : Serve(c)
  <2>1. PICK c \in Conn : Serve(c)
    BY <1>2
  <2>2. \A d \in Conn \ {c} : conn'[d] = conn[d]
    BY <1>0, <2>1 DEF Serve, Connected, Refused, PumpPut, PumpEnd, Yield, Quiet, Return,
                      WriteFails, Over
  <2>3. conn'[c].client = conn[c].client
    <3>0. conn[c] \in Connection
      BY <1>0
    <3>1. CASE Connected(c) \/ Refused(c)
      BY <1>0, <3>0, <3>1 DEF Connected, Refused, Connection
    <3>2. CASE PumpPut(c) \/ PumpEnd(c)
      BY <1>0, <3>0, <3>2 DEF PumpPut, PumpEnd, Connection
    <3>3. CASE Yield(c) \/ Quiet(c)
      BY <1>0, <3>0, <3>3 DEF Yield, Quiet, Connection
    <3>4. CASE Return(c) \/ WriteFails(c)
      <4>1. conn' = Over(c)
        BY <3>4 DEF Return, WriteFails
      <4>2. Over(c)[c].client = conn[c].client
        BY <1>0, IdleType DEF Over, Connection
      <4> QED
        BY <4>1, <4>2
    <3> QED
      BY <2>1, <3>1, <3>2, <3>3, <3>4 DEF Serve
  <2>4. /\ page'.eventSource = page.eventSource
        /\ page'.streamTimer = page.streamTimer
        /\ page'.destroyed = page.destroyed
    BY <2>1 DEF Serve, Connected, Refused, PumpPut, PumpEnd, Yield, Quiet, Return,
                WriteFails, TypeOK
  <2> QED
    BY <2>2, <2>3, <2>4
<1>3. CASE \E c \in Conn : Event(c) \/ FinishLine(c)
  <2>1. PICK c \in Conn, chunk \in Chunk :
          conn' = [conn EXCEPT ![c].sent = Append(@, chunk),
                               ![c].feed = IF chunk = "empty" THEN @ ELSE Append(@, chunk)]
    BY <1>3 DEF Event, FinishLine, Writes, Chunk
  <2>2. \A d \in Conn : conn'[d].client = conn[d].client
    BY <1>0, <2>1 DEF Connection
  <2> QED
    BY <1>3, <2>2 DEF Event, FinishLine, Writes
<1>4. CASE Down \/ Up \/ Relogin \/ Settle
  BY <1>0, <1>1, <1>4 DEF Down, Up, Relogin, Settle
<1>5. CASE BearerExpires \/ BearerRenewed
  <2>1. \A d \in Conn : ([conn[d] EXCEPT !.bearer = FALSE]).client = conn[d].client
    BY <1>0 DEF Connection
  <2>2. page'.eventSource = page.eventSource /\ page'.streamTimer = page.streamTimer
        /\ page'.destroyed = page.destroyed
    BY <1>5 DEF BearerExpires, BearerRenewed, TypeOK
  <2> QED
    BY <1>0, <1>5, <2>1, <2>2 DEF BearerExpires, BearerRenewed
<1> QED
  BY <1>2, <1>3, <1>4, <1>5

LEMMA NextOwner == IInv /\ [Next]_vars => (StreamHasOwner /\ TimerOfMounted)'
<1> SUFFICES ASSUME IInv, [Next]_vars PROVE (StreamHasOwner /\ TimerOfMounted)'
  OBVIOUS
<1>0. /\ conn \in [Conn -> Connection]
      /\ page \in [eventSource : Conn \cup {Nil}, streamTimer : BOOLEAN,
                   streamBackoff : {0, 5, 10, 20, 40, 60}, destroyed : BOOLEAN,
                   access : BOOLEAN]
      /\ StreamHasOwner /\ TimerOfMounted
  BY DEF IInv, TypeOK
<1>1. CASE SaltStatus
  \* The timer was pending, so no connection was open.
  <2>1. PICK c \in Conn :
          /\ conn' = [conn EXCEPT ![c] = Asked(page.access)]
          /\ page' = [page EXCEPT !.streamTimer = FALSE, !.eventSource = c]
    BY <1>1 DEF SaltStatus
  <2>2. page.streamTimer /\ \A d \in Conn : ~conn[d].client
    BY <1>0, <1>1 DEF SaltStatus, StreamHasOwner
  <2> QED
    BY <1>0, <2>1, <2>2 DEF StreamHasOwner, TimerOfMounted, Connection
<1>2. CASE Unmount
  <2>1. \A d \in Conn : ~conn'[d].client
    BY <1>0, <1>2 DEF Unmount, StreamHasOwner, Connection
  <2> QED
    BY <1>0, <1>2, <2>1 DEF Unmount, StreamHasOwner, TimerOfMounted
<1>3. CASE \E c \in Conn : Error(c)
  \* The connection that fails is the page's own, and is closed.
  <2>1. PICK c \in Conn : Error(c)
    BY <1>3
  <2>2. ~page.destroyed /\ ~page.streamTimer /\ page.eventSource = c
    BY <1>0, <2>1 DEF Error, StreamHasOwner
  <2>3. \A d \in Conn \ {c} : ~conn[d].client
    BY <1>0, <2>2 DEF StreamHasOwner
  <2>4. /\ conn' = [conn EXCEPT ![c].client = FALSE]
        /\ page' = [page EXCEPT !.eventSource = Nil, !.streamTimer = TRUE,
                                !.streamBackoff = NextBackoff(@)]
    BY <2>1, <2>2 DEF Error, ScheduleReconnect
  <2>5. \A d \in Conn : ~conn'[d].client
    BY <1>0, <2>3, <2>4 DEF Connection
  <2> QED
    BY <1>0, <2>2, <2>4, <2>5 DEF StreamHasOwner, TimerOfMounted
<1>4. CASE \/ \E c \in Conn : Serve(c) \/ Event(c) \/ FinishLine(c)
           \/ Down \/ Up \/ Relogin \/ Settle
           \/ BearerExpires \/ BearerRenewed
  <2>1. TypeOK
    BY DEF IInv
  <2> QED
    BY <1>0, <1>4, <2>1, ServerKeepsClients DEF StreamHasOwner, TimerOfMounted
<1>5. CASE UNCHANGED vars
  BY <1>0, <1>5 DEF vars, StreamHasOwner, TimerOfMounted
<1> QED
  BY <1>1, <1>2, <1>3, <1>4, <1>5 DEF Next

LEMMA Inductive == Spec => []IInv
<1>1. Init => IInv
  BY InitIInv
<1>2. IInv /\ [Next]_vars => IInv'
  BY NextType, NextOwner DEF IInv
<1> QED
  BY <1>1, <1>2, PTL DEF Spec

\* Every state of EventStream is well typed: in particular the backoff is one
\* of six values, and the sentinel never reaches the page.
THEOREM TypeCorrect == Spec => []TypeOK
<1>1. IInv => TypeOK
  BY DEF IInv
<1> QED
  BY <1>1, Inductive, PTL

\* A connection the browser holds open is the page's one EventSource, of a
\* mounted page without a pending timer, for any number of connections.
THEOREM OwnerCorrect == Spec => []StreamHasOwner
<1>1. IInv => StreamHasOwner
  BY DEF IInv
<1> QED
  BY <1>1, Inductive, PTL

(***************************************************************************)
(* What a connection carries.  With b chunks in the queue and h handed on,  *)
(* the queue holds the chunks h + 1 to h + b of the feed.  What the pump    *)
(* takes next is found through the places p of the feed's chunks among all  *)
(* that the master has sent, empty chunks included: the pump is past the    *)
(* place of a chunk exactly when the chunk is one of the first h + b.       *)
(***************************************************************************)
BodyLen(x) ==
  IF x.queue # <<>> /\ x.queue[Len(x.queue)] = StreamEnd THEN Len(x.queue) - 1
                                                         ELSE Len(x.queue)

Reached(x) == x.handed + BodyLen(x)

Places(x, p) ==
  /\ \A k \in 1..Len(x.feed) : x.sent[p[k]] = x.feed[k]
  /\ \A j, k \in 1..Len(x.feed) : j < k => p[j] < p[k]
  /\ \A i \in 1..Len(x.sent) : x.sent[i] # "empty" => \E k \in 1..Len(x.feed) : p[k] = i
  /\ \A k \in 1..Len(x.feed) : p[k] <= x.taken <=> k <= Reached(x)

Placed(x) == \E p \in [1..Len(x.feed) -> 1..Len(x.sent)] : Places(x, p)

Quiescent(x) ==
  /\ x.sent = <<>> /\ x.feed = <<>> /\ x.queue = <<>> /\ x.out = <<>>
  /\ x.taken = 0 /\ x.handed = 0
  /\ x.upstream \notin {"open", "ended"}

QueueInStep(x) ==
  /\ Reached(x) <= Len(x.feed)
  /\ \A i \in 1..BodyLen(x) : x.queue[i] = x.feed[x.handed + i]
  /\ BodyLen(x) # Len(x.queue) => x.pump = "ended"

InStep(x) ==
  /\ x.response # "streaming" => Quiescent(x)
  /\ x.taken <= Len(x.sent)
  /\ Placed(x)
  /\ QueueInStep(x)
  /\ x.atLineBoundary => x.out = <<>> \/ x.out[Len(x.out)] # "part"

Carrying == \A c \in Conn : InStep(conn[c])

\* Where the chunks of the feed lie depends on these four only.
LEMMA PlacedAlike ==
  ASSUME NEW x, NEW y, Placed(x),
         y.feed = x.feed, y.sent = x.sent, y.taken = x.taken, Reached(y) = Reached(x)
  PROVE  Placed(y)
<1>1. PICK p \in [1..Len(x.feed) -> 1..Len(x.sent)] : Places(x, p)
  BY DEF Placed
<1>2. Places(y, p)
  BY <1>1 DEF Places
<1> QED
  BY <1>1, <1>2 DEF Placed

\* The sentinel is the last thing in a queue or not in it at all.
LEMMA BodyFacts ==
  ASSUME NEW x \in Connection, InStep(x)
  PROVE  /\ BodyLen(x) \in Nat /\ BodyLen(x) <= Len(x.queue)
         /\ x.pump # "ended" => BodyLen(x) = Len(x.queue)
<1>1. x.queue \in Seq(Chunk \cup {StreamEnd})
  BY DEF Connection
<1>2. BodyLen(x) \in Nat /\ BodyLen(x) <= Len(x.queue)
  BY <1>1 DEF BodyLen
<1> QED
  BY <1>2 DEF InStep, QueueInStep

\* A connection that carries nothing is in step.
LEMMA QuiescentInStep ==
  ASSUME NEW x \in Connection, Quiescent(x)
  PROVE  InStep(x)
<1>1. Len(x.feed) = 0 /\ Len(x.sent) = 0 /\ BodyLen(x) = 0 /\ Len(x.queue) = 0
  BY DEF Quiescent, BodyLen
<1>2. Placed(x)
  <2>1. [k \in 1..0 |-> 1] \in [1..Len(x.feed) -> 1..Len(x.sent)]
    BY <1>1
  <2>2. Places(x, [k \in 1..0 |-> 1])
    BY <1>1 DEF Places
  <2> QED
    BY <2>1, <2>2 DEF Placed
<1>3. QueueInStep(x)
  BY <1>1 DEF QueueInStep, Reached, Quiescent
<1> QED
  BY <1>2, <1>3 DEF InStep, Quiescent

\* Being in step says nothing of the browser's end, of the master's side but
\* that a stream is needed for it, and of the pump once it has ended.
LEMMA EndsInStep ==
  ASSUME NEW x \in Connection, NEW y \in Connection, InStep(x),
         /\ y.sent = x.sent /\ y.feed = x.feed /\ y.taken = x.taken
         /\ y.queue = x.queue /\ y.handed = x.handed /\ y.out = x.out
         /\ y.atLineBoundary = x.atLineBoundary,
         y.pump = x.pump \/ y.pump = "ended",
         y.response # "streaming" => Quiescent(y)
  PROVE  InStep(y)
<1>1. BodyLen(y) = BodyLen(x) /\ Reached(y) = Reached(x)
  BY DEF BodyLen, Reached
<1>2. Placed(y)
  BY <1>1, PlacedAlike DEF InStep
<1>3. QueueInStep(y)
  BY <1>1 DEF InStep, QueueInStep
<1> QED
  BY <1>2, <1>3 DEF InStep

\* A sequence is empty when its length is zero.
LEMMA EmptySeq == ASSUME NEW S, NEW s \in Seq(S) PROVE Len(s) = 0 <=> s = <<>>
OBVIOUS

\* PumpPut: the chunk that is taken is the next of the feed, or empty.
LEMMA TakeInStep ==
  ASSUME NEW x \in Connection, NEW y \in Connection, InStep(x),
         x.response = "streaming", x.pump = "reading", x.taken < Len(x.sent),
         y.taken = x.taken + 1,
         y.queue = IF x.sent[x.taken + 1] = "empty" THEN x.queue
                   ELSE Append(x.queue, x.sent[x.taken + 1]),
         /\ y.response = x.response /\ y.pump = x.pump
         /\ y.sent = x.sent /\ y.feed = x.feed /\ y.handed = x.handed /\ y.out = x.out
         /\ y.atLineBoundary = x.atLineBoundary
  PROVE  InStep(y)
<1> DEFINE t == x.taken + 1
           n == Reached(x)
<1>0. /\ x.queue \in Seq(Chunk \cup {StreamEnd}) /\ x.feed \in Seq(Chunk \ {"empty"})
      /\ x.sent \in Seq(Chunk) /\ x.taken \in Nat /\ x.handed \in Nat
      /\ BodyLen(x) = Len(x.queue) /\ n \in Nat /\ n = x.handed + Len(x.queue)
  <2>1. /\ x.queue \in Seq(Chunk \cup {StreamEnd}) /\ x.feed \in Seq(Chunk \ {"empty"})
        /\ x.sent \in Seq(Chunk) /\ x.taken \in Nat /\ x.handed \in Nat
    BY DEF Connection
  <2>2. BodyLen(x) = Len(x.queue)
    BY BodyFacts
  <2> QED
    BY <2>1, <2>2 DEF Reached
<1>1. t \in 1..Len(x.sent) /\ x.sent[t] \in Chunk
  BY <1>0
<1>c. y.taken <= Len(y.sent)
  BY <1>0
<1>2. PICK p \in [1..Len(x.feed) -> 1..Len(x.sent)] : Places(x, p)
  BY DEF InStep, Placed
<1>3. CASE x.sent[t] = "empty"
  <2>1. BodyLen(y) = BodyLen(x) /\ Reached(y) = n
    BY <1>3 DEF BodyLen, Reached
  <2>2. \A k \in 1..Len(x.feed) : p[k] # t
    BY <1>0, <1>2, <1>3 DEF Places
  <2>3. \A k \in 1..Len(x.feed) : p[k] <= t <=> k <= n
    <3> SUFFICES ASSUME NEW k \in 1..Len(x.feed) PROVE p[k] <= t <=> k <= n
      OBVIOUS
    <3>1. p[k] \in Nat /\ (p[k] <= x.taken <=> k <= n)
      <4>1. p[k] \in 1..Len(x.sent)
        BY <1>2
      <4> QED
        BY <1>2, <4>1 DEF Places
    <3>2. p[k] # t
      BY <2>2
    <3> QED
      BY <1>0, <3>1, <3>2
  <2>5. Places(y, p)
    BY <1>2, <2>1, <2>3 DEF Places
  <2>4. QueueInStep(y)
    BY <1>3, <2>1 DEF InStep, QueueInStep
  <2> QED
    BY <1>c, <2>4, <2>5 DEF InStep, Placed
<1>4. CASE x.sent[t] # "empty"
  <2>1. PICK k0 \in 1..Len(x.feed) : p[k0] = t
    BY <1>1, <1>2, <1>4 DEF Places
  <2>2. n + 1 <= k0
    BY <1>0, <1>2, <2>1 DEF Places
  <2>3. k0 <= n + 1
    <3>1. SUFFICES ASSUME n + 1 < k0 PROVE FALSE
      BY <1>0
    <3>2. n + 1 \in 1..Len(x.feed) /\ p[n + 1] < p[k0] /\ p[n + 1] \in Nat
      BY <1>0, <1>2, <2>1, <3>1 DEF Places
    <3>3. p[n + 1] <= x.taken
      BY <1>0, <2>1, <3>2
    <3> QED
      BY <1>0, <1>2, <3>2, <3>3 DEF Places
  <2>4. k0 = n + 1
    BY <1>0, <2>2, <2>3
  <2>5. x.feed[n + 1] = x.sent[t] /\ n + 1 \in 1..Len(x.feed)
    BY <1>2, <2>1, <2>4 DEF Places
  <2>6. y.queue = Append(x.queue, x.sent[t]) /\ x.sent[t] # StreamEnd
    BY <1>1, <1>4 DEF Chunk, StreamEnd
  <2>7. BodyLen(y) = Len(x.queue) + 1 /\ Len(y.queue) = Len(x.queue) + 1 /\ Reached(y) = n + 1
    <3> DEFINE e == x.sent[t]
    <3>1. e \in Chunk \cup {StreamEnd}
      BY <1>1
    <3>2. /\ y.queue # <<>> /\ Len(y.queue) = Len(x.queue) + 1
          /\ y.queue[Len(x.queue) + 1] = e
      <4>1. Len(y.queue) = Len(x.queue) + 1
        BY <1>0, <2>6, <3>1
      <4>2. y.queue[Len(x.queue) + 1] = e
        BY <1>0, <2>6, <3>1
      <4>3. Len(y.queue) # 0 /\ y.queue \in Seq(Chunk \cup {StreamEnd})
        BY <1>0, <4>1 DEF Connection
      <4> QED
        BY <4>1, <4>2, <4>3, EmptySeq
    <3>3. BodyLen(y) = Len(x.queue) + 1
      BY <2>6, <3>2 DEF BodyLen
    <3> QED
      BY <1>0, <3>2, <3>3, SMTT(20) DEF Reached
  <2>8. \A k \in 1..Len(x.feed) : p[k] <= t <=> k <= n + 1
    <3> SUFFICES ASSUME NEW k \in 1..Len(x.feed) PROVE p[k] <= t <=> k <= n + 1
      OBVIOUS
    <3>0. p[k] \in Nat /\ (p[k] <= x.taken <=> k <= n)
      BY <1>2 DEF Places
    <3>1. CASE k <= n
      BY <1>0, <3>0, <3>1
    <3>2. CASE k = n + 1
      BY <1>0, <2>1, <2>4, <3>2
    <3>3. CASE n + 1 < k
      <4>1. p[n + 1] < p[k]
        BY <1>2, <2>5, <3>3 DEF Places
      <4> QED
        BY <1>0, <2>1, <2>4, <3>0, <3>3, <4>1
    <3> QED
      BY <1>0, <3>1, <3>2, <3>3
  <2>9. Places(y, p)
    BY <1>2, <2>7, <2>8 DEF Places
  <2>10. QueueInStep(y)
    <3>1. \A i \in 1..BodyLen(y) : y.queue[i] = y.feed[y.handed + i]
      <4> SUFFICES ASSUME NEW i \in 1..BodyLen(y) PROVE y.queue[i] = y.feed[y.handed + i]
        OBVIOUS
      <4>0. /\ y.queue[Len(x.queue) + 1] = x.sent[t]
            /\ \A j \in 1..Len(x.queue) : y.queue[j] = x.queue[j]
        <5>1. x.sent[t] \in Chunk \cup {StreamEnd}
          BY <1>1
        <5> QED
          BY <1>0, <2>6, <5>1, SMTT(20)
      <4>1. CASE i \in 1..BodyLen(x)
        BY <1>0, <2>6, <4>0, <4>1 DEF InStep, QueueInStep
      <4>2. CASE i = Len(x.queue) + 1
        <5>1. y.queue[i] = x.sent[t]
          BY <2>6, <4>0, <4>2
        <5>2. y.handed + i = n + 1
          BY <1>0, <4>2
        <5> QED
          BY <2>5, <5>1, <5>2
      <4> QED
        BY <1>0, <2>7, <4>1, <4>2, SMTT(20)
    <3> QED
      BY <2>5, <2>7, <3>1 DEF QueueInStep
  <2> QED
    BY <1>c, <2>9, <2>10 DEF InStep, Placed
<1> QED
  BY <1>3, <1>4

\* PumpEnd, while the response streams: the sentinel closes the queue.
LEMMA EndInStep ==
  ASSUME NEW x \in Connection, NEW y \in Connection, InStep(x),
         x.response = "streaming", x.pump = "reading",
         y.queue = Append(x.queue, StreamEnd), y.pump = "ended",
         /\ y.response = x.response /\ y.taken = x.taken
         /\ y.sent = x.sent /\ y.feed = x.feed /\ y.handed = x.handed /\ y.out = x.out
         /\ y.atLineBoundary = x.atLineBoundary
  PROVE  InStep(y)
<1>0. /\ x.queue \in Seq(Chunk \cup {StreamEnd}) /\ BodyLen(x) = Len(x.queue)
      /\ x.handed \in Nat
  BY BodyFacts DEF Connection
<1>a. /\ y.queue # <<>> /\ Len(y.queue) = Len(x.queue) + 1
      /\ y.queue[Len(x.queue) + 1] = StreamEnd
      /\ \A i \in 1..Len(x.queue) : y.queue[i] = x.queue[i]
  <2>1. StreamEnd \in Chunk \cup {StreamEnd}
    OBVIOUS
  <2> QED
    <3>1. Len(y.queue) = Len(x.queue) + 1
      BY <1>0, <2>1
    <3>2. y.queue[Len(x.queue) + 1] = StreamEnd
      BY <1>0, <2>1
    <3>3. \A i \in 1..Len(x.queue) : y.queue[i] = x.queue[i]
      BY <1>0, <2>1
    <3>4. Len(y.queue) # 0 /\ y.queue \in Seq(Chunk \cup {StreamEnd})
      BY <1>0, <3>1 DEF Connection
    <3> QED
      BY <3>1, <3>2, <3>3, <3>4, EmptySeq
<1>1. BodyLen(y) = Len(x.queue) /\ Reached(y) = Reached(x)
  BY <1>0, <1>a DEF BodyLen, Reached
<1>2. Placed(y)
  BY <1>1, PlacedAlike DEF InStep
<1>3. QueueInStep(y)
  BY <1>0, <1>1, <1>a DEF InStep, QueueInStep
<1> QED
  BY <1>2, <1>3 DEF InStep

\* Yield: the head of the queue is the next chunk of the feed, and a text that
\* ends its line is what lets a comment follow.
LEMMA YieldInStep ==
  ASSUME NEW x \in Connection, NEW y \in Connection, InStep(x),
         x.response = "streaming", x.queue # <<>>, Head(x.queue) # StreamEnd,
         /\ y.queue = Tail(x.queue) /\ y.handed = x.handed + 1
         /\ y.atLineBoundary = (Head(x.queue) = "line")
         /\ y.out = Append(x.out, Head(x.queue)),
         /\ y.response = x.response /\ y.taken = x.taken /\ y.pump = x.pump
         /\ y.sent = x.sent /\ y.feed = x.feed
  PROVE  /\ InStep(y)
         /\ y.handed <= Len(x.feed)
         /\ y.out = Append(x.out, x.feed[y.handed])
<1>0. /\ x.queue \in Seq(Chunk \cup {StreamEnd}) /\ x.handed \in Nat
      /\ x.out \in Seq(Chunk \cup {KeepAlive}) /\ x.feed \in Seq(Chunk \ {"empty"})
  BY DEF Connection
<1> DEFINE q == x.queue
<1>1. /\ Len(q) \in Nat \ {0} /\ Head(q) = q[1] /\ Len(Tail(q)) = Len(q) - 1
      /\ \A i \in 1..(Len(q) - 1) : Tail(q)[i] = q[i + 1]
  <2>1. Len(q) \in Nat \ {0} /\ Head(q) = q[1]
    BY <1>0
  <2>2. Len(Tail(q)) = Len(q) - 1
    BY <1>0
  <2>3. \A i \in 1..(Len(q) - 1) : Tail(q)[i] = q[i + 1]
    BY <1>0
  <2> QED
    BY <2>1, <2>2, <2>3
<1>2. BodyLen(x) \in Nat /\ BodyLen(x) >= 1
  BY <1>0, <1>1 DEF BodyLen
<1>3. BodyLen(y) = BodyLen(x) - 1 /\ Reached(y) = Reached(x)
  <2>1. BodyLen(y) = BodyLen(x) - 1
    <3>1. CASE Len(q) = 1
      <4>1. q[Len(q)] # StreamEnd /\ y.queue = <<>>
        <5>1. y.queue \in Seq(Chunk \cup {StreamEnd}) /\ Len(y.queue) = 0
          BY <1>1, <3>1 DEF Connection
        <5>2. y.queue = <<>>
          BY <5>1, EmptySeq
        <5>3. q[Len(q)] # StreamEnd
          BY <1>1, <3>1
        <5> QED
          BY <5>2, <5>3
      <4>2. BodyLen(x) = Len(q)
        BY <4>1 DEF BodyLen
      <4>3. BodyLen(y) = 0
        BY <4>1 DEF BodyLen
      <4> QED
        BY <3>1, <4>2, <4>3
    <3>2. CASE Len(q) > 1
      <4>1. y.queue # <<>> /\ Len(y.queue) = Len(q) - 1 /\ y.queue[Len(y.queue)] = q[Len(q)]
        <5>1. y.queue \in Seq(Chunk \cup {StreamEnd}) /\ Len(y.queue) = Len(q) - 1
          BY <1>1 DEF Connection
        <5>2. y.queue # <<>>
          BY <3>2, <5>1
        <5>3. Len(q) - 1 \in 1..(Len(q) - 1) /\ (Len(q) - 1) + 1 = Len(q)
          BY <1>1, <3>2
        <5>4. y.queue[Len(q) - 1] = q[Len(q)]
          BY <1>1, <5>3
        <5> QED
          BY <5>1, <5>2, <5>4
      <4> QED
        BY <1>0, <1>1, <3>2, <4>1 DEF BodyLen
    <3>3. Len(q) = 1 \/ Len(q) > 1
      <4>1. Len(q) \in Nat /\ Len(q) # 0
        BY <1>1
      <4>2. \A n \in Nat : n # 0 => n = 1 \/ n > 1
        OBVIOUS
      <4> QED
        BY <4>1, <4>2, Zenon
    <3> QED
      BY <3>1, <3>2, <3>3
  <2> QED
    BY <1>0, <1>2, <2>1 DEF Reached
<1>4. Placed(y)
  BY <1>3, PlacedAlike DEF InStep
<1>5. QueueInStep(y)
  <2>0. BodyLen(x) <= Len(q)
    BY <1>0, <1>1 DEF BodyLen
  <2>1. \A i \in 1..BodyLen(y) : y.queue[i] = x.queue[i + 1] /\ i + 1 \in 1..BodyLen(x)
    <3> SUFFICES ASSUME NEW i \in 1..BodyLen(y)
                 PROVE  y.queue[i] = x.queue[i + 1] /\ i + 1 \in 1..BodyLen(x)
      OBVIOUS
    <3>1. i \in 1..(Len(q) - 1) /\ i + 1 \in 1..BodyLen(x)
      BY <1>1, <1>2, <1>3, <2>0
    <3> QED
      BY <1>1, <3>1
  <2>2. \A i \in 1..BodyLen(y) : y.queue[i] = y.feed[y.handed + i]
    <3> SUFFICES ASSUME NEW i \in 1..BodyLen(y) PROVE y.queue[i] = y.feed[y.handed + i]
      OBVIOUS
    <3>1. x.queue[i + 1] = x.feed[x.handed + (i + 1)]
      BY <2>1 DEF InStep, QueueInStep
    <3>2. y.handed + i = x.handed + (i + 1)
      <4>1. BodyLen(y) \in Nat
        BY <1>2, <1>3
      <4>2. x.handed \in Nat /\ i \in Nat /\ y.handed = x.handed + 1
        BY <1>0, <4>1
      <4> QED
        BY <4>2
    <3> QED
      BY <2>1, <3>1, <3>2
  <2>3. Len(y.queue) = Len(x.queue) - 1
    BY <1>0, <1>1
  <2> QED
    BY <1>0, <1>2, <1>3, <2>2, <2>3 DEF InStep, QueueInStep
<1>6. Head(x.queue) = x.feed[x.handed + 1] /\ x.handed + 1 <= Len(x.feed)
  BY <1>0, <1>1, <1>2 DEF InStep, QueueInStep, Reached
<1>7. y.atLineBoundary => y.out[Len(y.out)] # "part"
  <2>1. Head(q) \in Chunk \cup {KeepAlive}
    BY <1>0, <1>1
  <2>2. y.out[Len(y.out)] = Head(q)
    <3>1. Len(y.out) = Len(x.out) + 1 /\ y.out[Len(x.out) + 1] = Head(q)
      BY <1>0, <2>1
    <3> QED
      BY <3>1
  <2> QED
    BY <2>2
<1> QED
  BY <1>4, <1>5, <1>6, <1>7 DEF InStep

\* Quiet: a comment goes between two lines, and is a line itself.
LEMMA QuietInStep ==
  ASSUME NEW x \in Connection, NEW y \in Connection, InStep(x),
         x.response = "streaming",
         y.out = IF x.atLineBoundary THEN Commented(x.out) ELSE x.out,
         /\ y.response = x.response /\ y.taken = x.taken /\ y.pump = x.pump
         /\ y.sent = x.sent /\ y.feed = x.feed /\ y.queue = x.queue
         /\ y.handed = x.handed /\ y.atLineBoundary = x.atLineBoundary
  PROVE  /\ InStep(y)
         /\ \/ y.out = x.out
            \/ /\ y.out = Append(x.out, KeepAlive)
               /\ x.out = <<>> \/ x.out[Len(x.out)] # "part"
<1>0. x.out \in Seq(Chunk \cup {KeepAlive})
  BY DEF Connection
<1>1. BodyLen(y) = BodyLen(x) /\ Reached(y) = Reached(x)
  BY DEF BodyLen, Reached
<1>2. Placed(y) /\ QueueInStep(y)
  <2>1. Placed(y)
    BY <1>1, PlacedAlike DEF InStep
  <2> QED
    BY <1>1, <2>1 DEF InStep, QueueInStep
<1>3. CASE y.out = x.out
  BY <1>2, <1>3 DEF InStep
<1>4. CASE y.out # x.out
  <2>1. x.atLineBoundary /\ y.out = Append(x.out, KeepAlive)
    BY <1>4 DEF Commented
  <2>2. y.out[Len(y.out)] = KeepAlive
    <3>1. Len(y.out) = Len(x.out) + 1
      BY <1>0, <2>1
    <3>2. y.out[Len(x.out) + 1] = KeepAlive
      BY <1>0, <2>1
    <3> QED
      BY <3>1, <3>2
  <2>3. y.out[Len(y.out)] # "part"
    BY <2>2 DEF KeepAlive
  <2> QED
    BY <1>2, <2>1, <2>3 DEF InStep
<1> QED
  BY <1>3, <1>4

\* Writes: a chunk that is not empty takes the last place.
LEMMA WriteInStep ==
  ASSUME NEW x \in Connection, NEW y \in Connection, InStep(x), NEW chunk \in Chunk,
         x.response = "streaming", y.sent = Append(x.sent, chunk),
         y.feed = (IF chunk = "empty" THEN x.feed ELSE Append(x.feed, chunk)),
         /\ y.response = x.response /\ y.taken = x.taken /\ y.pump = x.pump
         /\ y.queue = x.queue /\ y.handed = x.handed /\ y.out = x.out
         /\ y.atLineBoundary = x.atLineBoundary
  PROVE  InStep(y)
<1> DEFINE n == Len(x.feed)
           m == Len(x.sent)
<1>0. /\ x.feed \in Seq(Chunk \ {"empty"}) /\ x.sent \in Seq(Chunk)
      /\ x.taken \in Nat /\ x.handed \in Nat
  BY DEF Connection
<1>a. n \in Nat /\ m \in Nat /\ Reached(x) \in Nat /\ Reached(x) <= n
  <2>1. Reached(x) \in Nat
    BY <1>0, BodyFacts DEF Reached
  <2> QED
    BY <1>0, <2>1 DEF InStep, QueueInStep
<1>b. x.taken <= m
  BY DEF InStep
<1>1. BodyLen(y) = BodyLen(x) /\ Reached(y) = Reached(x)
  BY DEF BodyLen, Reached
<1>2. /\ Len(y.sent) = m + 1
      /\ y.sent[m + 1] = chunk
      /\ \A i \in 1..m : y.sent[i] = x.sent[i]
  <2>1. Len(y.sent) = m + 1
    BY <1>0
  <2>2. y.sent[m + 1] = chunk
    BY <1>0
  <2>3. \A i \in 1..m : y.sent[i] = x.sent[i]
    BY <1>0
  <2> QED
    BY <2>1, <2>2, <2>3
<1>3. PICK p \in [1..n -> 1..m] : Places(x, p)
  BY DEF InStep, Placed
<1>c. y.taken <= Len(y.sent)
  BY <1>0, <1>a, <1>b, <1>2
<1>p. \A k \in 1..n : p[k] \in 1..m /\ p[k] \in 1..(m + 1)
  BY <1>3, <1>a
<1>4. CASE chunk = "empty"
  <2>1. y.feed = x.feed
    BY <1>4
  <2>2. \A i \in 1..(m + 1) : y.sent[i] # "empty" => i \in 1..m
    BY <1>a, <1>2, <1>4
  <2>3. \A k \in 1..n : y.sent[p[k]] = x.feed[k]
    BY <1>2, <1>3, <1>p DEF Places
  <2>4. \A i \in 1..(m + 1) : y.sent[i] # "empty" => \E k \in 1..n : p[k] = i
    BY <1>2, <1>3, <2>2 DEF Places
  <2>5. p \in [1..Len(y.feed) -> 1..Len(y.sent)] /\ Places(y, p)
    <3>1. p \in [1..n -> 1..(m + 1)]
      BY <1>3, <1>p
    <3> QED
      BY <1>1, <1>2, <1>3, <2>1, <2>3, <2>4, <3>1 DEF Places
  <2>6. QueueInStep(y)
    BY <1>1, <2>1 DEF InStep, QueueInStep
  <2> QED
    BY <1>c, <2>5, <2>6 DEF InStep, Placed
<1>5. CASE chunk # "empty"
  <2> DEFINE q == [k \in 1..(n + 1) |-> IF k \in 1..n THEN p[k] ELSE m + 1]
  <2>1. /\ Len(y.feed) = n + 1
        /\ y.feed[n + 1] = chunk
        /\ \A i \in 1..n : y.feed[i] = x.feed[i]
    <3>0. y.feed = Append(x.feed, chunk) /\ chunk \in Chunk \ {"empty"}
      BY <1>5
    <3>1. Len(y.feed) = n + 1
      BY <1>0, <3>0
    <3>2. y.feed[n + 1] = chunk
      BY <1>0, <3>0
    <3>3. \A i \in 1..n : y.feed[i] = x.feed[i]
      BY <1>0, <3>0
    <3> QED
      BY <3>1, <3>2, <3>3
  <2>2. q \in [1..(n + 1) -> 1..(m + 1)]
    BY <1>a, <1>p
  <2>3. /\ \A k \in 1..n : q[k] = p[k]
        /\ q[n + 1] = m + 1
        /\ \A k \in 1..(n + 1) : k \in 1..n \/ k = n + 1
    BY <1>a
  <2> HIDE DEF q
  <2>4. \A k \in 1..(n + 1) : y.sent[q[k]] = y.feed[k]
    <3>1. \A k \in 1..n : y.sent[q[k]] = y.feed[k]
      <4>1. \A k \in 1..n : y.sent[p[k]] = x.feed[k]
        BY <1>2, <1>3, <1>p DEF Places
      <4> QED
        BY <2>1, <2>3, <4>1
    <3> QED
      BY <1>2, <2>1, <2>3, <3>1
  <2>5. \A j, k \in 1..(n + 1) : j < k => q[j] < q[k]
    <3> SUFFICES ASSUME NEW j \in 1..(n + 1), NEW k \in 1..(n + 1), j < k PROVE q[j] < q[k]
      OBVIOUS
    <3>1. j \in 1..n /\ q[j] = p[j] /\ p[j] \in 1..m
      BY <1>a, <1>p, <2>3
    <3>2. CASE k \in 1..n
      BY <1>3, <2>3, <3>1, <3>2 DEF Places
    <3>3. CASE k = n + 1
      BY <1>a, <2>3, <3>1, <3>3
    <3> QED
      BY <2>3, <3>2, <3>3
  <2>6. \A i \in 1..(m + 1) : y.sent[i] # "empty" => \E k \in 1..(n + 1) : q[k] = i
    <3> SUFFICES ASSUME NEW i \in 1..(m + 1), y.sent[i] # "empty"
                 PROVE  \E k \in 1..(n + 1) : q[k] = i
      OBVIOUS
    <3>1. CASE i \in 1..m
      <4>1. PICK k \in 1..n : p[k] = i
        BY <1>2, <1>3, <3>1 DEF Places
      <4>2. k \in 1..(n + 1) /\ q[k] = i
        BY <1>a, <2>3, <4>1, SMTT(20)
      <4> QED
        BY <4>2
    <3>2. CASE i = m + 1
      <4>1. n + 1 \in 1..(n + 1)
        BY <1>a
      <4> QED
        BY <2>3, <3>2, <4>1
    <3> QED
      BY <1>a, <3>1, <3>2
  <2>7. \A k \in 1..(n + 1) : q[k] <= y.taken <=> k <= Reached(y)
    <3> SUFFICES ASSUME NEW k \in 1..(n + 1) PROVE q[k] <= x.taken <=> k <= Reached(x)
      BY <1>1
    <3>1. CASE k \in 1..n
      BY <1>3, <2>3, <3>1 DEF Places
    <3>2. CASE k = n + 1
      BY <1>0, <1>a, <1>b, <2>3, <3>2
    <3> QED
      BY <2>3, <3>1, <3>2
  <2>8. q \in [1..Len(y.feed) -> 1..Len(y.sent)] /\ Places(y, q)
    BY <1>2, <2>1, <2>2, <2>4, <2>5, <2>6, <2>7 DEF Places
  <2>9. QueueInStep(y)
    <3>1. \A i \in 1..BodyLen(y) : y.queue[i] = y.feed[y.handed + i]
      <4> SUFFICES ASSUME NEW i \in 1..BodyLen(x) PROVE x.queue[i] = y.feed[x.handed + i]
        BY <1>1
      <4>1. BodyLen(x) \in Nat
        BY BodyFacts
      <4>2. x.handed + i \in 1..n
        BY <1>0, <1>a, <4>1 DEF Reached
      <4> QED
        BY <2>1, <4>2 DEF InStep, QueueInStep
    <3>2. Reached(y) <= Len(y.feed)
      BY <1>a, <1>1, <2>1
    <3> QED
      BY <1>1, <3>1, <3>2 DEF InStep, QueueInStep
  <2> QED
    BY <1>c, <2>8, <2>9 DEF InStep, Placed
<1> QED
  BY <1>4, <1>5

(***************************************************************************)
(* Each step of the system, seen from the feed: the response that hands a   *)
(* chunk on hands it on there, a comment is one there, the end of a         *)
(* response is its end, a reconnection follows an end, and the pump, the    *)
(* page and the queue are not seen at all.                                  *)
(***************************************************************************)
FeedStep == Feed!Next \/ UNCHANGED Feed!vars

\* One connection changes: what is left to show is about that one.
LEMMA OneConnection ==
  ASSUME Carrying, NEW c \in Conn, \A d \in Conn \ {c} : conn'[d] = conn[d],
         InStep(conn'[c])
  PROVE  Carrying'
  BY DEF Carrying

LEMMA Unseen ==
  ASSUME \A d \in Conn : /\ conn'[d].feed = conn[d].feed
                         /\ conn'[d].out = conn[d].out
                         /\ conn'[d].handed = conn[d].handed
                         /\ (conn'[d].response = "over") = (conn[d].response = "over")
  PROVE  UNCHANGED Feed!vars
  BY DEF Feed!vars

\* The four ways in which the feed sees one connection move.
LEMMA SeenToHand ==
  ASSUME TypeOK, NEW c \in Conn, \A d \in Conn \ {c} : conn'[d] = conn[d],
         conn[c].response # "over", conn'[c].response # "over",
         conn'[c].feed = conn[c].feed,
         conn'[c].handed = conn[c].handed + 1,
         conn'[c].handed <= Len(conn[c].feed),
         conn'[c].out = Append(conn[c].out, conn[c].feed[conn'[c].handed])
  PROVE  Feed!Hand(c)
  BY DEF Feed!Hand

LEMMA SeenToComment ==
  ASSUME TypeOK, NEW c \in Conn, \A d \in Conn \ {c} : conn'[d] = conn[d],
         conn[c].response # "over", conn'[c].response # "over",
         conn'[c].feed = conn[c].feed, conn'[c].handed = conn[c].handed,
         conn'[c].out = Append(conn[c].out, KeepAlive),
         conn[c].out = <<>> \/ conn[c].out[Len(conn[c].out)] # "part"
  PROVE  Feed!Comment(c)
  BY DEF Feed!Comment, Feed!AtLineStart

LEMMA SeenToWrite ==
  ASSUME TypeOK, NEW c \in Conn, \A d \in Conn \ {c} : conn'[d] = conn[d],
         (conn'[c].response = "over") = (conn[c].response = "over"),
         NEW chunk \in Chunk \ {"empty"}, conn'[c].feed = Append(conn[c].feed, chunk),
         conn'[c].handed = conn[c].handed, conn'[c].out = conn[c].out
  PROVE  Feed!Write(c)
  BY DEF Feed!Write

LEMMA SeenToEnd ==
  ASSUME TypeOK, NEW c \in Conn, \A d \in Conn \ {c} : conn'[d] = conn[d],
         conn[c].response # "over", conn'[c].response = "over",
         conn'[c].feed = <<>>, conn'[c].out = <<>>, conn'[c].handed = 0
  PROVE  Feed!End(c)
  BY DEF Feed!End

LEMMA SeenToReconnect ==
  ASSUME TypeOK, NEW c \in Conn, \A d \in Conn \ {c} : conn'[d] = conn[d],
         conn[c].response = "over", conn'[c].response # "over",
         conn'[c].feed = conn[c].feed, conn'[c].out = conn[c].out,
         conn'[c].handed = conn[c].handed
  PROVE  Feed!Reconnect(c)
  BY DEF Feed!Reconnect

-----------------------------------------------------------------------------
(* The page.                                                                *)

LEMMA PageCarries ==
  ASSUME TypeOK, TypeOK', Carrying,
         \/ SaltStatus \/ Unmount \/ \E c \in Conn : Error(c)
         \/ BearerExpires \/ BearerRenewed
  PROVE  Carrying' /\ FeedStep
<1>0. conn \in [Conn -> Connection] /\ conn' \in [Conn -> Connection]
  BY DEF TypeOK
<1>1. CASE SaltStatus
  <2>1. PICK c \in Conn : Finished(c) /\ conn' = [conn EXCEPT ![c] = Asked(page.access)]
    BY <1>1 DEF SaltStatus
  <2> DEFINE a == Asked(page.access)
  <2>2. conn'[c] = a /\ \A d \in Conn \ {c} : conn'[d] = conn[d]
    BY <1>0, <2>1
  <2>3. /\ Quiescent(a) /\ a \in Connection
        /\ a.response # "over" /\ a.feed = <<>> /\ a.out = <<>> /\ a.handed = 0
    <3>1. page.access \in BOOLEAN
      BY DEF TypeOK
    <3> QED
      BY <3>1, IdleType DEF Quiescent, Asked, Idle
  <2> HIDE DEF a
  <2>4. Carrying'
    BY <2>2, <2>3, QuiescentInStep, OneConnection
  <2>5. Quiescent(conn[c])
    BY <2>1 DEF Finished, Carrying, InStep
  <2>6. conn[c].feed = <<>> /\ conn[c].out = <<>> /\ conn[c].handed = 0
    BY <2>5 DEF Quiescent
  <2>7. CASE conn[c].response = "over"
    <3>1. Feed!Reconnect(c)
      BY <2>2, <2>3, <2>6, <2>7, SeenToReconnect
    <3> QED
      BY <2>4, <3>1 DEF FeedStep, Feed!Next
  <2>8. CASE conn[c].response # "over"
    <3>1. UNCHANGED Feed!vars
      BY <2>2, <2>3, <2>6, <2>8, Unseen
    <3> QED
      BY <2>4, <3>1 DEF FeedStep
  <2> QED
    BY <2>7, <2>8
<1>2. CASE \/ Unmount \/ \E c \in Conn : Error(c)
           \/ BearerExpires \/ BearerRenewed
  <2>1. \A d \in Conn :
          \/ conn'[d] = conn[d]
          \/ conn'[d] = [conn[d] EXCEPT !.client = FALSE]
          \/ conn'[d] = [conn[d] EXCEPT !.bearer = FALSE]
    <3>1. CASE Unmount
      BY <1>0, <3>1 DEF Unmount
    <3>2. CASE \E c \in Conn : Error(c)
      BY <1>0, <3>2 DEF Error, ScheduleReconnect
    <3>3. CASE BearerExpires \/ BearerRenewed
      BY <1>0, <3>3 DEF BearerExpires, BearerRenewed
    <3> QED
      BY <1>2, <3>1, <3>2, <3>3
  <2>2. \A d \in Conn :
          /\ conn'[d].sent = conn[d].sent /\ conn'[d].feed = conn[d].feed
          /\ conn'[d].taken = conn[d].taken /\ conn'[d].queue = conn[d].queue
          /\ conn'[d].handed = conn[d].handed /\ conn'[d].out = conn[d].out
          /\ conn'[d].atLineBoundary = conn[d].atLineBoundary
          /\ conn'[d].pump = conn[d].pump /\ conn'[d].response = conn[d].response
          /\ conn'[d].upstream = conn[d].upstream
    <3> DEFINE kept(x, y) ==
                 /\ y.sent = x.sent /\ y.feed = x.feed
                 /\ y.taken = x.taken /\ y.queue = x.queue
                 /\ y.handed = x.handed /\ y.out = x.out
                 /\ y.atLineBoundary = x.atLineBoundary
                 /\ y.pump = x.pump /\ y.response = x.response
                 /\ y.upstream = x.upstream
    <3>1. \A d \in Conn : /\ kept(conn[d], [conn[d] EXCEPT !.client = FALSE])
                          /\ kept(conn[d], [conn[d] EXCEPT !.bearer = FALSE])
      BY <1>0 DEF Connection
    <3>2. \A d \in Conn : kept(conn[d], conn[d])
      OBVIOUS
    <3>3. \A d \in Conn : kept(conn[d], conn'[d])
      <4> HIDE DEF kept
      <4> QED
        BY <2>1, <3>1, <3>2
    <3> QED
      BY <3>3
  <2>3. \A d \in Conn : InStep(conn'[d])
    <3> SUFFICES ASSUME NEW d \in Conn PROVE InStep(conn'[d])
      OBVIOUS
    <3>1. InStep(conn[d]) /\ conn[d] \in Connection /\ conn'[d] \in Connection
      BY <1>0 DEF Carrying
    <3>2. conn'[d].response # "streaming" => Quiescent(conn'[d])
      BY <2>2, <3>1 DEF InStep, Quiescent
    <3> QED
      BY <2>2, <3>1, <3>2, EndsInStep
  <2>4. UNCHANGED Feed!vars
    BY <2>2, Unseen
  <2> QED
    BY <2>3, <2>4 DEF Carrying, FeedStep
<1> QED
  BY <1>1, <1>2

-----------------------------------------------------------------------------
(* The view and the pump.                                                   *)

LEMMA ViewCarries ==
  ASSUME TypeOK, TypeOK', Carrying, NEW c \in Conn, Connected(c) \/ Refused(c)
  PROVE  Carrying' /\ FeedStep
<1> DEFINE x == conn[c]
           y == conn'[c]
<1>0. /\ conn \in [Conn -> Connection] /\ conn' \in [Conn -> Connection]
      /\ x \in Connection /\ y \in Connection /\ InStep(x)
  BY DEF TypeOK, Carrying
<1>1. /\ \A d \in Conn \ {c} : conn'[d] = conn[d]
      /\ y.sent = x.sent /\ y.feed = x.feed /\ y.taken = x.taken
      /\ y.queue = x.queue /\ y.handed = x.handed /\ y.out = x.out
      /\ y.atLineBoundary = x.atLineBoundary
      /\ Connected(c) => y.response = "streaming"
      /\ Refused(c) => y.response = "over" /\ y.pump = x.pump /\ y.upstream = x.upstream
  BY <1>0 DEF Connected, Refused, Connection
<1>2. x.response = "asked" /\ Quiescent(x)
  BY <1>0 DEF Connected, Refused, InStep
<1>3. CASE Connected(c)
  <2>1. InStep(y)
    <3>1. BodyLen(x) = 0 /\ Len(x.queue) = 0
      BY <1>2 DEF Quiescent, BodyLen
    <3>2. BodyLen(y) = BodyLen(x) /\ Reached(y) = Reached(x)
      BY <1>1 DEF BodyLen, Reached
    <3>3. Placed(y)
      BY <1>0, <1>1, <3>2, PlacedAlike DEF InStep
    <3>4. QueueInStep(y)
      BY <1>0, <1>1, <3>1, <3>2 DEF InStep, QueueInStep
    <3> QED
      BY <1>0, <1>1, <1>3, <3>3, <3>4 DEF InStep
  <2>2. UNCHANGED Feed!vars
    BY <1>1, <1>2, <1>3, Unseen
  <2> QED
    BY <1>1, <2>1, <2>2, OneConnection DEF FeedStep
<1>4. CASE Refused(c)
  <2>1. Quiescent(y)
    BY <1>1, <1>2, <1>4 DEF Quiescent
  <2>2. Feed!End(c)
    BY <1>1, <1>2, <1>4, SeenToEnd DEF Quiescent
  <2> QED
    BY <1>0, <1>1, <2>1, <2>2, QuiescentInStep, OneConnection DEF FeedStep, Feed!Next
<1> QED
  BY <1>3, <1>4

LEMMA PumpCarries ==
  ASSUME TypeOK, TypeOK', Carrying, NEW c \in Conn, PumpPut(c) \/ PumpEnd(c)
  PROVE  Carrying' /\ FeedStep
<1> DEFINE x == conn[c]
           y == conn'[c]
<1>0. /\ conn \in [Conn -> Connection] /\ conn' \in [Conn -> Connection]
      /\ x \in Connection /\ y \in Connection /\ InStep(x)
  BY DEF TypeOK, Carrying
<1>1. /\ \A d \in Conn \ {c} : conn'[d] = conn[d]
      /\ y.response = x.response /\ y.sent = x.sent /\ y.feed = x.feed
      /\ y.handed = x.handed /\ y.out = x.out /\ y.atLineBoundary = x.atLineBoundary
      /\ y.upstream = x.upstream
  BY <1>0, SMTT(20) DEF PumpPut, PumpEnd, Connection
<1>2. InStep(y)
  <2>1. CASE PumpPut(c)
    <3>1. x.pump = "reading" /\ x.response = "streaming" /\ x.taken < Len(x.sent)
      BY <1>0, <2>1 DEF PumpPut, InStep, Quiescent
    <3>2. /\ y.taken = x.taken + 1 /\ y.pump = x.pump
          /\ y.queue = IF x.sent[x.taken + 1] = "empty" THEN x.queue
                       ELSE Append(x.queue, x.sent[x.taken + 1])
      BY <1>0, <2>1 DEF PumpPut, Connection
    <3> QED
      BY <1>0, <1>1, <3>1, <3>2, TakeInStep
  <2>2. CASE PumpEnd(c) /\ Streaming(c)
    <3>1. x.pump = "reading" /\ x.response = "streaming"
      BY <2>2 DEF PumpEnd, Streaming
    <3>2. y.taken = x.taken /\ y.pump = "ended" /\ y.queue = Append(x.queue, StreamEnd)
      BY <1>0, <2>2 DEF PumpEnd, Connection
    <3> QED
      BY <1>0, <1>1, <3>1, <3>2, EndInStep
  <2>3. CASE PumpEnd(c) /\ ~Streaming(c)
    <3>1. y.taken = x.taken /\ y.pump = "ended" /\ y.queue = x.queue
      BY <1>0, <2>3 DEF PumpEnd, Connection
    <3>2. Quiescent(y)
      BY <1>0, <1>1, <2>3, <3>1 DEF InStep, Streaming, Quiescent
    <3> QED
      BY <1>0, <3>2, QuiescentInStep
  <2> QED
    BY <2>1, <2>2, <2>3
<1>3. UNCHANGED Feed!vars
  BY <1>1, Unseen
<1> QED
  BY <1>1, <1>2, <1>3, OneConnection DEF FeedStep

-----------------------------------------------------------------------------
(* The response.                                                            *)

LEMMA OverCarries ==
  ASSUME TypeOK, TypeOK', Carrying, NEW c \in Conn, Return(c) \/ WriteFails(c)
  PROVE  Carrying' /\ FeedStep
<1> DEFINE x == conn[c]
           y == conn'[c]
<1>0. /\ conn \in [Conn -> Connection] /\ conn' \in [Conn -> Connection]
      /\ x \in Connection /\ y \in Connection
  BY DEF TypeOK
<1>1. conn' = Over(c) /\ Streaming(c)
  BY DEF Return, WriteFails
<1>2. /\ \A d \in Conn \ {c} : conn'[d] = conn[d]
      /\ y = [Idle EXCEPT !.client = conn[c].client, !.pump = conn[c].pump,
                          !.response = "over", !.upstream = "closed"]
  BY <1>0, <1>1 DEF Over
<1>3. Quiescent(y) /\ y.response = "over"
  BY <1>2 DEF Quiescent, Idle
<1>4. InStep(y)
  BY <1>0, <1>3, QuiescentInStep
<1>5. Feed!End(c)
  BY <1>1, <1>2, <1>3, SeenToEnd DEF Quiescent, Streaming
<1> QED
  BY <1>2, <1>4, <1>5, OneConnection DEF FeedStep, Feed!Next

LEMMA ResponseCarries ==
  ASSUME TypeOK, TypeOK', Carrying, NEW c \in Conn, Yield(c) \/ Quiet(c)
  PROVE  Carrying' /\ FeedStep
<1> DEFINE x == conn[c]
           y == conn'[c]
<1>0. /\ conn \in [Conn -> Connection] /\ conn' \in [Conn -> Connection]
      /\ x \in Connection /\ y \in Connection /\ InStep(x)
  BY DEF TypeOK, Carrying
<1>1. /\ \A d \in Conn \ {c} : conn'[d] = conn[d]
      /\ y.response = x.response /\ x.response = "streaming" /\ y.sent = x.sent
      /\ y.feed = x.feed /\ y.taken = x.taken /\ y.pump = x.pump
  BY <1>0, SMTT(20) DEF Yield, Quiet, Streaming, Connection
<1>2. CASE Yield(c)
  <2>1. /\ x.queue # <<>> /\ Head(x.queue) # StreamEnd
        /\ y.queue = Tail(x.queue) /\ y.handed = x.handed + 1
        /\ y.atLineBoundary = (Head(x.queue) = "line")
        /\ y.out = Append(x.out, Head(x.queue))
    <3>1. x.queue # <<>> /\ Head(x.queue) # StreamEnd
      BY <1>2, Zenon DEF Yield
    <3>2. conn' = [conn EXCEPT ![c].queue = Tail(@), ![c].handed = @ + 1,
                               ![c].atLineBoundary = Head(x.queue) = "line",
                               ![c].out = Append(@, Head(x.queue))]
      BY <1>2, Zenon DEF Yield
    <3>3. /\ y.queue = Tail(x.queue) /\ y.handed = x.handed + 1
          /\ y.atLineBoundary = (Head(x.queue) = "line")
          /\ y.out = Append(x.out, Head(x.queue))
      BY <1>0, <3>2, ZenonT(40) DEF Connection
    <3> QED
      BY <3>1, <3>3
  <2>2. /\ InStep(y) /\ y.handed <= Len(x.feed)
        /\ y.out = Append(x.out, x.feed[y.handed])
    BY <1>0, <1>1, <2>1, YieldInStep
  <2>3. Feed!Hand(c)
    BY <1>1, <2>1, <2>2, SeenToHand
  <2> QED
    BY <1>1, <2>2, <2>3, OneConnection DEF FeedStep, Feed!Next
<1>3. CASE Quiet(c)
  <2>1. /\ y.out = IF x.atLineBoundary THEN Commented(x.out) ELSE x.out
        /\ y.queue = x.queue /\ y.handed = x.handed
        /\ y.atLineBoundary = x.atLineBoundary
    BY <1>0, <1>3 DEF Quiet, Connection
  <2>2. /\ InStep(y)
        /\ \/ y.out = x.out
           \/ /\ y.out = Append(x.out, KeepAlive)
              /\ x.out = <<>> \/ x.out[Len(x.out)] # "part"
    BY <1>0, <1>1, <2>1, QuietInStep
  <2>3. CASE y.out = x.out
    <3>1. UNCHANGED Feed!vars
      BY <1>1, <2>1, <2>3, Unseen
    <3> QED
      BY <1>1, <2>2, <3>1, OneConnection DEF FeedStep
  <2>4. CASE y.out # x.out
    <3>1. Feed!Comment(c)
      BY <1>1, <2>1, <2>2, <2>4, SeenToComment
    <3> QED
      BY <1>1, <2>2, <3>1, OneConnection DEF FeedStep, Feed!Next
  <2> QED
    BY <2>3, <2>4
<1> QED
  BY <1>2, <1>3

-----------------------------------------------------------------------------
(* The master.                                                              *)

LEMMA WriteCarries ==
  ASSUME TypeOK, TypeOK', Carrying, NEW c \in Conn, Event(c) \/ FinishLine(c)
  PROVE  Carrying' /\ FeedStep
<1> DEFINE x == conn[c]
           y == conn'[c]
<1>0. /\ conn \in [Conn -> Connection] /\ conn' \in [Conn -> Connection]
      /\ x \in Connection /\ y \in Connection /\ InStep(x)
  BY DEF TypeOK, Carrying
<1>1. PICK chunk \in Chunk :
        conn' = [conn EXCEPT ![c].sent = Append(@, chunk),
                             ![c].feed = IF chunk = "empty" THEN @ ELSE Append(@, chunk)]
  BY DEF Event, FinishLine, Writes, Chunk
<1>2. /\ \A d \in Conn \ {c} : conn'[d] = conn[d]
      /\ y.sent = Append(x.sent, chunk)
      /\ y.feed = (IF chunk = "empty" THEN x.feed ELSE Append(x.feed, chunk))
      /\ y.response = x.response /\ y.taken = x.taken /\ y.pump = x.pump
      /\ y.queue = x.queue /\ y.handed = x.handed /\ y.out = x.out
      /\ y.atLineBoundary = x.atLineBoundary
  BY <1>0, <1>1 DEF Connection
<1>3. x.response = "streaming"
  BY <1>0 DEF Event, FinishLine, Writes, InStep, Quiescent
<1>4. InStep(y)
  BY <1>0, <1>2, <1>3, WriteInStep
<1>5. CASE chunk = "empty"
  <2>1. UNCHANGED Feed!vars
    BY <1>2, <1>5, Unseen
  <2> QED
    BY <1>2, <1>4, <2>1, OneConnection DEF FeedStep
<1>6. CASE chunk # "empty"
  <2>1. Feed!Write(c)
    BY <1>2, <1>6, SeenToWrite
  <2> QED
    BY <1>2, <1>4, <2>1, OneConnection DEF FeedStep, Feed!Next
<1> QED
  BY <1>5, <1>6

LEMMA MasterCarries ==
  ASSUME TypeOK, TypeOK', Carrying, Down \/ Up \/ Relogin \/ Settle
  PROVE  Carrying' /\ FeedStep
<1>0. conn \in [Conn -> Connection] /\ conn' \in [Conn -> Connection]
  BY DEF TypeOK
<1>1. CASE Down
  <2> DEFINE kept(x, y) ==
               /\ y.sent = x.sent /\ y.feed = x.feed
               /\ y.taken = x.taken /\ y.queue = x.queue
               /\ y.handed = x.handed /\ y.out = x.out
               /\ y.atLineBoundary = x.atLineBoundary
               /\ y.pump = x.pump /\ y.response = x.response
  <2>1. \A d \in Conn : \/ conn'[d] = conn[d]
                        \/ /\ conn[d].upstream = "open"
                           /\ conn'[d] = [conn[d] EXCEPT !.upstream = "ended"]
    BY <1>0, <1>1 DEF Down
  <2>2. \A d \in Conn : kept(conn[d], [conn[d] EXCEPT !.upstream = "ended"])
    BY <1>0 DEF Connection
  <2>3. \A d \in Conn : kept(conn[d], conn'[d])
    <3>1. \A d \in Conn : kept(conn[d], conn[d])
      OBVIOUS
    <3> HIDE DEF kept
    <3> QED
      BY <2>1, <2>2, <3>1
  <2>4. \A d \in Conn : InStep(conn'[d])
    <3> SUFFICES ASSUME NEW d \in Conn PROVE InStep(conn'[d])
      OBVIOUS
    <3>1. InStep(conn[d]) /\ conn[d] \in Connection /\ conn'[d] \in Connection
      BY <1>0 DEF Carrying
    <3>2. conn'[d].response # "streaming" => Quiescent(conn'[d])
      <4> SUFFICES ASSUME conn'[d].response # "streaming" PROVE Quiescent(conn'[d])
        OBVIOUS
      <4>1. Quiescent(conn[d])
        BY <2>3, <3>1 DEF InStep
      <4>2. conn'[d] = conn[d]
        BY <2>1, <4>1 DEF Quiescent
      <4> QED
        BY <4>1, <4>2
    <3> QED
      BY <2>3, <3>1, <3>2, EndsInStep
  <2>5. UNCHANGED Feed!vars
    BY <2>3, Unseen
  <2> QED
    BY <2>4, <2>5 DEF Carrying, FeedStep
<1>2. CASE Up \/ Relogin \/ Settle
  <2>1. conn' = conn
    BY <1>2 DEF Up, Relogin, Settle
  <2> QED
    BY <2>1, Unseen DEF Carrying, FeedStep
<1> QED
  BY <1>1, <1>2

LEMMA NextCarries == TypeOK /\ TypeOK' /\ Carrying /\ [Next]_vars => Carrying' /\ FeedStep
<1> SUFFICES ASSUME TypeOK, TypeOK', Carrying, [Next]_vars PROVE Carrying' /\ FeedStep
  OBVIOUS
<1>1. CASE \/ SaltStatus \/ Unmount \/ \E c \in Conn : Error(c)
           \/ BearerExpires \/ BearerRenewed
  BY <1>1, PageCarries
<1>2. CASE \E c \in Conn : Serve(c)
  BY <1>2, ViewCarries, PumpCarries, OverCarries, ResponseCarries DEF Serve
<1>3. CASE \E c \in Conn : Event(c) \/ FinishLine(c)
  BY <1>3, WriteCarries
<1>4. CASE Down \/ Up \/ Relogin \/ Settle
  BY <1>4, MasterCarries
<1>5. CASE UNCHANGED vars
  <2>1. conn' = conn
    BY <1>5 DEF vars
  <2> QED
    BY <2>1, Unseen DEF Carrying, FeedStep
<1> QED
  BY <1>1, <1>2, <1>3, <1>4, <1>5 DEF Next

\* At the start one connection is asked for and none carries anything.
LEMMA InitCarries == Init => Carrying /\ Feed!Init
<1> SUFFICES ASSUME Init PROVE Carrying /\ Feed!Init
  OBVIOUS
<1>1. PICK c \in Conn, b \in BOOLEAN :
        conn = [d \in Conn |-> IF d = c THEN Asked(b) ELSE Idle]
  BY DEF Init
<1>2. \A d \in Conn : Quiescent(conn[d]) /\ conn[d] \in Connection /\ conn[d].response # "over"
  BY <1>1, IdleType DEF Quiescent, Asked, Idle
<1>3. Carrying
  BY <1>2, QuiescentInStep DEF Carrying
<1>4. Feed!Init
  BY <1>2 DEF Feed!Init, Quiescent
<1> QED
  BY <1>3, <1>4

\* What is in a queue is what the master has sent and the page has not been
\* given, whatever chunks are empty, wherever lines are split and whenever a
\* response ends: the invariant behind the refinement.
THEOREM QueuesInStep == Spec => []Carrying
<1>1. Init => Carrying
  BY InitCarries
<1>2. TypeOK /\ TypeOK' /\ Carrying /\ [Next]_vars => Carrying'
  BY NextCarries
<1> QED
  BY <1>1, <1>2, TypeCorrect, PTL DEF Spec

\* The event stream implements the feed: every chunk once and in order, with
\* comments between two lines only, for any number of connections, whatever
\* the master writes and whenever connections end and are taken again.
THEOREM StreamIsFeed == Spec => CarriesTheFeed
<1>1. Init => Feed!Init
  BY InitCarries
<1>2. TypeOK /\ TypeOK' /\ Carrying /\ [Next]_vars => [Feed!Next]_Feed!vars
  BY NextCarries DEF FeedStep
<1> QED
  BY <1>1, <1>2, TypeCorrect, QueuesInStep, PTL DEF Spec, CarriesTheFeed, Feed!Spec

-----------------------------------------------------------------------------
(* The session: what the store, the header and localStorage hold, and the   *)
(* calls, the refresh and the login that are under way.                     *)

Somebody == User \cup {Nobody}
Whereabouts == {"idle", "called", "queued", "refresher", "passed", "sent", "malformed"}
Calls == [at : Whereabouts, by : Somebody, as : Somebody, config : BOOLEAN]

SessionTyped ==
  /\ storage \in [access : Somebody, valid : BOOLEAN, refresh : Somebody, expiring : BOOLEAN]
  /\ session \in [user : Somebody, header : Somebody, isRefreshing : BOOLEAN]
  /\ request \in [Request -> Calls]
  /\ refresh \in [at : {"none", "called", "posted"}, of : Somebody]
  /\ login \in [at : {"none", "posted"}, of : Somebody]
  /\ overlap \in BOOLEAN

Waits(q) == request[q].at \in {"queued", "refresher"}

\* There is a refresh exactly while the page says so, and calls wait for one only.
OneRefresh ==
  /\ session.isRefreshing <=> refresh.at # "none"
  /\ refresh.at = "none" => \A q \in Request : ~Waits(q)

\* Login is offered to nobody who is logged in.
NobodyLogsIn == login.at # "none" => session.user = Nobody /\ login.of \in User

\* What is kept of the session is one user's; so is the refresh under way, and
\* every call has its own user's token, where it waits for one as well.
OneUser ==
  /\ session.user = storage.access /\ session.header = storage.access
  /\ storage.refresh = storage.access

OwnRefresh == refresh.at # "none" => refresh.of \in {storage.access, Nobody}

OwnCalls ==
  \A q \in Request :
    /\ request[q].as = request[q].by
    /\ request[q].at = "called" => storage.access \in {request[q].by, Nobody}
    /\ Waits(q) => refresh.of \in {request[q].by, Nobody}

Whole == OneUser /\ OwnRefresh /\ OwnCalls

SInv == SessionTyped /\ OneRefresh /\ NobodyLogsIn /\ (~overlap => Whole)

LEMMA SessionTypes ==
  /\ NoSession \in [access : Somebody, valid : BOOLEAN, refresh : Somebody, expiring : BOOLEAN]
  /\ \A u \in User : /\ NewSession(u) \in [access : Somebody, valid : BOOLEAN,
                                                 refresh : Somebody, expiring : BOOLEAN]
                     /\ NewSession(u).access = u
                     /\ NewSession(u).refresh = u
  /\ NoSession.access = Nobody /\ NoSession.refresh = Nobody
  /\ NoCall \in Calls /\ NoCall.at = "idle"
  /\ NoCall.as = NoCall.by
  /\ NoPost \in [at : {"none", "posted"}, of : Somebody]
  /\ NoPost \in [at : {"none", "called", "posted"}, of : Somebody]
  /\ NoPost.at = "none"
  BY DEF NoSession, NewSession, NoCall, NoPost, Somebody,
         Whereabouts, Calls

\* A page is loaded with what localStorage holds.
LEMMA SessionStarts == SessionInit => SInv
<1> SUFFICES ASSUME SessionInit PROVE SInv
  OBVIOUS
<1>1. /\ storage \in [access : Somebody, valid : BOOLEAN, refresh : Somebody, expiring : BOOLEAN]
      /\ storage.access = storage.refresh
  <2>1. CASE storage = NoSession
    BY <2>1, SessionTypes
  <2>2. CASE \E u \in User, v, e \in BOOLEAN :
               storage = [NewSession(u) EXCEPT !.valid = v, !.expiring = e]
    BY <2>2, SessionTypes DEF NewSession
  <2>3. \/ storage = NoSession
        \/ \E u \in User, v, e \in BOOLEAN :
             storage = [NewSession(u) EXCEPT !.valid = v, !.expiring = e]
    BY DEF SessionInit
  <2> QED
    BY <2>1, <2>2, <2>3
<1>2. /\ session = [user |-> storage.access, header |-> storage.access, isRefreshing |-> FALSE]
      /\ refresh = NoPost /\ login = NoPost /\ overlap = FALSE
      /\ request = [q \in Request |-> NoCall]
  BY DEF SessionInit, Loaded
<1>3. SessionTyped
  BY <1>1, <1>2, SessionTypes DEF SessionTyped
<1>4. OneRefresh /\ NobodyLogsIn
  BY <1>2, SessionTypes DEF OneRefresh, NobodyLogsIn, Waits
<1>5. Whole
  BY <1>1, <1>2, SessionTypes DEF Whole, OneUser, OwnRefresh, OwnCalls, Waits
<1> QED
  BY <1>3, <1>4, <1>5 DEF SInv

LEMMA SessionEnds ==
  ASSUME SInv, Logout
  PROVE  SInv'
<1>1. /\ storage' = NoSession
      /\ session' = [session EXCEPT !.user = Nobody, !.header = Nobody]
      /\ overlap' = (overlap \/ refresh.at # "none")
      /\ request' = request /\ refresh' = refresh /\ login' = login
      /\ session.user # Nobody
      /\ \A q \in Request : request[q].at # "called"
  BY DEF Logout, EndSession, AtRest, At
<1>2. SessionTyped'
  BY <1>1, SessionTypes DEF SInv, SessionTyped, Somebody
<1>3. OneRefresh' /\ NobodyLogsIn'
  BY <1>1 DEF SInv, SessionTyped, OneRefresh, NobodyLogsIn, Waits
<1>4. ~overlap' => Whole'
  BY <1>1, SessionTypes DEF SInv, SessionTyped, OneRefresh, Waits, Whole, OneUser, OwnRefresh, OwnCalls
<1> QED
  BY <1>2, <1>3, <1>4 DEF SInv

\* A call that goes on keeps its user and its token.
LEMMA CallMoves ==
  ASSUME SInv, NEW q \in Request, NEW place \in Whereabouts,
         request' = [request EXCEPT ![q].at = place]
  PROVE  /\ request' \in [Request -> Calls]
         /\ \A p \in Request \ {q} : request'[p] = request[p]
         /\ request'[q].at = place
         /\ request'[q].by = request[q].by /\ request'[q].as = request[q].as
<1>1. request \in [Request -> Calls] /\ request[q] \in Calls
  BY DEF SInv, SessionTyped
<1>2. request' = [request EXCEPT ![q] = [@ EXCEPT !.at = place]]
  BY <1>1
<1>3. [request[q] EXCEPT !.at = place] \in Calls
  BY <1>1 DEF Calls
<1> QED
  BY <1>1, <1>2, <1>3 DEF Calls

LEMMA CallBegins ==
  ASSUME SInv, NEW q \in Request, Call(q)
  PROVE  SInv'
<1> DEFINE x == [at |-> "called", by |-> session.user, as |-> session.header, config |-> TRUE]
<1>1. /\ session.user # Nobody
      /\ request' = [request EXCEPT ![q] = x]
      /\ UNCHANGED <<storage, session, refresh, login, overlap>>
  BY DEF Call
<1>2. x \in Calls
  BY DEF SInv, SessionTyped, Calls, Whereabouts
<1>3. /\ request' \in [Request -> Calls] /\ request'[q] = x
      /\ \A p \in Request \ {q} : request'[p] = request[p]
  BY <1>1, <1>2 DEF SInv, SessionTyped
<1>4. SessionTyped' /\ NobodyLogsIn'
  BY <1>1, <1>3 DEF SInv, SessionTyped, NobodyLogsIn
<1>5. OneRefresh'
  BY <1>1, <1>3 DEF SInv, OneRefresh, Waits
<1>6. ~overlap' => Whole'
  <2> SUFFICES ASSUME ~overlap PROVE Whole'
    BY <1>1
  <2>1. (OneUser /\ OwnRefresh)'
    BY <1>1 DEF SInv, Whole, OneUser, OwnRefresh
  <2>2. OwnCalls'
    BY <1>1, <1>3 DEF SInv, Whole, OneUser, OwnCalls, Waits
  <2> QED
    BY <2>1, <2>2 DEF Whole
<1> QED
  BY <1>4, <1>5, <1>6 DEF SInv

LEMMA CallGoesOn ==
  ASSUME SInv, NEW q \in Request, PassAccess(q) \/ Enqueue(q)
  PROVE  SInv'
<1>1. /\ request[q].at = "called"
      /\ UNCHANGED <<storage, session, refresh, login, overlap>>
  BY DEF PassAccess, Enqueue, At
<1>2. PICK place \in {"passed", "queued"} :
        /\ request' = [request EXCEPT ![q].at = place]
        /\ place = "queued" => session.isRefreshing
  BY DEF PassAccess, Enqueue
<1>3. place \in Whereabouts
  BY DEF Whereabouts
<1>4. /\ request' \in [Request -> Calls]
      /\ \A p \in Request \ {q} : request'[p] = request[p]
      /\ request'[q].at = place
      /\ request'[q].by = request[q].by /\ request'[q].as = request[q].as
  BY <1>2, <1>3, CallMoves
<1>5. SessionTyped' /\ NobodyLogsIn'
  BY <1>1, <1>4 DEF SInv, SessionTyped, NobodyLogsIn
<1>6. OneRefresh'
  BY <1>1, <1>2, <1>4 DEF SInv, OneRefresh, Waits
<1>7. ~overlap' => Whole'
  <2> SUFFICES ASSUME ~overlap PROVE Whole'
    BY <1>1
  <2>1. (OneUser /\ OwnRefresh)'
    BY <1>1 DEF SInv, Whole, OneUser, OwnRefresh
  <2>2. place = "queued" => refresh.of \in {request[q].by, Nobody}
    BY <1>1, <1>2 DEF SInv, Whole, OneRefresh, OwnRefresh, OwnCalls
  <2>3. OwnCalls'
    BY <1>1, <1>4, <2>2 DEF SInv, Whole, OwnCalls, Waits
  <2> QED
    BY <2>1, <2>3 DEF Whole
<1> QED
  BY <1>5, <1>6, <1>7 DEF SInv

LEMMA RefreshStarts ==
  ASSUME SInv, NEW q \in Request, StartRefresh(q)
  PROVE  SInv'
<1>1. /\ request[q].at = "called" /\ ~session.isRefreshing
      /\ session' = [session EXCEPT !.isRefreshing = TRUE]
      /\ refresh' = [at |-> "called", of |-> storage.refresh]
      /\ request' = [request EXCEPT ![q].at = "refresher"]
      /\ UNCHANGED <<storage, login, overlap>>
  BY DEF StartRefresh, At
<1>2. /\ request' \in [Request -> Calls]
      /\ \A p \in Request \ {q} : request'[p] = request[p]
      /\ request'[q].at = "refresher"
      /\ request'[q].by = request[q].by /\ request'[q].as = request[q].as
  BY <1>1, CallMoves DEF Whereabouts
<1>3. SessionTyped' /\ OneRefresh' /\ NobodyLogsIn'
  BY <1>1, <1>2 DEF SInv, SessionTyped, OneRefresh, NobodyLogsIn
<1>4. \A p \in Request : ~Waits(p)
  BY <1>1 DEF SInv, OneRefresh
<1>5. ~overlap' => Whole'
  <2> SUFFICES ASSUME ~overlap PROVE Whole'
    BY <1>1
  <2>1. (OneUser /\ OwnRefresh)'
    BY <1>1 DEF SInv, SessionTyped, Whole, OneUser, OwnRefresh
  <2>2. refresh'.of = storage.access
    BY <1>1 DEF SInv, Whole, OneUser
  <2>3. OwnCalls'
    BY <1>1, <1>2, <1>4, <2>2 DEF SInv, Whole, OwnCalls, Waits
  <2> QED
    BY <2>1, <2>3 DEF Whole
<1> QED
  BY <1>3, <1>5 DEF SInv

LEMMA CallEnds ==
  ASSUME SInv, NEW q \in Request, CallSettles(q)
  PROVE  SInv'
<1>1. /\ request' = [request EXCEPT ![q] = NoCall]
      /\ UNCHANGED <<storage, session, refresh, login, overlap>>
  BY DEF CallSettles
<1>2. /\ request' \in [Request -> Calls] /\ request'[q] = NoCall
      /\ \A p \in Request \ {q} : request'[p] = request[p]
  BY <1>1, SessionTypes DEF SInv, SessionTyped
<1>3. SessionTyped' /\ NobodyLogsIn'
  BY <1>1, <1>2 DEF SInv, SessionTyped, NobodyLogsIn
<1>4. OneRefresh'
  BY <1>1, <1>2, SessionTypes DEF SInv, OneRefresh, Waits
<1>5. ~overlap' => Whole'
  BY <1>1, <1>2, SessionTypes DEF SInv, Whole, OneUser, OwnRefresh, OwnCalls, Waits
<1> QED
  BY <1>3, <1>4, <1>5 DEF SInv

LEMMA RefreshChecked ==
  ASSUME SInv, NEW q \in Request, CheckRefresh(q)
  PROVE  SInv'
<1>0. /\ request[q].at = "passed" /\ refresh' = refresh /\ login' = login
      /\ request \in [Request -> Calls]
  BY DEF CheckRefresh, At, SInv, SessionTyped
<1>1. CASE storage.expiring
  <2>1. /\ storage' = NoSession
        /\ session' = [session EXCEPT !.user = Nobody, !.header = Nobody]
        /\ overlap' = (overlap \/ refresh.at # "none")
        /\ request' = [request EXCEPT ![q] = NoCall]
    BY <1>1 DEF CheckRefresh, EndSession
  <2>2. /\ request' \in [Request -> Calls] /\ request'[q] = NoCall
        /\ \A p \in Request \ {q} : request'[p] = request[p]
    BY <1>0, <2>1, SessionTypes
  <2>3. SessionTyped'
    BY <1>0, <2>1, <2>2, SessionTypes DEF SInv, SessionTyped, Somebody
  <2>4. OneRefresh' /\ NobodyLogsIn'
    BY <1>0, <2>1, <2>2, SessionTypes DEF SInv, SessionTyped, OneRefresh, NobodyLogsIn, Waits
  <2>5. ~overlap' => Whole'
    <3> SUFFICES ASSUME ~overlap, refresh.at = "none" PROVE Whole'
      BY <2>1
    <3>1. (OneUser /\ OwnRefresh)'
      BY <1>0, <2>1, SessionTypes DEF SInv, SessionTyped, OneUser, OwnRefresh
    <3>2. OwnCalls'
      BY <1>0, <2>1, <2>2, SessionTypes DEF SInv, OneRefresh, Whole, OwnCalls, Waits
    <3> QED
      BY <3>1, <3>2 DEF Whole
  <2> QED
    BY <2>3, <2>4, <2>5 DEF SInv
<1>2. CASE ~storage.expiring
  <2>1. UNCHANGED <<storage, session, overlap>>
    BY <1>2 DEF CheckRefresh
  <2>2. PICK place \in {"sent", "malformed"} : request' = [request EXCEPT ![q].at = place]
    BY <1>2 DEF CheckRefresh
  <2>3. place \in Whereabouts
    BY DEF Whereabouts
  <2>4. /\ request' \in [Request -> Calls]
        /\ \A p \in Request \ {q} : request'[p] = request[p]
        /\ request'[q].at = place
        /\ request'[q].by = request[q].by /\ request'[q].as = request[q].as
    BY <2>2, <2>3, CallMoves
  <2>5. SessionTyped' /\ NobodyLogsIn'
    BY <1>0, <2>1, <2>4 DEF SInv, SessionTyped, NobodyLogsIn
  <2>6. OneRefresh'
    BY <1>0, <2>1, <2>4 DEF SInv, OneRefresh, Waits
  <2>7. ~overlap' => Whole'
    BY <1>0, <2>1, <2>4 DEF SInv, Whole, OneUser, OwnRefresh, OwnCalls, Waits
  <2> QED
    BY <2>5, <2>6, <2>7 DEF SInv
<1> QED
  BY <1>1, <1>2

\* No call waits for a refresh that has failed ...
LEMMA RejectedCalls ==
  ASSUME SInv, request' = Rejected
  PROVE  /\ request' \in [Request -> Calls]
         /\ \A q \in Request :
              /\ ~Waits(q)'
              /\ request[q].as = request[q].by => request'[q].as = request'[q].by
              /\ request'[q].at = "called" => request[q].at = "called"
              /\ request'[q].at = "called" => request'[q].by = request[q].by
<1> DEFINE Fails(x) == IF x.at = "queued" THEN [x EXCEPT !.at = "passed", !.config = FALSE]
                       ELSE IF x.at = "refresher" THEN NoCall ELSE x
<1>1. request' = [q \in Request |-> Fails(request[q])]
  BY DEF Rejected, At
<1>2. ASSUME NEW x \in Calls
      PROVE  /\ Fails(x) \in Calls
             /\ Fails(x).at \notin {"queued", "refresher"}
             /\ x.as = x.by => Fails(x).as = Fails(x).by
             /\ Fails(x).at = "called" => x.at = "called" /\ Fails(x).by = x.by
  <2>1. CASE x.at = "queued"
    BY <2>1 DEF Calls, Whereabouts
  <2>2. CASE x.at = "refresher"
    BY <2>2, SessionTypes
  <2>3. CASE x.at \notin {"queued", "refresher"}
    BY <2>3
  <2> QED
    BY <2>1, <2>2, <2>3
<1> HIDE DEF Fails
<1>3. \A q \in Request : request[q] \in Calls /\ request'[q] = Fails(request[q])
  BY <1>1 DEF SInv, SessionTyped
<1>4. request' \in [Request -> Calls]
  BY <1>1, <1>2, <1>3
<1> QED
  BY <1>2, <1>3, <1>4 DEF Waits

\* ... nor for one that has succeeded, whose user's token each of them takes.
LEMMA ReleasedCalls ==
  ASSUME SInv, request' = Released, \A q \in Request : request[q].at # "called"
  PROVE  /\ request' \in [Request -> Calls]
         /\ \A q \in Request :
              /\ ~Waits(q)' /\ request'[q].at # "called"
              /\ (request[q].as = request[q].by /\ (Waits(q) => refresh.of = request[q].by))
                   => request'[q].as = request'[q].by
<1> DEFINE Goes(x) == IF x.at = "queued" \/ x.at = "refresher"
                      THEN [x EXCEPT !.at = "passed", !.as = refresh.of] ELSE x
<1>1. request' = [q \in Request |-> Goes(request[q])]
  BY DEF Released, At
<1>2. ASSUME NEW x \in Calls
      PROVE  /\ Goes(x) \in Calls
             /\ Goes(x).at \notin {"queued", "refresher"} /\ Goes(x).by = x.by
             /\ x.at # "called" => Goes(x).at # "called"
             /\ x.at \in {"queued", "refresher"} => Goes(x).as = refresh.of
             /\ x.at \notin {"queued", "refresher"} => Goes(x).as = x.as
  BY DEF Calls, Whereabouts, SInv, SessionTyped
<1> HIDE DEF Goes
<1>3. \A q \in Request : request[q] \in Calls /\ request'[q] = Goes(request[q])
  BY <1>1 DEF SInv, SessionTyped
<1>4. request' \in [Request -> Calls]
  BY <1>1, <1>2, <1>3
<1> QED
  BY <1>2, <1>3, <1>4 DEF Waits

LEMMA RefreshGoesOut ==
  ASSUME SInv, PostRefresh
  PROVE  SInv'
<1>0. refresh.at = "called" /\ login' = login /\ overlap' = overlap
  BY DEF PostRefresh
<1>1. CASE storage.expiring
  <2>1. /\ storage' = NoSession /\ refresh' = NoPost
        /\ session' = [user |-> Nobody, header |-> Nobody, isRefreshing |-> FALSE]
        /\ request' = Rejected
    BY <1>1, SessionTypes DEF PostRefresh, Loaded
  <2>2. /\ request' \in [Request -> Calls]
        /\ \A q \in Request : /\ ~Waits(q)'
                              /\ request[q].as = request[q].by => request'[q].as = request'[q].by
                              /\ request'[q].at = "called" => request[q].at = "called"
    BY <2>1, RejectedCalls
  <2>3. SessionTyped'
    BY <1>0, <2>1, <2>2, SessionTypes DEF SInv, SessionTyped, Somebody
  <2>4. OneRefresh' /\ NobodyLogsIn'
    BY <1>0, <2>1, <2>2, SessionTypes DEF SInv, SessionTyped, OneRefresh, NobodyLogsIn
  <2>5. ~overlap' => Whole'
    BY <1>0, <2>1, <2>2, SessionTypes DEF SInv, Whole, OneUser, OwnRefresh, OwnCalls
  <2> QED
    BY <2>3, <2>4, <2>5 DEF SInv
<1>2. CASE ~storage.expiring
  <2>1. refresh' = [refresh EXCEPT !.at = "posted"] /\ UNCHANGED <<storage, session, request>>
    BY <1>2 DEF PostRefresh
  <2>2. refresh'.at = "posted" /\ refresh'.of = refresh.of
    BY <2>1 DEF SInv, SessionTyped
  <2>3. SessionTyped' /\ OneRefresh' /\ NobodyLogsIn'
    BY <1>0, <2>1 DEF SInv, SessionTyped, OneRefresh, NobodyLogsIn, Waits
  <2>4. ~overlap' => Whole'
    BY <1>0, <2>1, <2>2 DEF SInv, Whole, OneUser, OwnRefresh, OwnCalls, Waits
  <2> QED
    BY <2>3, <2>4 DEF SInv
<1> QED
  BY <1>1, <1>2

LEMMA RefreshFails ==
  ASSUME SInv, RefreshRefused
  PROVE  SInv'
<1>1. /\ refresh.at = "posted" /\ refresh' = NoPost
      /\ session' = [session EXCEPT !.isRefreshing = FALSE]
      /\ request' = Rejected
      /\ UNCHANGED <<storage, login, overlap>>
  BY DEF RefreshRefused
<1>2. /\ request' \in [Request -> Calls]
      /\ \A q \in Request : /\ ~Waits(q)'
                            /\ request[q].as = request[q].by => request'[q].as = request'[q].by
                            /\ request'[q].at = "called" => request[q].at = "called"
                            /\ request'[q].at = "called" => request'[q].by = request[q].by
  BY <1>1, RejectedCalls
<1>3. SessionTyped'
  BY <1>1, <1>2, SessionTypes DEF SInv, SessionTyped
<1>4. OneRefresh' /\ NobodyLogsIn'
  BY <1>1, <1>2, SessionTypes DEF SInv, SessionTyped, OneRefresh, NobodyLogsIn
<1>5. ~overlap' => Whole'
  BY <1>1, <1>2, SessionTypes DEF SInv, SessionTyped, Whole, OneUser, OwnRefresh, OwnCalls
<1> QED
  BY <1>3, <1>4, <1>5 DEF SInv

LEMMA RefreshSucceeds ==
  ASSUME SInv, RefreshAnswered
  PROVE  SInv'
<1>1. /\ refresh.at = "posted" /\ refresh.of # Nobody
      /\ storage' = [storage EXCEPT !.access = refresh.of, !.valid = TRUE]
      /\ session' = [session EXCEPT !.header = refresh.of, !.isRefreshing = FALSE]
      /\ request' = Released /\ refresh' = NoPost
      /\ UNCHANGED <<login, overlap>>
      /\ \A q \in Request : request[q].at # "called"
  BY DEF RefreshAnswered, AtRest, At
<1>2. /\ request' \in [Request -> Calls]
      /\ \A q \in Request :
           /\ ~Waits(q)' /\ request'[q].at # "called"
           /\ (request[q].as = request[q].by /\ (Waits(q) => refresh.of = request[q].by))
                => request'[q].as = request'[q].by
  BY <1>1, ReleasedCalls
<1>3. SessionTyped'
  BY <1>1, <1>2, SessionTypes DEF SInv, SessionTyped
<1>4. OneRefresh' /\ NobodyLogsIn'
  BY <1>1, <1>2, SessionTypes DEF SInv, SessionTyped, OneRefresh, NobodyLogsIn
<1>5. ~overlap' => Whole'
  <2> SUFFICES ASSUME ~overlap PROVE Whole'
    BY <1>1
  <2>1. refresh.of = storage.access
    BY <1>1 DEF SInv, Whole, OwnRefresh
  <2>2. (OneUser /\ OwnRefresh)'
    BY <1>1, <2>1, SessionTypes DEF SInv, SessionTyped, Whole, OneUser, OwnRefresh
  <2>3. \A q \in Request : Waits(q) => refresh.of = request[q].by
    BY <1>1 DEF SInv, Whole, OwnCalls
  <2>4. OwnCalls'
    BY <1>2, <2>3 DEF SInv, Whole, OwnCalls
  <2> QED
    BY <2>2, <2>4 DEF Whole
<1> QED
  BY <1>3, <1>4, <1>5 DEF SInv

LEMMA LoginGoesOut ==
  ASSUME SInv, NEW u \in User, Login(u)
  PROVE  SInv'
<1>1. /\ session.user = Nobody
      /\ login' = [at |-> "posted", of |-> u]
      /\ UNCHANGED <<storage, session, request, refresh, overlap>>
  BY DEF Login
<1>2. SessionTyped' /\ OneRefresh' /\ NobodyLogsIn'
  BY <1>1 DEF SInv, SessionTyped, OneRefresh, NobodyLogsIn, Waits, Somebody
<1>3. ~overlap' => Whole'
  BY <1>1 DEF SInv, Whole, OneUser, OwnRefresh, OwnCalls, Waits
<1> QED
  BY <1>2, <1>3 DEF SInv

LEMMA LoginEnds ==
  ASSUME SInv, LoginRefused
  PROVE  SInv'
<1>1. /\ login.at = "posted" /\ login' = NoPost
      /\ storage' = NoSession
      /\ UNCHANGED <<session, request, refresh, overlap>>
      /\ \A q \in Request : request[q].at # "called"
  BY DEF LoginRefused, AtRest, At
<1>2. SessionTyped' /\ OneRefresh' /\ NobodyLogsIn'
  BY <1>1, SessionTypes DEF SInv, SessionTyped, OneRefresh, NobodyLogsIn, Waits
<1>3. session.user = Nobody
  BY <1>1 DEF SInv, NobodyLogsIn
<1>4. ~overlap' => Whole'
  BY <1>1, <1>3, SessionTypes DEF SInv, Whole, OneUser, OwnRefresh, OwnCalls, Waits
<1> QED
  BY <1>2, <1>4 DEF SInv

LEMMA LoginSucceeds ==
  ASSUME SInv, LoginAnswered
  PROVE  SInv'
<1>1. /\ login.at = "posted" /\ login' = NoPost
      /\ storage' = NewSession(login.of)
      /\ session' = [session EXCEPT !.user = login.of, !.header = login.of]
      /\ UNCHANGED <<request, refresh, overlap>>
      /\ \A q \in Request : request[q].at # "called"
  BY DEF LoginAnswered, AtRest, At
<1>2. SessionTyped'
  BY <1>1, SessionTypes DEF SInv, SessionTyped, NobodyLogsIn, Somebody
<1>3. OneRefresh' /\ NobodyLogsIn'
  BY <1>1, SessionTypes DEF SInv, SessionTyped, OneRefresh, NobodyLogsIn, Waits
<1>4. ~overlap' => Whole'
  <2> SUFFICES ASSUME ~overlap PROVE Whole'
    BY <1>1
  <2>1. storage'.access = login.of /\ storage'.refresh = login.of /\ login.of \in User
    BY <1>1, SessionTypes DEF SInv, NobodyLogsIn
  <2>2. storage.access = Nobody
    BY <1>1 DEF SInv, NobodyLogsIn, Whole, OneUser
  <2>3. OneUser'
    BY <1>1, <2>1 DEF SInv, SessionTyped, OneUser
  <2>4. (OwnRefresh /\ OwnCalls)'
    BY <1>1, <2>2 DEF SInv, Whole, OwnRefresh, OwnCalls, Waits
  <2> QED
    BY <2>3, <2>4 DEF Whole
<1> QED
  BY <1>2, <1>3, <1>4 DEF SInv

LEMMA TimePasses ==
  ASSUME SInv, AccessExpires \/ RefreshNearsEnd
  PROVE  SInv'
<1>1. /\ storage' \in [access : Somebody, valid : BOOLEAN, refresh : Somebody, expiring : BOOLEAN]
      /\ storage'.access = storage.access /\ storage'.refresh = storage.refresh
  BY DEF AccessExpires, RefreshNearsEnd, SInv, SessionTyped
<1>2. UNCHANGED <<session, request, refresh, login, overlap>>
  BY DEF AccessExpires, RefreshNearsEnd
<1>3. SessionTyped' /\ OneRefresh' /\ NobodyLogsIn'
  BY <1>1, <1>2 DEF SInv, SessionTyped, OneRefresh, NobodyLogsIn, Waits
<1>4. ~overlap' => Whole'
  BY <1>1, <1>2 DEF SInv, Whole, OneUser, OwnRefresh, OwnCalls, Waits
<1> QED
  BY <1>3, <1>4 DEF SInv

LEMMA PageReloads ==
  ASSUME SInv, Reload
  PROVE  SInv'
<1>1. /\ session' = [user |-> storage.access, header |-> storage.access, isRefreshing |-> FALSE]
      /\ refresh' = NoPost /\ login' = NoPost
      /\ request' = [q \in Request |-> NoCall]
      /\ UNCHANGED <<storage, overlap>>
  BY DEF Reload, Loaded
<1>2. SessionTyped'
  BY <1>1, SessionTypes DEF SInv, SessionTyped
<1>3. OneRefresh' /\ NobodyLogsIn'
  BY <1>1, SessionTypes DEF OneRefresh, NobodyLogsIn, Waits
<1>4. ~overlap' => Whole'
  BY <1>1, SessionTypes DEF SInv, Whole, OneUser, OwnRefresh, OwnCalls, Waits
<1> QED
  BY <1>2, <1>3, <1>4 DEF SInv

\* Every step of the page keeps the session whole.
LEMMA SessionStep ==
  ASSUME SInv, [SessionNext]_(sessionVars)
  PROVE  SInv'
<1>1. ASSUME NEW q \in Request, Call(q) \/ Callback(q) \/ CallSettles(q)
      PROVE  SInv'
  BY <1>1, CallBegins, CallGoesOn, RefreshStarts, RefreshChecked, CallEnds DEF Callback
<1>2. CASE PostRefresh \/ RefreshAnswered \/ RefreshRefused
  BY <1>2, RefreshGoesOut, RefreshSucceeds, RefreshFails
<1>3. CASE (\E u \in User : Login(u)) \/ LoginAnswered \/ LoginRefused
  BY <1>3, LoginGoesOut, LoginSucceeds, LoginEnds
<1>4. CASE \/ Logout \/ AccessExpires
           \/ RefreshNearsEnd \/ Reload
  BY <1>4, SessionEnds, TimePasses, PageReloads
<1>5. CASE UNCHANGED sessionVars
  <2>1. UNCHANGED <<storage, session, request, refresh, login, overlap>>
    BY <1>5 DEF sessionVars
  <2>2. SessionTyped' /\ OneRefresh' /\ NobodyLogsIn'
    BY <2>1 DEF SInv, SessionTyped, OneRefresh, NobodyLogsIn, Waits
  <2>3. ~overlap' => Whole'
    BY <2>1 DEF SInv, Whole, OneUser, OwnRefresh, OwnCalls, Waits
  <2> QED
    BY <2>2, <2>3 DEF SInv
<1> QED
  BY <1>1, <1>2, <1>3, <1>4, <1>5 DEF SessionNext

\* The invariant behind the session: the store, the header, both tokens, the
\* refresh, the login and the calls under way agree, unless a session ended
\* while its refresh was under way.
THEOREM SessionInvariant == SessionSpec => []SInv
<1>1. SInv /\ [SessionNext]_(sessionVars) => SInv'
  BY SessionStep
<1> QED
  BY SessionStarts, <1>1, PTL DEF SessionSpec

\* However calls, refreshes, logins, expiries and reloads interleave, tokens of
\* two users are never kept together and a call goes out with the token of the
\* user who made it - unless a session ended while its refresh was under way.
THEOREM SessionOfOneUser == SessionSpec => []SessionIsWhole
<1>1. SInv => SessionIsWhole
  BY DEF SInv, Whole, OneUser, OwnCalls, SessionIsWhole, At
<1> QED
  BY SessionInvariant, <1>1, PTL
=============================================================================
