----------------------------- MODULE EventStream -----------------------------
(* The master's event stream on its way to a page: event_stream and         *)
(* with_keepalive (api/views/alcali.py), open_stream and EventStream        *)
(* (api/backend/salt_api.py), and the page that opens the stream, closes it *)
(* and opens it again (src/src/components/core/Layout.vue).                 *)
(* A connection has three processes: the master that writes chunks, the     *)
(* pump thread that moves them to a queue, and the response that waits on   *)
(* the queue with a timeout.                                                *)
EXTENDS Naturals, Sequences, FiniteSets

CONSTANTS Conn,        \* connections in flight at once
          Threads,     \* gunicorn threads a stream can occupy
          MaxChunks,   \* chunks the master writes on one connection
          Nil

ASSUME StreamAssumption ==
  /\ Threads \in Nat \ {0}
  /\ MaxChunks \in Nat
  /\ Nil \notin Conn

\* A chunk ends with a newline, ends part way through a line, or is empty.
Chunk == {"line", "part", "empty"}
KeepAlive == "keepalive"
StreamEnd == "_STREAM_END"

VARIABLES page,     \* the Layout component, and the access token it finds stored
          conn,     \* per connection: browser end, response, queue, pump, upstream
          master    \* salt-api, and whether it honours the cached token

vars == <<page, conn, master>>

\* Two fields only record what happened: feed, the chunks of sent that are not
\* empty, and handed, how many of them with_keepalive has handed on.  bearer:
\* the access token in the request's header is still accepted.
Idle == [client |-> FALSE, bearer |-> FALSE, response |-> "none", upstream |-> "none", sent |-> <<>>,
         feed |-> <<>>, taken |-> 0, pump |-> "off", queue |-> <<>>, handed |-> 0,
         atLineBoundary |-> TRUE, out |-> <<>>]

Asked(b) == [Idle EXCEPT !.client = TRUE, !.bearer = b, !.response = "asked"]

\* Right after created(), which calls saltStatus().
Init ==
  \E c \in Conn, access \in BOOLEAN :
    /\ page = [eventSource |-> c, streamTimer |-> FALSE, streamBackoff |-> 0,
               destroyed |-> FALSE, access |-> access]
    /\ conn = [d \in Conn |-> IF d = c THEN Asked(access) ELSE Idle]
    /\ master = [up |-> TRUE, token |-> TRUE, settled |-> FALSE]

Streaming(c) == conn[c].response = "streaming"

Finished(c) ==
  /\ ~conn[c].client
  /\ conn[c].response \in {"none", "over"}
  /\ conn[c].pump \in {"off", "ended"}

Busy == {c \in Conn : Streaming(c)}

-----------------------------------------------------------------------------
(* The page.                                                                *)

\* Mutant: the backoff has no ceiling.
BugNoCeiling(b) == IF b = 0 THEN 5 ELSE 2 * b

NextBackoff(b) == IF b = 0 THEN 5 ELSE IF 2 * b > 60 THEN 60 ELSE 2 * b

\* The reconnection timer fires: saltStatus() opens a connection, with the
\* access token that is stored, expired or not.
SaltStatus ==
  /\ page.streamTimer
  /\ \E c \in Conn :
       /\ Finished(c)
       /\ conn' = [conn EXCEPT ![c] = Asked(page.access)]
       /\ page' = [page EXCEPT !.streamTimer = FALSE, !.eventSource = c]
  /\ UNCHANGED master

\* The polyfill reports an ended response or an error status, and 45 seconds
\* without a byte: no thread for the request, or a silence inside a line.
Silent(c) ==
  /\ ~master.settled
  /\ \/ conn[c].response = "asked"
     \/ Streaming(c) /\ ~conn[c].atLineBoundary /\ conn[c].queue = <<>>

\* Mutant: the page gives up once the backoff has reached its ceiling.
BugGivesUp(c) ==
  IF page.streamTimer \/ page.destroyed \/ page.streamBackoff = 60 THEN UNCHANGED <<page, conn>>
  ELSE /\ conn' = [conn EXCEPT ![c].client = FALSE]
       /\ page' = [page EXCEPT !.eventSource = Nil, !.streamTimer = TRUE,
                               !.streamBackoff = NextBackoff(@)]

ScheduleReconnect(c) ==
  IF page.streamTimer \/ page.destroyed THEN UNCHANGED <<page, conn>>
  ELSE /\ conn' = [conn EXCEPT ![c].client = FALSE]
       /\ page' = [page EXCEPT !.eventSource = Nil, !.streamTimer = TRUE,
                               !.streamBackoff = NextBackoff(@)]

Error(c) ==
  /\ conn[c].client
  /\ conn[c].response = "over" \/ Silent(c)
  /\ ScheduleReconnect(c)
  /\ UNCHANGED master

\* Mutant: the timer of a page that goes is left to fire.
BugKeepsTimer ==
  /\ ~page.destroyed
  /\ page' = [page EXCEPT !.destroyed = TRUE]
  /\ conn' = [c \in Conn |->
                IF c = page.eventSource THEN [conn[c] EXCEPT !.client = FALSE] ELSE conn[c]]
  /\ UNCHANGED master

\* beforeUnmount: no timer, no connection.
Unmount ==
  /\ ~page.destroyed
  /\ page' = [page EXCEPT !.destroyed = TRUE, !.streamTimer = FALSE]
  /\ conn' = [c \in Conn |->
                IF c = page.eventSource THEN [conn[c] EXCEPT !.client = FALSE] ELSE conn[c]]
  /\ UNCHANGED master

\* The access token runs out: in the store and in any header.
BearerExpires ==
  /\ page.access
  /\ page' = [page EXCEPT !.access = FALSE]
  /\ conn' = [c \in Conn |-> [conn[c] EXCEPT !.bearer = FALSE]]
  /\ UNCHANGED master

\* Some other call of the page is rejected and refreshes the stored token.
BearerRenewed ==
  /\ ~page.destroyed
  /\ ~page.access
  /\ page' = [page EXCEPT !.access = TRUE]
  /\ UNCHANGED <<conn, master>>

-----------------------------------------------------------------------------
(* The view, once gunicorn has a thread for it.                             *)

Connected(c) ==
  /\ conn[c].response = "asked"
  /\ Cardinality(Busy) < Threads
  /\ conn[c].bearer
  /\ master.up /\ master.token
  /\ conn' = [conn EXCEPT ![c].response = "streaming", ![c].bearer = FALSE,
                          ![c].upstream = "open", ![c].pump = "reading"]
  /\ page' = IF conn[c].client THEN [page EXCEPT !.streamBackoff = 0] ELSE page
  /\ UNCHANGED master

\* A 401 for an access token that has run out, or get_events raises
\* SaltApiError: a 503, before any stream has started.  open_stream does not
\* log in again for a token the master refuses.
Refused(c) ==
  /\ conn[c].response = "asked"
  /\ Cardinality(Busy) < Threads
  /\ ~(conn[c].bearer /\ master.up /\ master.token)
  /\ conn' = [conn EXCEPT ![c].response = "over", ![c].bearer = FALSE]
  /\ UNCHANGED <<page, master>>

\* pump: a chunk goes from the connection to the queue, an empty one nowhere.
PumpPut(c) ==
  /\ conn[c].pump = "reading"
  /\ conn[c].upstream \in {"open", "ended"}
  /\ conn[c].taken < Len(conn[c].sent)
  /\ LET chunk == conn[c].sent[conn[c].taken + 1]
     IN conn' = [conn EXCEPT ![c].taken = @ + 1,
                             ![c].queue = IF chunk = "empty" THEN @ ELSE Append(@, chunk)]
  /\ UNCHANGED <<page, master>>

\* The iteration is over: the master has ended the stream, or close() was
\* called under the blocked read.
PumpEnd(c) ==
  /\ conn[c].pump = "reading"
  /\ \/ conn[c].upstream = "closed"
     \/ conn[c].upstream = "ended" /\ conn[c].taken = Len(conn[c].sent)
  /\ conn' = [conn EXCEPT ![c].pump = "ended",
                          ![c].queue = IF Streaming(c) THEN Append(@, StreamEnd) ELSE @]
  /\ UNCHANGED <<page, master>>

\* with_keepalive hands a chunk on.
Yield(c) ==
  /\ Streaming(c)
  /\ conn[c].queue # <<>>
  /\ LET chunk == Head(conn[c].queue)
     IN /\ chunk # StreamEnd
        /\ conn' = [conn EXCEPT ![c].queue = Tail(@), ![c].handed = @ + 1,
                                ![c].atLineBoundary = chunk = "line",
                                ![c].out = Append(@, chunk)]
  /\ UNCHANGED <<page, master>>

\* queue.Empty after KEEPALIVE_SECONDS.  Repeated comments count as one.
Commented(s) == IF s # <<>> /\ s[Len(s)] = KeepAlive THEN s ELSE Append(s, KeepAlive)

\* Mutant: a keep-alive whenever the stream is quiet.
BugAnywhere(c) ==
  /\ Streaming(c)
  /\ conn[c].queue = <<>>
  /\ conn' = [conn EXCEPT ![c].out = Commented(@)]
  /\ UNCHANGED <<page, master>>

Quiet(c) ==
  /\ Streaming(c)
  /\ conn[c].queue = <<>>
  /\ conn' = [conn EXCEPT ![c].out = IF conn[c].atLineBoundary THEN Commented(@) ELSE @]
  /\ UNCHANGED <<page, master>>

\* Mutant: the upstream response is not closed.
BugLeavesUpstream(c) ==
  [conn EXCEPT ![c] = [Idle EXCEPT !.client = conn[c].client, !.pump = conn[c].pump,
                                   !.response = "over", !.upstream = conn[c].upstream]]

\* The finally clause: the upstream response is closed.  What the connection
\* carried is forgotten with it, and the pump's last word finds no reader.
Over(c) ==
  [conn EXCEPT ![c] = [Idle EXCEPT !.client = conn[c].client, !.pump = conn[c].pump,
                                   !.response = "over", !.upstream = "closed"]]

Return(c) ==
  /\ Streaming(c)
  /\ conn[c].queue # <<>>
  /\ Head(conn[c].queue) = StreamEnd
  /\ conn' = Over(c)
  /\ UNCHANGED <<page, master>>

\* A write to a page that has gone fails, and the generator is closed.  A
\* response that has nothing to write does not notice.
WriteFails(c) ==
  /\ Streaming(c)
  /\ ~conn[c].client
  /\ IF conn[c].queue = <<>> THEN conn[c].atLineBoundary
                             ELSE Head(conn[c].queue) # StreamEnd
  /\ conn' = Over(c)
  /\ UNCHANGED <<page, master>>

-----------------------------------------------------------------------------
(* The master.  A partial chunk is a line that TCP has split: the rest      *)
(* follows, with the bound or beyond it.                                    *)

MidLine(c) ==
  LET feed == conn[c].feed IN feed # <<>> /\ feed[Len(feed)] = "part"

Writes(c, chunks) ==
  /\ conn[c].upstream = "open"
  /\ \E chunk \in chunks :
       conn' = [conn EXCEPT ![c].sent = Append(@, chunk),
                            ![c].feed = IF chunk = "empty" THEN @ ELSE Append(@, chunk)]
  /\ UNCHANGED <<page, master>>

Event(c) == Len(conn[c].sent) < MaxChunks /\ Writes(c, Chunk)

FinishLine(c) == MidLine(c) /\ Len(conn[c].sent) >= MaxChunks /\ Writes(c, {"line"})

\* The master stops: its streams end and it forgets every token.
Down ==
  /\ ~master.settled
  /\ master.up
  /\ master' = [master EXCEPT !.up = FALSE, !.token = FALSE]
  /\ conn' = [c \in Conn |-> IF conn[c].upstream = "open"
                               THEN [conn[c] EXCEPT !.upstream = "ended"] ELSE conn[c]]
  /\ UNCHANGED page

Up == ~master.up /\ master' = [master EXCEPT !.up = TRUE] /\ UNCHANGED <<page, conn>>

\* Another request of this user logs in again, or the cached token expires.
Relogin ==
  /\ master.up
  /\ ~master.token
  /\ master' = [master EXCEPT !.token = TRUE]
  /\ UNCHANGED <<page, conn>>

\* The environment comes to rest: no more restarts, no silence of 45 seconds.
Settle == ~master.settled /\ master' = [master EXCEPT !.settled = TRUE] /\ UNCHANGED <<page, conn>>

-----------------------------------------------------------------------------
Serve(c) ==
  Connected(c) \/ Refused(c) \/ PumpPut(c) \/ PumpEnd(c) \/ Yield(c) \/ Quiet(c)
    \/ Return(c) \/ WriteFails(c)

Next ==
  \/ SaltStatus \/ Unmount \/ BearerExpires \/ BearerRenewed
  \/ \E c \in Conn : Error(c) \/ Serve(c) \/ Event(c) \/ FinishLine(c)
  \/ Down \/ Up \/ Relogin \/ Settle

Spec == Init /\ [][Next]_vars

\* The threads run, the browser's timer and error events fire, the rest of a
\* split line arrives, a master that is down comes back, and a refused token
\* is replaced some time.  Nothing is assumed of the access token: a page calls
\* the API, and so refreshes it, when its user does something, and by itself
\* only on the overview (ActiveJobsCard).
Fairness ==
  /\ WF_vars(SaltStatus)
  /\ \A c \in Conn :
       /\ WF_vars(Error(c) /\ conn[c].response = "over")
       /\ WF_vars(Connected(c) \/ Refused(c))
       /\ WF_vars(PumpPut(c) \/ PumpEnd(c))
       /\ WF_vars(Yield(c) \/ Return(c))
       /\ WF_vars(WriteFails(c))
       /\ WF_vars(FinishLine(c) \/ (Event(c) /\ MidLine(c)))
  /\ WF_vars(Up)
  /\ WF_vars(Relogin)

FairSpec == Spec /\ Fairness

-----------------------------------------------------------------------------
Connection ==
  [client : BOOLEAN, bearer : BOOLEAN, response : {"none", "asked", "streaming", "over"},
   upstream : {"none", "open", "ended", "closed"}, sent : Seq(Chunk),
   feed : Seq(Chunk \ {"empty"}), taken : Nat, pump : {"off", "reading", "ended"},
   queue : Seq(Chunk \cup {StreamEnd}), handed : Nat, atLineBoundary : BOOLEAN,
   out : Seq(Chunk \cup {KeepAlive})]

\* The page, the connections and the master keep their shapes.
TypeOK ==
  /\ page \in [eventSource : Conn \cup {Nil}, streamTimer : BOOLEAN,
               streamBackoff : {0, 5, 10, 20, 40, 60}, destroyed : BOOLEAN,
               access : BOOLEAN]
  /\ conn \in [Conn -> Connection]
  /\ master \in [up : BOOLEAN, token : BOOLEAN, settled : BOOLEAN]

\* A connection the browser holds open is the page's one EventSource, of a page
\* that is still mounted and has no reconnection pending: an error, a timer and
\* an unmount in any order leave no second stream and none that nobody closes
\* (scheduleReconnect, saltStatus and beforeUnmount).
StreamHasOwner ==
  \A c \in Conn :
    conn[c].client => page.eventSource = c /\ ~page.destroyed /\ ~page.streamTimer

\* What each connection carries is what LineFeed promises: the non-empty chunks
\* of the master in order and once, with comments between lines only.
Feed ==
  INSTANCE LineFeed WITH
    Chunks <- Chunk \ {"empty"},
    written <- [c \in Conn |-> conn[c].feed],
    read <- [c \in Conn |-> conn[c].out],
    handed <- [c \in Conn |-> conn[c].handed],
    over <- [c \in Conn |-> conn[c].response = "over"]

CarriesTheFeed == Feed!Spec

\* The response of a page that has gone ends, and its thread and its connection
\* to salt-api with it (the finally clause of with_keepalive), even when nothing
\* but comments is left to write.
AbandonedIsReleased ==
  \A c \in Conn : (Streaming(c) /\ ~conn[c].client) ~> Finished(c)

\* Once the master stays up, a page that stays open gets a stream and keeps it,
\* whatever came before - refused tokens, 503s, 401s, threads held by older
\* streams - or it never stops asking, and finds time and again that the stored
\* access token has run out (scheduleReconnect, saltStatus).
HasStream == \E c \in Conn : conn[c].client /\ Streaming(c)

AskedInVain ==
  /\ ~page.access
  /\ \E c \in Conn : conn[c].client /\ conn[c].response = "asked" /\ ~conn[c].bearer

StreamComesBack ==
  <>master.settled => <>[](page.destroyed \/ HasStream) \/ []<>AskedInVain

\* What the code does not keep, and no run checks: "back off properly" and
\* "quick enough to notice a master coming back" (saltStatus, scheduleReconnect)
\* read as if the stream always came back.
StreamAlwaysComesBack == master.settled ~> [](page.destroyed \/ HasStream)
=============================================================================
