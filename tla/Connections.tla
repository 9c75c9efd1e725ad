---------------------------- MODULE Connections ----------------------------
(***************************************************************************)
(* The connections of one worker process: the pool and its free list, the  *)
(* queue of idle connections that may be closed to make room (both in      *)
(* core/ngx_connection.c), the events epoll reports about them             *)
(* (event/modules/ngx_epoll_module.c), the queues of posted events         *)
(* (event/ngx_event_posted.c) and the handlers that run in between: the    *)
(* accept handler, the keepalive handler and a request that talks to one   *)
(* upstream peer at a time.                                                *)
(*                                                                         *)
(* A worker is one thread, but its handlers open and close connections     *)
(* while a batch of events fetched before is still being worked off, so an *)
(* event can outlive its connection.  The code tells such an event by one  *)
(* bit, `instance', that ngx_get_connection flips.  The model adds the     *)
(* number of the life a structure is in (life) to say what the bit means.  *)
(*                                                                         *)
(* A definition named Mutant_... is a wrong variant of the one after it:   *)
(* no specification uses it, a run shows that a property refuses it.       *)
(***************************************************************************)
EXTENDS Integers, Sequences, FiniteSets

CONSTANTS
  ConnectionN,  \* worker_connections
  DrainMax,     \* idle connections closed at most at a time, 32 in the code
  MaxStimuli,   \* bound: events of the outside world
  MaxLives      \* bound: connections taken from the pool

ASSUME PoolAssumption == ConnectionN \in Nat \ {0} /\ DrainMax \in Nat \ {0}
ASSUME BoundAssumption == MaxStimuli \in Nat /\ MaxLives \in Nat

VARIABLES
  conn,      \* the structures, see Conn
  free,      \* ngx_cycle->free_connections, the head first
  freeN,     \* ngx_cycle->free_connection_n
  reusable,  \* ngx_cycle->reusable_connections_queue, the head first
  draining,  \* turns left in ngx_drain_connections, 0 outside of it
  backlog,   \* kernel: clients waiting to be accepted
  input,     \* kernel: messages of the client not yet received
  edge,      \* kernel: what epoll has to report (edge-triggered)
  batch,     \* event_list from the entry being processed on
  pc,        \* where the event loop is
  run,       \* the connection whose handler is running, NoRun in between
  post,      \* NGX_POST_EVENTS: handlers are called after the batch
  mutex,     \* ngx_use_accept_mutex
  exiting,   \* ngx_exiting
  pAccept,   \* ngx_posted_accept_events
  posted,    \* ngx_posted_events
  stimuli, lives

pool == <<conn, free, freeN, reusable>>
kernel == <<backlog, input, edge, stimuli>>
loop == <<batch, pc, post>>
queues == <<pAccept, posted>>
mode == <<mutex, exiting>>

vars == <<pool, draining, kernel, loop, run, mode, queues, lives>>

Conns == 1 .. ConnectionN
Listener == 1     \* the first structure the worker takes from the pool
None == 0
NoRun == [c |-> None, late |-> 0]

Client == {"reading", "request", "idle"}

Conn == [role : Client \cup {"closed", "listen", "peer"},
         instance : {0, 1},     \* of both events
         life : Nat,
         ractive : BOOLEAN, rready : BOOLEAN, wactive : BOOLEAN,
         mate : Conns \cup {None},  \* a request and its upstream peer
         buffered : Nat]        \* pipelined requests already received

Events == Conns \X {"read", "write"}

Entry == [c : Conns, instance : {0, 1}, life : Nat, ev : SUBSET {"in", "out"}]

TypeOK ==
  /\ conn \in [Conns -> Conn]
  /\ free \in Seq(Conns) /\ freeN \in Nat /\ reusable \in Seq(Conns)
  /\ draining \in 0 .. DrainMax
  /\ backlog \in Nat /\ input \in [Conns -> Nat]
  /\ edge \in [Conns -> SUBSET {"in", "out"}]
  /\ batch \in Seq(Entry)
  /\ pc \in {"top", "wait", "read", "write", "accept", "timers", "posted"}
  /\ run \in [c : Conns \cup {None}, late : Nat]
  /\ post \in BOOLEAN /\ mutex \in BOOLEAN /\ exiting \in BOOLEAN
  /\ pAccept \in Seq(Events) /\ posted \in Seq(Events)
  /\ stimuli \in Nat /\ lives \in Nat

Closed(c) == conn[c].role = "closed"    \* c->fd == -1
IsClient(c) == conn[c].role \in Client
Idle == run = NoRun /\ draining = 0     \* no handler is running

Members(s) == {s[i] : i \in DOMAIN s}

(* ngx_queue_remove, ngx_delete_posted_event: unlink x, which occurs at     *)
(* most once.                                                               *)
Unlink(s, x) ==
  IF x \notin Members(s) THEN s
  ELSE LET i == CHOOSE j \in DOMAIN s : s[j] = x
       IN [j \in 1 .. Len(s) - 1 |-> IF j < i THEN s[j] ELSE s[j + 1]]

(* ngx_locked_post_event: at the head, unless it is posted already.         *)
Posted(queue, e) == IF e \in Members(queue) THEN queue ELSE <<e>> \o queue

-----------------------------------------------------------------------------
(* ngx_event_process_init: every structure is on the free list with         *)
(* instance 1, then the listening socket takes the first one.               *)
Fresh(role, instance, life) ==
  [role |-> role, instance |-> instance, life |-> life, ractive |-> FALSE,
   rready |-> FALSE, wactive |-> FALSE, mate |-> None, buffered |-> 0]

Init ==
  /\ conn = [c \in Conns |-> IF c = Listener THEN Fresh("listen", 0, 1)
                                             ELSE Fresh("closed", 1, 0)]
  /\ free = [i \in 1 .. ConnectionN - 1 |-> i + 1]
  /\ freeN = ConnectionN - 1
  /\ reusable = <<>> /\ draining = 0
  /\ backlog = 0 /\ input = [c \in Conns |-> 0] /\ edge = [c \in Conns |-> {}]
  /\ batch = <<>> /\ pc = "top" /\ run = NoRun
  /\ post = FALSE /\ mutex \in BOOLEAN /\ exiting = FALSE
  /\ pAccept = <<>> /\ posted = <<>>
  /\ stimuli = 0 /\ lives = 0

-----------------------------------------------------------------------------
(* The pool.                                                                *)

Mutant_Taken(c, role) == Fresh(role, conn[c].instance, conn[c].life + 1)

(* ngx_get_connection with a free structure: everything is zeroed but the   *)
(* instance, which is flipped.                                              *)
Taken(c, role) == Fresh(role, 1 - conn[c].instance, conn[c].life + 1)

Take ==
  /\ free # <<>>
  /\ free' = Tail(free) /\ freeN' = freeN - 1
  /\ lives < MaxLives /\ lives' = lives + 1

(* ngx_get_connection returns NULL: no structure is free and none is        *)
(* reusable.                                                                *)
NoConnection == free = <<>> /\ reusable = <<>>

(* ngx_free_connection and fd = -1.  Closing the socket makes the kernel    *)
(* forget what it had to report about it.                                   *)
Release(c) ==
  /\ free' = <<c>> \o free /\ freeN' = freeN + 1
  /\ input' = [input EXCEPT ![c] = 0]
  /\ edge' = [edge EXCEPT ![c] = {}]

AsClosed(c) ==
  [conn[c] EXCEPT !.role = "closed", !.ractive = FALSE, !.wactive = FALSE,
                  !.mate = None]

Mutant_Reused(c) == reusable

(* ngx_reusable_connection(c, 0)                                            *)
Reused(c) == Unlink(reusable, c)

Mutant_Unposted(c) == Unlink(posted, <<c, "read">>)

(* ngx_close_connection: delete both events from epoll and from the posted  *)
(* queue, take the connection from the reusable queue, free it.             *)
Unposted(c) == Unlink(Unlink(posted, <<c, "read">>), <<c, "write">>)

CloseConnection(c) ==
  /\ Release(c)
  /\ posted' = Unposted(c)
  /\ reusable' = Reused(c)

(* ngx_drain_connections: the oldest idle connection gets close = 1, its    *)
(* read handler is ngx_http_keepalive_handler and closes it.                *)
WantsConnection ==
  \/ run # NoRun /\ conn[run.c].role = "listen" /\ backlog > 0
  \/ run # NoRun /\ conn[run.c].role = "request" /\ conn[run.c].mate = None

DrainStart ==
  /\ draining = 0 /\ WantsConnection
  /\ free = <<>> /\ reusable # <<>>
  /\ lives < MaxLives
  /\ draining' = DrainMax
  /\ UNCHANGED <<pool, kernel, loop, run, mode, queues, lives>>

DrainStep ==
  /\ draining > 0
  /\ IF reusable = <<>>
     THEN /\ draining' = 0
          /\ UNCHANGED <<pool, kernel, queues>>
     ELSE LET c == reusable[Len(reusable)] IN
          /\ draining' = draining - 1
          /\ CloseConnection(c)
          /\ conn' = [conn EXCEPT ![c] = AsClosed(c)]
          /\ UNCHANGED <<backlog, stimuli, pAccept>>
  /\ UNCHANGED <<loop, run, mode, lives>>

-----------------------------------------------------------------------------
(* Handlers.  While one runs nothing else of the worker does.               *)

Running(role) == draining = 0 /\ run # NoRun /\ conn[run.c].role = role

Return == run' = NoRun

(* ngx_handle_read_event and ngx_epoll_add_event for edge-triggered events: *)
(* added when neither active nor ready; epoll_ctl reports input that is     *)
(* already there.                                                           *)
HandleRead(r) == IF ~r.ractive /\ ~r.rready THEN [r EXCEPT !.ractive = TRUE] ELSE r

Armed(c, r) ==
  IF r.ractive /\ ~conn[c].ractive /\ input[c] > 0 THEN edge[c] \cup {"in"} ELSE edge[c]

(* ngx_event_accept: a failing accept or a full pool ends it.               *)
AcceptFails ==
  /\ Running("listen")
  /\ \/ UNCHANGED backlog                            \* EAGAIN, an error
     \/ NoConnection /\ backlog > 0 /\ backlog' = backlog - 1
  /\ Return
  /\ UNCHANGED <<pool, draining, input, edge, stimuli, loop, mode, queues, lives>>

(* ngx_event_accept, ngx_http_init_connection: the event waits in epoll; or *)
(* the accept was deferred, then it is ready and posted or handled at once. *)
Accepted(deferred) ==
  /\ Running("listen") /\ backlog > 0 /\ backlog' = backlog - 1
  /\ Take
  /\ LET c == Head(free)
         t == Taken(c, "reading")
     IN /\ conn' = [conn EXCEPT ![c] = IF deferred THEN [t EXCEPT !.rready = TRUE]
                                                   ELSE HandleRead(t)]
        /\ input' = [input EXCEPT ![c] = IF deferred THEN 1 ELSE 0]
        /\ posted' = IF deferred /\ mutex THEN Posted(posted, <<c, "read">>) ELSE posted
        /\ run' = IF deferred /\ ~mutex THEN [c |-> c, late |-> 0] ELSE NoRun
  /\ UNCHANGED <<reusable, draining, edge, stimuli, loop, mode, pAccept>>

(* ngx_close_accepted_connection: an allocation or a call fails after the   *)
(* structure was taken; the new socket has no event yet.                    *)
AcceptedCloses ==
  /\ Running("listen") /\ backlog > 0 /\ backlog' = backlog - 1
  /\ free # <<>> /\ lives < MaxLives /\ lives' = lives + 1
  /\ LET c == Head(free)
     IN conn' = [conn EXCEPT ![c] = Taken(c, "closed")]
  /\ Return
  /\ UNCHANGED <<free, freeN, reusable, draining, input, edge, stimuli, loop, mode, queues>>

Mutant_NoLongerReady(r) == r

(* ngx_unix_recv on NGX_AGAIN.                                              *)
NoLongerReady(r) == [r EXCEPT !.rready = FALSE]

(* ngx_http_read_request_header and ngx_http_keepalive_handler get          *)
(* NGX_AGAIN: the event is not ready any more and goes back to epoll.       *)
NoInput(c) == input[c] = 0 \/ (conn[c].role = "reading" /\ ~conn[c].rready)

ReceivesNothing(c) ==
  /\ draining = 0 /\ run.c = c /\ conn[c].role \in {"reading", "idle"}
  /\ conn[c].buffered = 0 /\ NoInput(c)
  /\ LET r == HandleRead(NoLongerReady(conn[c]))
     IN /\ conn' = [conn EXCEPT ![c] = r]
        /\ edge' = [edge EXCEPT ![c] = Armed(c, r)]
  /\ Return
  /\ UNCHANGED <<free, freeN, reusable, draining, backlog, input, stimuli, loop, mode,
                 queues, lives>>

(* They receive n messages, the first of which is the request and the rest  *)
(* pipelined; or the request was buffered by an earlier read.  ready stays  *)
(* set (NGX_USE_GREEDY_EVENT).                                              *)
Receives(c) ==
  /\ draining = 0 /\ run.c = c /\ conn[c].role \in {"reading", "idle"}
  /\ \/ /\ conn[c].buffered > 0
        /\ conn' = [conn EXCEPT ![c].role = "request", ![c].buffered = @ - 1]
        /\ UNCHANGED input
     \/ /\ conn[c].buffered = 0 /\ ~NoInput(c)
        /\ \E n \in 1 .. input[c] :
             /\ conn' = [conn EXCEPT ![c].role = "request", ![c].buffered = n - 1]
             /\ input' = [input EXCEPT ![c] = @ - n]
  /\ reusable' = Reused(c)
  /\ UNCHANGED <<free, freeN, draining, backlog, edge, stimuli, loop, run, mode, queues,
                 lives>>

(* ngx_http_close_connection: the client closed, an error, a timeout        *)
(* (timedout), keepalive is off or the worker is exiting.  An upstream peer *)
(* was closed before.                                                       *)
CloseClient(c) ==
  /\ draining = 0 /\ run.c = c /\ IsClient(c) /\ conn[c].mate = None
  /\ CloseConnection(c)
  /\ conn' = [conn EXCEPT ![c] = AsClosed(c)]
  /\ Return
  /\ UNCHANGED <<draining, backlog, stimuli, loop, mode, pAccept, lives>>

Mutant_PostsAgain(r) == r.buffered > 0

(* The read event is posted at once.                                        *)
PostsAgain(r) == r.buffered > 0 \/ r.rready

(* ngx_http_set_keepalive: a pipelined request is posted, otherwise the     *)
(* connection becomes idle and reusable, and is posted when input is        *)
(* already known to be there.                                               *)
SetKeepalive(c) ==
  /\ Running("request") /\ run.c = c /\ conn[c].mate = None /\ ~exiting
  /\ LET r == HandleRead(conn[c])
         pipelined == r.buffered > 0
     IN /\ conn' = [conn EXCEPT ![c] =
                      [r EXCEPT !.role = IF pipelined THEN "reading" ELSE "idle"]]
        /\ edge' = [edge EXCEPT ![c] = Armed(c, r)]
        /\ reusable' = IF pipelined THEN reusable ELSE <<c>> \o reusable
        /\ posted' = IF PostsAgain(r) THEN Posted(posted, <<c, "read">>) ELSE posted
  /\ Return
  /\ UNCHANGED <<free, freeN, draining, backlog, input, stimuli, loop, mode, pAccept, lives>>

(* ngx_event_connect_peer, ngx_epoll_add_connection: both events of the new *)
(* connection are active.                                                   *)
ConnectPeer(c) ==
  /\ Running("request") /\ run.c = c /\ conn[c].mate = None
  /\ Take
  /\ LET u == Head(free)
     IN conn' = [conn EXCEPT ![u] = [Taken(u, "peer") EXCEPT !.ractive = TRUE,
                                                             !.wactive = TRUE,
                                                             !.mate = c],
                             ![c].mate = u]
  /\ UNCHANGED <<reusable, draining, kernel, loop, run, mode, queues>>

Mutant_Unmated(u) == [conn EXCEPT ![u] = AsClosed(u)]

(* u->peer.connection = NULL                                                *)
Unmated(u) == [conn EXCEPT ![u] = AsClosed(u), ![conn[u].mate].mate = None]

(* ngx_http_upstream_next and ngx_http_upstream_finalize_request close the  *)
(* peer; so does ngx_event_connect_peer when connect fails.                 *)
ClosePeer(c) ==
  /\ Running("request") /\ run.c = c /\ conn[c].mate # None
  /\ LET u == conn[c].mate
     IN /\ CloseConnection(u)
        /\ conn' = Unmated(u)
  /\ UNCHANGED <<draining, backlog, stimuli, loop, run, mode, pAccept, lives>>

(* The request waits for its upstream peer.                                 *)
AwaitPeer(c) ==
  /\ Running("request") /\ run.c = c /\ conn[c].mate # None
  /\ Return
  /\ UNCHANGED <<pool, draining, kernel, loop, mode, queues, lives>>

HandlerStep ==
  \/ DrainStart \/ DrainStep
  \/ AcceptFails \/ AcceptedCloses \/ \E deferred \in BOOLEAN : Accepted(deferred)
  \/ \E c \in Conns :
       \/ ReceivesNothing(c) \/ Receives(c) \/ CloseClient(c) \/ SetKeepalive(c)
       \/ ConnectPeer(c) \/ ClosePeer(c) \/ AwaitPeer(c)

-----------------------------------------------------------------------------
(* The event loop: ngx_process_events_and_timers.                           *)

(* The handler of c's events: a peer's works for the request it serves.     *)
Owner(c) == IF conn[c].role = "peer" THEN conn[c].mate ELSE c

(* Calls the handler of c for an event that belonged to its given life.     *)
Call(c, life) == run' = [c |-> Owner(c), late |-> conn[c].life - life]

(* ngx_worker_process_cycle closes every idle connection when exiting, then *)
(* starts the next iteration.                                               *)
CloseIdle(c) ==
  /\ pc = "top" /\ Idle /\ exiting /\ conn[c].role = "idle"
  /\ CloseConnection(c)
  /\ conn' = [conn EXCEPT ![c] = AsClosed(c)]
  /\ UNCHANGED <<draining, backlog, stimuli, loop, run, mode, pAccept, lives>>

(* ngx_trylock_accept_mutex decides whether events are posted (AcceptMutex  *)
(* has the details).                                                        *)
StartIteration ==
  /\ pc = "top" /\ Idle
  /\ exiting => \A c \in Conns : conn[c].role # "idle"
  /\ pc' = "wait" /\ post' \in (IF mutex THEN BOOLEAN ELSE {FALSE})
  /\ UNCHANGED <<pool, draining, kernel, batch, run, mode, queues, lives>>

(* epoll_wait reports each socket at most once, in any order: those with    *)
(* news, and the listening socket as long as clients wait (it is            *)
(* level-triggered), if this worker has it in epoll: always without a       *)
(* mutex, when it posts, and when it is over its threshold.                 *)
ListenEvent == [c |-> Listener, instance |-> conn[Listener].instance,
                life |-> conn[Listener].life, ev |-> {"in"}]

EntryOf(c) == [c |-> c, instance |-> conn[c].instance, life |-> conn[c].life,
               ev |-> edge[c]]

Orderings(S) == {f \in [1 .. Cardinality(S) -> S] : Members(f) = S}

EpollWait ==
  /\ pc = "wait" /\ Idle
  /\ \E listens \in (IF mutex /\ ~post THEN BOOLEAN ELSE {TRUE}) :
       LET news == {EntryOf(c) : c \in {d \in Conns : edge[d] # {}}}
           waiting == IF listens /\ backlog > 0 /\ ~exiting THEN {ListenEvent} ELSE {}
       IN /\ conn' = [conn EXCEPT ![Listener].ractive =
                         IF conn[Listener].role = "listen" THEN listens ELSE @]
          /\ batch' \in Orderings(news \cup waiting)
  /\ edge' = [c \in Conns |-> {}]
  /\ pc' = "read"
  /\ UNCHANGED <<free, freeN, reusable, draining, backlog, input, stimuli, run, post, mode,
                 queues, lives>>

(* ngx_epoll_process_events, one entry of the batch: the stale event is     *)
(* skipped, the read event is posted or its handler called, ...             *)
Stale(e) == Closed(e.c) \/ conn[e.c].instance # e.instance

NextEntry == batch' = Tail(batch) /\ pc' = "read"

StaleEvent ==
  /\ pc \in {"read", "write"} /\ Idle /\ batch # <<>> /\ Stale(Head(batch))
  /\ pc = "write" => "out" \in Head(batch).ev /\ conn[Head(batch).c].wactive
  /\ NextEntry
  /\ UNCHANGED <<pool, draining, kernel, run, post, mode, queues, lives>>

ReadEvent ==
  /\ pc = "read" /\ Idle /\ batch # <<>> /\ ~Stale(Head(batch))
  /\ LET e == Head(batch)
         q == <<e.c, "read">>
         reads == "in" \in e.ev /\ conn[e.c].ractive
         accepts == conn[e.c].role = "listen"
     IN /\ conn' = [conn EXCEPT ![e.c].rready = @ \/ reads]
        /\ pAccept' = IF reads /\ post /\ accepts THEN Posted(pAccept, q) ELSE pAccept
        /\ posted' = IF reads /\ post /\ ~accepts THEN Posted(posted, q) ELSE posted
        /\ IF reads /\ ~post THEN Call(e.c, e.life) ELSE UNCHANGED run
  /\ pc' = "write"
  /\ UNCHANGED <<free, freeN, reusable, draining, kernel, batch, post, mode, lives>>

(* ... and then the write event, after the read handler may have closed the *)
(* connection.                                                              *)
WriteEvent ==
  /\ pc = "write" /\ Idle /\ batch # <<>>
  /\ LET e == Head(batch)
         writes == "out" \in e.ev /\ conn[e.c].wactive
     IN /\ writes => ~Stale(e)
        /\ posted' = IF writes /\ post THEN Posted(posted, <<e.c, "write">>) ELSE posted
        /\ IF writes /\ ~post THEN Call(e.c, e.life) ELSE UNCHANGED run
  /\ NextEntry
  /\ UNCHANGED <<pool, draining, kernel, post, mode, pAccept, lives>>

BatchDone ==
  /\ pc = "read" /\ Idle /\ batch = <<>>
  /\ pc' = "accept"
  /\ UNCHANGED <<pool, draining, kernel, batch, run, post, mode, queues, lives>>

(* ngx_event_process_posted on ngx_posted_accept_events, then the timers.   *)
PostedAccept ==
  /\ pc = "accept" /\ Idle
  /\ IF pAccept = <<>>
     THEN pc' = "timers" /\ UNCHANGED <<run, pAccept>>
     ELSE LET c == Head(pAccept)[1] IN
          pAccept' = Tail(pAccept) /\ Call(c, conn[c].life) /\ UNCHANGED pc
  /\ UNCHANGED <<pool, draining, kernel, batch, post, mode, posted, lives>>

(* ngx_event_expire_timers: a client that is late is closed; a peer that is *)
(* late is closed and its request goes on.                                  *)
TimerExpires(c) ==
  /\ pc = "timers" /\ Idle
  /\ \/ conn[c].role \in {"reading", "idle"} /\ conn[c].ractive /\ UNCHANGED run
        /\ conn' = [conn EXCEPT ![c] = AsClosed(c)]
     \/ conn[c].role = "peer" /\ Call(c, conn[c].life)
        /\ conn' = Unmated(c)
  /\ CloseConnection(c)
  /\ UNCHANGED <<draining, backlog, stimuli, loop, mode, pAccept, lives>>

TimersDone ==
  /\ pc = "timers" /\ Idle /\ pc' = "posted"
  /\ UNCHANGED <<pool, draining, kernel, batch, run, post, mode, queues, lives>>

Mutant_ListenerClosed == [conn EXCEPT ![Listener].ractive = FALSE]

(* The listening connection of ngx_close_listening_sockets.                 *)
ListenerClosed == [conn EXCEPT ![Listener] = AsClosed(Listener)]

(* ngx_event_process_posted on ngx_posted_events.  Afterwards a QUIT closes *)
(* the listening sockets (ngx_close_listening_sockets).                     *)
PostedEvent ==
  /\ pc = "posted" /\ Idle
  /\ posted # <<>>
  /\ LET c == Head(posted)[1] IN posted' = Tail(posted) /\ Call(c, conn[c].life)
  /\ UNCHANGED <<pool, draining, kernel, loop, mode, pAccept, lives>>

IterationDone(quit) ==
  /\ pc = "posted" /\ Idle /\ posted = <<>>
  /\ pc' = "top"
  /\ IF quit /\ ~exiting
     THEN /\ Release(Listener) /\ mutex' = FALSE /\ exiting' = TRUE
          /\ conn' = ListenerClosed
     ELSE UNCHANGED <<conn, free, freeN, input, edge, mode>>
  /\ UNCHANGED <<reusable, draining, backlog, stimuli, batch, run, post, queues, lives>>

LoopStep ==
  \/ StartIteration \/ EpollWait \/ StaleEvent \/ ReadEvent \/ WriteEvent \/ BatchDone
  \/ PostedAccept \/ TimersDone \/ PostedEvent
  \/ \E c \in Conns : CloseIdle(c)
  \/ \E quit \in BOOLEAN : IterationDone(quit)

Timer == \E c \in Conns : TimerExpires(c)

-----------------------------------------------------------------------------
(* The outside world: clients connect and send, peers answer or take data.  *)
Stimulus == stimuli < MaxStimuli /\ stimuli' = stimuli + 1

ClientConnects ==
  /\ Stimulus /\ backlog' = backlog + 1
  /\ UNCHANGED <<pool, draining, input, edge, loop, run, mode, queues, lives>>

ClientSends(c) ==
  /\ Stimulus /\ IsClient(c)
  /\ input' = [input EXCEPT ![c] = @ + 1]
  /\ edge' = [edge EXCEPT ![c] = IF conn[c].ractive THEN @ \cup {"in"} ELSE @]
  /\ UNCHANGED <<pool, draining, backlog, loop, run, mode, queues, lives>>

PeerReady(c) ==
  /\ Stimulus /\ conn[c].role = "peer"
  /\ \E ev \in (SUBSET {"in", "out"}) \ {{}} : edge' = [edge EXCEPT ![c] = @ \cup ev]
  /\ UNCHANGED <<pool, draining, backlog, input, loop, run, mode, queues, lives>>

World == ClientConnects \/ \E c \in Conns : ClientSends(c) \/ PeerReady(c)

Worker == HandlerStep \/ LoopStep

Next == Worker \/ Timer \/ World

Spec == Init /\ [][Next]_vars
FairSpec == Spec /\ WF_vars(Worker)

-----------------------------------------------------------------------------
(* Properties.                                                              *)

NoRepeat(s) == \A i, j \in DOMAIN s : s[i] = s[j] => i = j

(* The free list (ngx_get_connection, ngx_free_connection) holds every      *)
(* closed connection exactly once and no open one, and free_connection_n,   *)
(* from which the accept threshold is computed, counts it.                  *)
PoolExact ==
  /\ NoRepeat(free) /\ freeN = Len(free)
  /\ \A c \in Conns : c \in Members(free) <=> Closed(c)

(* The queue of reusable connections holds every idle connection exactly    *)
(* once and nothing else: ngx_drain_connections, called from the middle of  *)
(* a handler, never closes a connection that a request or a peer still      *)
(* uses, nor the one whose handler called it.                               *)
ReusableExact ==
  /\ NoRepeat(reusable)
  /\ \A c \in Conns : c \in Members(reusable) <=> conn[c].role = "idle"
  /\ draining > 0 => run.c \notin Members(reusable)

(* A posted event belongs to an open connection and is posted once: closing *)
(* a connection, by whichever handler and on whichever path, takes its      *)
(* events out of the queue, and the accept queue is empty when the          *)
(* listening sockets are closed.                                            *)
PostedLive ==
  /\ NoRepeat(posted) /\ NoRepeat(pAccept)
  /\ \A e \in Members(posted) : conn[e[1]].role \in Client \cup {"peer"}
  /\ \A e \in Members(pAccept) : conn[e[1]].role = "listen"

(* A request and its peer know each other: an event of either always finds  *)
(* the other one open, and no client is closed before its peer.             *)
MatesAgree ==
  \A c \in Conns : conn[c].mate # None =>
    LET m == conn[c].mate
    IN conn[m].mate = c /\ {conn[c].role, conn[m].role} = {"request", "peer"}

(* The instance bit does its work when events are posted, and otherwise     *)
(* unless the structure was taken from the pool at least twice since the    *)
(* batch was fetched: ngx_epoll_process_events calls no handler for an      *)
(* event of an earlier connection.                                          *)
LateOnlyAfterTwoLives ==
  run.late > 0 => ~post /\ run.late >= 2 /\ pc \in {"read", "write"}

(* Input of a client whose next request is awaited is never forgotten: it   *)
(* is in epoll's report, in the rest of the batch, or its event is posted.  *)
(* The worker would otherwise not look at it before the timeout.            *)
InputAwaited(c) == conn[c].role \in {"reading", "idle"} /\ input[c] > 0 /\ run.c # c

NoLostInput ==
  \A c \in Conns : InputAwaited(c) =>
    \/ "in" \in edge[c]
    \/ <<c, "read">> \in Members(posted)
    \/ \E i \in DOMAIN batch : /\ batch[i].c = c /\ batch[i].life = conn[c].life
                               /\ "in" \in batch[i].ev /\ (i = 1 => pc = "read")

(* Every message of a client that awaits its next request is received or    *)
(* the connection is closed.                                                *)
InputServed == \A c \in Conns : InputAwaited(c) ~> ~InputAwaited(c)

(* "used to detect the stale events" (ngx_event.h): no handler is ever      *)
(* called for an event of an earlier connection.                            *)
StaleDetected == run.late = 0

=============================================================================
