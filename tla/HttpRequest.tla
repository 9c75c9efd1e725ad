---------------------------- MODULE HttpRequest ----------------------------
(***************************************************************************)
(* The life of one HTTP request in a worker: the main request and its      *)
(* subrequests (http/ngx_http_request.c, ngx_http_subrequest and the       *)
(* redirects in http/ngx_http_core_module.c), the filter that puts their   *)
(* output in order (http/ngx_http_postpone_filter_module.c), the content   *)
(* handlers that work in one go and those that talk to an upstream server  *)
(* (http/ngx_http_upstream.c).                                             *)
(*                                                                         *)
(* One thread runs it all, but a handler that waits returns to the event   *)
(* loop, a finished request wakes its parent through a queue, and any      *)
(* handler may end the whole request.  What keeps the memory alive in the  *)
(* meantime is one counter of the main request, r->main->count.            *)
(*                                                                         *)
(* The handlers of the client's connection belong to the active request,   *)
(* c->data.  Memory is never short and epoll_ctl never fails here.         *)
(*                                                                         *)
(* A definition named Mutant_... is a wrong variant of the one after it:   *)
(* no specification uses it, a run shows that a property refuses it.       *)
(***************************************************************************)
EXTENDS Integers, Sequences, FiniteSets, SequencesExt

CONSTANTS
  MaxSub,    \* bound: subrequests, NGX_HTTP_MAX_SUBREQUESTS is 200
  MaxParts,  \* bound: parts of a page a request produces, subrequests included
  MaxHolds,  \* bound: times a handler takes a reference of its own
  SpawnUnflushed  \* a handler may start a subrequest behind output of its
                  \* own that is still postponed though its turn has come

ASSUME BoundAssumption == MaxSub \in Nat /\ MaxParts \in Nat /\ MaxHolds \in Nat
ASSUME SpawnAssumption == SpawnUnflushed \in BOOLEAN

VARIABLES
  made,       \* subrequests created so far
  parent,     \* r->parent
  done,       \* r->done
  postponed,  \* r->postponed
  weh,        \* r->write_event_handler
  reh,        \* r->read_event_handler
  up,         \* the request has an upstream and its cleanup handler
  count,      \* r->main->count
  data,       \* c->data, the active request
  posted,     \* r->main->posted_requests
  cerror,     \* c->error
  buffered,   \* c->buffered: output waits for the client's socket
  ready,      \* c->write->ready
  run,        \* the handler that is running
  freed,      \* the pool of the request is destroyed
  content,    \* history: what each request has produced
  sent,       \* history: what was given to the write filter
  killed,     \* history: ngx_http_terminate_request was called
  holds

requests == <<made, parent, done, postponed, weh, reh, up>>
connection == <<data, posted, cerror, buffered, ready>>
history == <<content, sent>>
vars == <<requests, connection, history, count, run, freed, killed, holds>>

Main == 0
Reqs == 0 .. MaxSub
NoReq == -1

(* <<r, i>> is the i-th buffer of request r, <<s, 0>> its subrequest s.    *)
Items == Reqs \X (0 .. MaxParts)
IsSub(e) == e[2] = 0

NoRun == [r |-> NoReq, step |-> "none", owed |-> 0]

(* gen: a content or upstream handler, closing: the latter at its end;     *)
(* flush, wrote, failed: ngx_http_writer; final: ngx_http_finalize_request *)
(* with NGX_OK; unwind: the callers of handlers that return NGX_DONE, each *)
(* of which finalizes the request once more.                               *)
Step == {"none", "gen", "closing", "flush", "wrote", "failed", "final", "unwind"}

TypeOK ==
  /\ made \in Reqs
  /\ parent \in [Reqs -> Reqs] /\ done \in [Reqs -> BOOLEAN]
  /\ postponed \in [Reqs -> Seq(Items)]
  /\ weh \in [Reqs -> {"run", "upstream", "empty", "writer",
                       "finalizer", "terminate"}]
  /\ reh \in [Reqs -> {"empty", "upstream", "test"}]
  /\ up \in [Reqs -> BOOLEAN]
  /\ count \in Nat /\ holds \in 0 .. MaxHolds
  /\ data \in Reqs /\ posted \in Seq(Reqs)
  /\ cerror \in BOOLEAN /\ buffered \in BOOLEAN /\ ready \in BOOLEAN
  /\ run \in [r : Reqs \cup {NoReq}, step : Step, owed : Nat]
  /\ freed \in BOOLEAN /\ killed \in BOOLEAN
  /\ content \in [Reqs -> Seq(Items)] /\ sent \in Seq(Items)

Live == {r \in 0 .. made : ~done[r]}
Upstreams == {r \in Reqs : up[r]}

(* ngx_http_init_request, the phases up to content are over.               *)
Init ==
  /\ made = 0 /\ parent = [r \in Reqs |-> Main]
  /\ done = [r \in Reqs |-> FALSE] /\ postponed = [r \in Reqs |-> <<>>]
  /\ weh = [r \in Reqs |-> "run"] /\ reh = [r \in Reqs |-> "empty"]
  /\ up = [r \in Reqs |-> FALSE]
  /\ count = 1 /\ holds = 0
  /\ data = Main /\ posted = <<Main>>
  /\ cerror = FALSE /\ buffered = FALSE /\ ready = TRUE
  /\ run = NoRun /\ freed = FALSE /\ killed = FALSE
  /\ content = [r \in Reqs |-> <<>>] /\ sent = <<>>

-----------------------------------------------------------------------------
(* Output *)

(* The filters below the postpone filter and the socket: all of the output *)
(* is sent, or some of it has to wait, or the client is gone.              *)
NextFilter(out) ==
  \/ /\ ~cerror /\ ready
     /\ buffered' = FALSE /\ sent' = sent \o out
     /\ UNCHANGED <<cerror, ready>>
  \/ /\ ~cerror
     /\ buffered' = TRUE /\ ready' = FALSE /\ sent' = sent \o out
     /\ UNCHANGED cerror
  \/ /\ cerror' = TRUE
     /\ UNCHANGED <<buffered, ready, sent>>

NoOutput == UNCHANGED <<cerror, buffered, ready, sent>>

(* The output in front of the first subrequest of q.                       *)
Leading(q) ==
  LET i == SelectInSeq(q, IsSub) IN SubSeq(q, 1, IF i = 0 THEN Len(q) ELSE i - 1)

(* The loop of the filter: buffers go out up to the first subrequest,      *)
(* which becomes the active request and is woken.                          *)
Drain(r, q) ==
  LET out == Leading(q)
      n == Len(out)
  IN
  /\ IF out = <<>> THEN NoOutput ELSE NextFilter(out)
  /\ \/ /\ out # <<>> /\ cerror'
        /\ postponed' = [postponed EXCEPT ![r] = q]
        /\ UNCHANGED <<data, posted>>
     \/ /\ ~(out # <<>> /\ cerror') /\ n = Len(q)
        /\ postponed' = [postponed EXCEPT ![r] = <<>>]
        /\ UNCHANGED <<data, posted>>
     \/ /\ ~(out # <<>> /\ cerror') /\ n < Len(q)
        /\ postponed' = [postponed EXCEPT ![r] = SubSeq(q, n + 2, Len(q))]
        /\ data' = q[n + 1][1] /\ posted' = Append(posted, q[n + 1][1])

(* The active request writes past what it has postponed.                   *)
Mutant_PostponeFilter(r, in) ==
  \/ /\ r # data
     /\ postponed' = [postponed EXCEPT ![r] = @ \o in]
     /\ NoOutput /\ UNCHANGED <<data, posted>>
  \/ /\ r = data /\ in # <<>>
     /\ NextFilter(in) /\ UNCHANGED <<postponed, data, posted>>
  \/ /\ r = data /\ in = <<>>
     /\ Drain(r, postponed[r])

(* ngx_http_postpone_filter; `in' is a sequence of at most one buffer.     *)
PostponeFilter(r, in) ==
  \/ /\ r # data
     /\ postponed' = [postponed EXCEPT ![r] = @ \o in]
     /\ NoOutput /\ UNCHANGED <<data, posted>>
  \/ /\ r = data /\ postponed[r] = <<>>
     /\ IF in # <<>> \/ buffered THEN NextFilter(in) ELSE NoOutput
     /\ UNCHANGED <<postponed, data, posted>>
  \/ /\ r = data /\ postponed[r] # <<>>
     /\ Drain(r, postponed[r] \o in)

-----------------------------------------------------------------------------
(* Ends *)

Return == run' = IF run.owed > 0 THEN [run EXCEPT !.step = "unwind"] ELSE NoRun

(* ngx_http_terminate_request: the cleanup handlers finalize every request *)
(* that has an upstream with NGX_DONE, each drops one reference; what else *)
(* was posted is forgotten, the main request is to be closed next.         *)
Terminate ==
  LET k == Cardinality(Upstreams) IN
  /\ count' = count - k /\ freed' = (k >= count)
  /\ up' = [r \in Reqs |-> FALSE]
  /\ posted' = <<Main>>
  /\ weh' = [weh EXCEPT ![Main] = "terminate"]
  /\ killed' = TRUE
  /\ Return
  /\ UNCHANGED <<made, parent, done, postponed, reh, data, cerror, buffered,
                 ready, history, holds>>

(* The handlers of the request are left alone.                             *)
Mutant_Rearm(r) == UNCHANGED <<requests, connection, count, freed>>

(* ngx_http_set_write_handler *)
Rearm(r) ==
  /\ weh' = [weh EXCEPT ![r] = "writer"] /\ reh' = [reh EXCEPT ![r] = "test"]
  /\ UNCHANGED <<made, parent, done, postponed, up, connection, count, freed>>

(* The active subrequest: its place in the parent's output is taken, the   *)
(* parent is active again.                                                 *)
EndActive(r) ==
  LET p == parent[r] IN
  /\ count' = count - 1
  /\ done' = [done EXCEPT ![r] = TRUE]
  /\ postponed' = [postponed EXCEPT ![p] =
                     IF @ # <<>> /\ @[1] = <<r, 0>> THEN Tail(@) ELSE @]
  /\ data' = p
  /\ posted' = Append(posted, p)
  /\ UNCHANGED <<made, parent, weh, reh, up, cerror, buffered, ready, freed>>

(* It gives up its reference at once, and again when its turn comes.       *)
Mutant_EndInactive(r) ==
  /\ weh' = [weh EXCEPT ![r] = "finalizer"]
  /\ posted' = Append(posted, parent[r])
  /\ count' = count - 1
  /\ UNCHANGED <<made, parent, done, postponed, reh, up, data, cerror, buffered,
                 ready, freed>>

(* A subrequest whose turn has not come is finalized again when it comes.  *)
EndInactive(r) ==
  /\ weh' = [weh EXCEPT ![r] = "finalizer"]
  /\ posted' = Append(posted, parent[r])
  /\ UNCHANGED <<made, parent, done, postponed, reh, up, data, cerror, buffered,
                 ready, count, freed>>

(* ngx_http_finalize_connection with ngx_http_close_request or keepalive.  *)
EndMain ==
  /\ done' = [done EXCEPT ![Main] = TRUE]
  /\ weh' = [weh EXCEPT ![Main] = "empty"]
  /\ count' = count - 1 /\ freed' = (count = 1)
  /\ UNCHANGED <<made, parent, postponed, reh, up, connection>>

(* "http finalize non-active request" in the log, and nothing else.        *)
Alert == UNCHANGED <<requests, connection, count, freed>>

(* ngx_http_finalize_request with NGX_OK *)
Finalize ==
  LET r == run.r
      more == postponed[r] # <<>> \/ (r = Main /\ buffered)
  IN
  /\ run.step = "final"
  /\ \/ cerror /\ Terminate
     \/ /\ ~cerror
        /\ \/ more /\ Rearm(r)
           \/ ~more /\ r # Main /\ r = data /\ EndActive(r)
           \/ ~more /\ r # Main /\ r # data /\ EndInactive(r)
           \/ ~more /\ r = Main /\ r = data /\ EndMain
           \/ ~more /\ r = Main /\ r # data /\ Alert
        /\ Return /\ UNCHANGED <<history, killed, holds>>

(* The reference of the caller is never given back.                        *)
Mutant_Unwind ==
  /\ run.step = "unwind"
  /\ run' = IF run.owed > 1 THEN [run EXCEPT !.owed = @ - 1] ELSE NoRun
  /\ UNCHANGED <<requests, connection, history, count, freed, killed, holds>>

(* The callers of a handler that returned NGX_DONE.                        *)
Unwind ==
  /\ run.step = "unwind"
  /\ count' = count - 1 /\ freed' = (count = 1)
  /\ run' = IF run.owed > 1 THEN [run EXCEPT !.owed = @ - 1] ELSE NoRun
  /\ UNCHANGED <<requests, connection, history, killed, holds>>

-----------------------------------------------------------------------------
(* Content handlers *)

(* The handler may end the request: its upstream is out of the way.        *)
Ending == run.step = "closing" \/ (run.step = "gen" /\ ~up[run.r])

Produce(r) ==
  LET e == <<r, Len(content[r]) + 1>> IN
  /\ content' = [content EXCEPT ![r] = Append(@, e)]
  /\ PostponeFilter(r, <<e>>)
  /\ UNCHANGED <<made, parent, done, weh, reh, up, count, freed, killed, holds>>

(* ngx_http_output_filter *)
Emit ==
  /\ run.step = "gen" /\ Len(content[run.r]) + 1 < MaxParts
  /\ Produce(run.r) /\ UNCHANGED run

(* The last buffer, then ngx_http_finalize_request.                        *)
SendLast ==
  /\ Ending /\ Len(content[run.r]) < MaxParts
  /\ Produce(run.r) /\ run' = [run EXCEPT !.step = "final"]

(* A response that is a header only.                                       *)
Bare ==
  /\ Ending /\ content[run.r] = <<>>
  /\ run' = [run EXCEPT !.step = "final"]
  /\ UNCHANGED <<requests, connection, history, count, freed, killed, holds>>

(* The handler ends with an error.                                         *)
Fail == Ending /\ Terminate

(* ngx_http_subrequest.  The SSI filter calls it for an include command at *)
(* the head of a chunk of the upstream's answer, before any output.        *)
Spawn ==
  LET r == run.r
      s == made + 1
  IN
  /\ run.step = "gen" /\ s \in Reqs /\ Len(content[r]) + 1 < MaxParts
  /\ data = r /\ postponed[r] # <<>> => SpawnUnflushed
  /\ made' = s
  /\ parent' = [parent EXCEPT ![s] = r]
  /\ data' = IF data = r /\ postponed[r] = <<>> THEN s ELSE data
  /\ postponed' = [postponed EXCEPT ![r] = Append(@, <<s, 0>>)]
  /\ content' = [content EXCEPT ![r] = Append(@, <<s, 0>>)]
  /\ count' = count + 1
  /\ posted' = Append(posted, s)
  /\ UNCHANGED <<done, weh, reh, up, cerror, buffered, ready, sent, run, freed,
                 killed, holds>>

(* No reference is taken.                                                  *)
Mutant_Hold ==
  /\ Ending /\ content[run.r] = <<>> /\ holds < MaxHolds
  /\ holds' = holds + 1
  /\ run' = [run EXCEPT !.step = "gen", !.owed = @ + 1]
  /\ UNCHANGED <<requests, connection, history, count, freed, killed>>

(* ngx_http_internal_redirect, ngx_http_named_location and                 *)
(* ngx_http_read_client_request_body take a reference for the caller,      *)
(* which gives it back with NGX_DONE.                                      *)
Hold ==
  /\ Ending /\ content[run.r] = <<>> /\ holds < MaxHolds
  /\ count' = count + 1 /\ holds' = holds + 1
  /\ run' = [run EXCEPT !.step = "gen", !.owed = @ + 1]
  /\ UNCHANGED <<requests, connection, history, freed, killed>>

(* ngx_http_upstream_init_request, called with the body read: the handler  *)
(* goes on when the upstream answers.                                      *)
Connect ==
  LET r == run.r IN
  /\ run.step = "gen" /\ ~up[r] /\ run.owed > 0
  /\ up' = [up EXCEPT ![r] = TRUE]
  /\ weh' = [weh EXCEPT ![r] = "upstream"] /\ reh' = [reh EXCEPT ![r] = "upstream"]
  /\ run' = [run EXCEPT !.step = "unwind"]
  /\ UNCHANGED <<made, parent, done, postponed, connection, history, count, freed,
                 killed, holds>>

(* The handler waits for more from the upstream.                           *)
Yield ==
  /\ run.step = "gen" /\ up[run.r] /\ run' = NoRun
  /\ UNCHANGED <<requests, connection, history, count, freed, killed, holds>>

(* ngx_http_upstream_finalize_request: the answer is complete, or failed.  *)
UpClose(r) ==
  /\ up[r]
  /\ \/ run.step = "gen" /\ run.r = r
     \/ run = NoRun /\ posted = <<>> /\ ~freed
  /\ up' = [up EXCEPT ![r] = FALSE]
  /\ run' = [r |-> r, step |-> "closing", owed |-> 0]
  /\ UNCHANGED <<made, parent, done, postponed, weh, reh, connection, history,
                 count, freed, killed, holds>>

-----------------------------------------------------------------------------
(* Handlers of requests *)

(* Called from the queue of posted requests or for a write event.          *)
CallWriteHandler(r) ==
  \/ /\ weh[r] = "run"      \* ngx_http_core_content_phase
     /\ run' = [r |-> r, step |-> "gen", owed |-> 0]
     /\ weh' \in {weh, [weh EXCEPT ![r] = "empty"]}
     /\ UNCHANGED <<count, freed>>
  \/ /\ weh[r] \in {"upstream", "writer", "finalizer", "empty"}
     /\ run' = CASE weh[r] = "upstream" /\ up[r] ->
                      [r |-> r, step |-> "gen", owed |-> 0]
                 [] weh[r] = "writer" -> [r |-> r, step |-> "flush", owed |-> 0]
                 [] weh[r] = "finalizer" -> [r |-> r, step |-> "final", owed |-> 0]
                 [] OTHER -> NoRun
     /\ UNCHANGED <<weh, count, freed>>
  \/ /\ weh[r] = "terminate"  \* ngx_http_terminate_handler
     /\ count' = 0 /\ freed' = TRUE
     /\ UNCHANGED <<weh, run>>

(* ngx_http_run_posted_requests *)
RunPosted ==
  /\ run = NoRun /\ ~freed /\ posted # <<>>
  /\ posted' = Tail(posted)
  /\ CallWriteHandler(Head(posted))
  /\ UNCHANGED <<made, parent, done, postponed, reh, up, data, cerror, buffered,
                 ready, history, killed, holds>>

(* ngx_http_writer *)
Flush ==
  LET r == run.r
      output == r = data /\ IF postponed[r] = <<>> THEN buffered
                            ELSE Leading(postponed[r]) # <<>>
  IN
  /\ run.step = "flush"
  /\ PostponeFilter(r, <<>>)
  /\ run' = [run EXCEPT !.step = IF output /\ cerror' THEN "failed" ELSE "wrote"]
  /\ UNCHANGED <<made, parent, done, weh, reh, up, content, count, freed, killed,
                 holds>>

Wrote ==
  LET r == run.r
      more == postponed[r] # <<>> \/ (r = Main /\ buffered)
  IN
  \/ /\ run.step = "wrote"
     /\ run' = IF more THEN NoRun ELSE [run EXCEPT !.step = "final"]
     /\ weh' = IF more THEN weh ELSE [weh EXCEPT ![r] = "empty"]
     /\ UNCHANGED <<made, parent, done, postponed, reh, up, connection, history,
                    count, freed, killed, holds>>
  \/ run.step = "failed" /\ Terminate

-----------------------------------------------------------------------------
(* Events: ngx_http_request_handler, ngx_http_upstream_handler *)

Waiting == run = NoRun /\ posted = <<>> /\ ~freed

UpstreamEvent(r) ==
  /\ Waiting /\ up[r]
  /\ run' = [r |-> r, step |-> "gen", owed |-> 0]
  /\ UNCHANGED <<requests, connection, history, count, freed, killed, holds>>

ClientWritable ==
  /\ Waiting /\ ~ready /\ ready' = TRUE
  /\ CallWriteHandler(data)
  /\ UNCHANGED <<made, parent, done, postponed, reh, up, data, posted, cerror,
                 buffered, history, killed, holds>>

(* ngx_http_test_reading and ngx_http_upstream_check_broken_connection     *)
ClientAbort ==
  /\ Waiting /\ ~cerror /\ reh[data] \in {"test", "upstream"}
  /\ cerror' = TRUE
  /\ up' = [up EXCEPT ![data] = FALSE]
  /\ run' = [r |-> data, step |-> "final", owed |-> 0]
  /\ UNCHANGED <<made, parent, done, postponed, weh, reh, data, posted, buffered,
                 ready, history, count, freed, killed, holds>>

(* The timer that ngx_http_set_write_handler has set.                      *)
SendTimeout == Waiting /\ weh[data] = "writer" /\ Terminate

Handlers == \/ Finalize \/ Unwind \/ Emit \/ SendLast \/ Bare \/ Fail \/ Spawn
            \/ Hold \/ Connect \/ Yield \/ RunPosted \/ Flush \/ Wrote

Next == \/ Handlers \/ ClientWritable \/ ClientAbort \/ SendTimeout
        \/ \E r \in Reqs : UpstreamEvent(r) \/ UpClose(r)

(* A worker does not stop in the middle of its work.  The timers of an     *)
(* upstream connection or the end of its answer close it sooner or later,  *)
(* however often other handlers run in between.  A client that does not    *)
(* read is given up after send_timeout, and what waits for one that reads  *)
(* is finite.                                                              *)
Fairness ==
  /\ WF_vars(Handlers)
  /\ WF_vars(ClientWritable \/ SendTimeout)
  /\ SF_vars(Flush /\ ~buffered')
  /\ \A r \in Reqs : SF_vars(UpClose(r))

Spec == Init /\ [][Next]_vars /\ Fairness

-----------------------------------------------------------------------------
(* Properties *)

(* The count is exact until an error cuts the request off: one reference   *)
(* for every unfinished request and one for every frame of the stack that  *)
(* will finalize with NGX_DONE.  After ngx_http_terminate_request it stays *)
(* large enough that none of these frames frees the request.               *)
CountExact ==
  /\ ~killed => count = Cardinality(Live) + run.owed
  /\ killed /\ ~freed => count >= 1 + run.owed

(* The pool of the request is not destroyed below a handler that still     *)
(* returns into it, nor while an upstream connection points to it.         *)
NoUseAfterFree == freed => run = NoRun /\ Upstreams = {}

(* Between events somebody is going to call the active request: its        *)
(* upstream, or the client whose socket is full.  Otherwise the page would *)
(* stand still with nothing wrong until send_timeout cuts it off.          *)
ActiveIsAwaited ==
  Waiting => up[data] \/ (weh[data] = "writer" /\ ~ready)

(* What the client gets of the page: see Page.                             *)
Page == INSTANCE Page WITH over <- freed, broken <- killed
PageInOrder == Page!PageSpec

(* Every request comes to an end.                                          *)
RequestEnds == <>freed

=============================================================================
