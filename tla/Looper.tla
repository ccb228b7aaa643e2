------------------------------- MODULE Looper -------------------------------
(***************************************************************************)
(* The looper of a pane (pane-app, looper.rs and looper_core.rs): one      *)
(* thread collects messages into a batch and dispatches the batch phase by *)
(* phase, calling the handler under catch_unwind; threads blocked in       *)
(* send_and_wait submit requests through a channel of their own.           *)
(*                                                                         *)
(* Abstractions.  The buckets of Batch are one sequence: nothing is added  *)
(* to it while it is dispatched, so the next event is the first one of the *)
(* lowest phase present.  Payloads, addresses and reasons are left out.    *)
(* Whether the write channel takes a frame, what a callback returns and    *)
(* when the 8 ms of a batch are over are nondeterministic.  The mpsc, the  *)
(* forwarding thread and the calloop channel are one queue, inbox.         *)
(*                                                                         *)
(* The peers and the server are the environment.  The server sends nothing *)
(* on a session it has torn down, and peers may answer a token twice.      *)
(***************************************************************************)
EXTENDS RequestDispatch, Sequences

CONSTANTS
    Opened,       \* the sessions opened during setup (ServiceHandles)
    MsgLimit,     \* DEFAULT_BATCH_MSG_LIMIT
    MaxSends,     \* bound: send_request calls of the handler
    MaxArrivals,  \* bound: messages that arrive
    Kinds         \* bound: the kinds of messages that arrive

ASSUME LooperAssumption ==
    /\ Opened \subseteq Sessions
    /\ MsgLimit \in Nat \ {0}
    /\ MaxSends \in Nat /\ MaxArrivals \in Nat

VARIABLES
    inbox, closed,         \* messages on their way, channel closed behind them
    syncq,                 \* calls whose SyncRequest is on its way
    batch, revoked,        \* Batch: buckets and revoked_sessions
    channel_closed,        \* Batch.channel_closed
    pc,                    \* collect, dispatch; stopped, crashed
    dispatched,            \* phase 5 events of this batch
    core,                  \* LooperCore: ActiveSession and Dispatch
    exits,                 \* reasons sent to exit_tx
    subs,                  \* subscribers the handler knows of
    live,                  \* sessions the server has a route for
    fresh,                 \* sessions the server may still open
    first,                 \* ghost: what settled a token first, by arrival
    sends, arrivals        \* bounds

loop == <<batch, revoked, channel_closed, pc, dispatched>>
world == <<live, fresh, first, arrivals>>
vars == <<inbox, closed, syncq, loop, core, exits, subs, world, sends>>

-----------------------------------------------------------------------------
Reply(t) == [kind |-> "Reply", token |-> t]
Failed(t) == [kind |-> "Failed", token |-> t]
Teardown(s) == [kind |-> "Teardown", session |-> s]
PaneExited == [kind |-> "PaneExited"]
Accepted(s) == [kind |-> "Accepted", session |-> s]
Lifecycle == [kind |-> "Lifecycle"]
LocalRevoke(s) == [kind |-> "LocalRevoke", session |-> s]
Request(s) == [kind |-> "Request", session |-> s]
Notification(s) == [kind |-> "Notification", session |-> s]
Sync(c) == [kind |-> "Sync", call |-> c]

Message ==
    [kind : {"Reply", "Failed"}, token : Tokens]
    \cup [kind : {"Teardown", "Accepted", "LocalRevoke", "Request",
                  "Notification"}, session : Sessions]
    \cup [kind : {"PaneExited", "Lifecycle"}]

BatchEvent == Message \cup [kind : {"Sync"}, call : Calls]

(* The order in which dispatch_batch takes the buckets.  A LocalRevoke in  *)
(* the batch is a RevokeInterest queued in ctl_writes.                     *)
MutTeardownsFirst(m) ==
    CASE m.kind = "Sync" -> 0 [] m.kind = "Reply" -> 2
      [] m.kind = "Failed" -> 3 [] m.kind = "Teardown" -> 1
      [] m.kind = "PaneExited" -> 4 [] m.kind = "Accepted" -> 5
      [] m.kind = "Lifecycle" -> 6 [] m.kind = "LocalRevoke" -> 7
      [] m.kind = "Request" -> 8 [] m.kind = "Notification" -> 9
Phase(m) ==
    CASE m.kind = "Sync" -> 0 [] m.kind = "Reply" -> 1
      [] m.kind = "Failed" -> 2 [] m.kind = "Teardown" -> 3
      [] m.kind = "PaneExited" -> 4 [] m.kind = "Accepted" -> 5
      [] m.kind = "Lifecycle" -> 6 [] m.kind = "LocalRevoke" -> 7
      [] m.kind = "Request" -> 8 [] m.kind = "Notification" -> 9

-----------------------------------------------------------------------------
Init ==
    /\ inbox = <<>> /\ closed = FALSE /\ syncq = {}
    /\ batch = <<>> /\ revoked = {} /\ channel_closed = FALSE
    /\ pc = "collect" /\ dispatched = 0
    /\ core = NewCore /\ exits = <<>>
    /\ subs = {}
    /\ live = Opened /\ fresh = Sessions \ Opened
    /\ first = [t \in Tokens |-> "none"]
    /\ sends = 0 /\ arrivals = 0

Running == pc \in {"collect", "dispatch"}

(***************************************************************************)
(* The environment                                                         *)
(***************************************************************************)

(* A message is put behind those on their way; f is the new first. *)
Arrive(m, f) ==
    /\ Running /\ ~closed /\ arrivals < MaxArrivals /\ m.kind \in Kinds
    /\ inbox' = Append(inbox, m)
    /\ arrivals' = arrivals + 1
    /\ first' = f
    /\ UNCHANGED <<closed, syncq, loop, core, exits, subs, sends>>

(* first after something that settles the tokens T has arrived. *)
FirstFor(T, how) ==
    [t \in Tokens |->
       IF t \in T /\ first[t] = "none" /\ core.outcome[t] = "pending"
         THEN how ELSE first[t]]

(* The peer of the request's session answers, or one answers once more. *)
ArriveAnswer ==
    /\ \E t \in Tokens :
          /\ t < core.next_token
          /\ core.token_sessions[t] \in live \cup {NoSession}
          /\ \/ Arrive(Reply(t), FirstFor({t}, "reply"))
             \/ Arrive(Failed(t), FirstFor({t}, "failed"))
    /\ UNCHANGED <<live, fresh>>

ArriveTeardown ==
    \E s \in live :
        /\ Arrive(Teardown(s), FirstFor(TokensForSession(core, s), "teardown"))
        /\ live' = live \ {s}
        /\ UNCHANGED fresh

ArriveAccepted ==
    \E s \in fresh :
        /\ Arrive(Accepted(s), first)
        /\ live' = live \cup {s}
        /\ fresh' = fresh \ {s}

ArriveOther ==
    /\ \/ Arrive(PaneExited, first) \/ Arrive(Lifecycle, first)
       \/ \E s \in Opened : Arrive(LocalRevoke(s), first)
       \/ \E s \in live : \/ Arrive(Request(s), first)
                          \/ Arrive(Notification(s), first)
    /\ UNCHANGED <<live, fresh>>

(* The reader thread has gone and its end of the channel with it. *)
CloseChannel ==
    /\ Running /\ ~closed
    /\ closed' = TRUE
    /\ UNCHANGED <<inbox, syncq, loop, core, exits, subs, world, sends>>

(* send_and_wait on another thread: the SyncRequest is submitted and the   *)
(* thread blocks, or the looper has gone.                                  *)
CallerSubmits(c) ==
    /\ core.caller[c] = "idle"
    /\ IF Running
         THEN /\ syncq' = syncq \cup {c}
              /\ core' = [core EXCEPT !.caller[c] = "blocked"]
         ELSE /\ core' = [core EXCEPT !.caller[c] = "disconnected"]
              /\ UNCHANGED syncq
    /\ UNCHANGED <<inbox, closed, loop, exits, subs, world, sends>>

CallerTimesOut(c) ==
    /\ core.caller[c] = "blocked"
    /\ core' = [core EXCEPT !.caller[c] = "timeout"]
    /\ UNCHANGED <<inbox, closed, syncq, loop, exits, subs, world, sends>>

(***************************************************************************)
(* The looper thread: collecting                                           *)
(***************************************************************************)

(* Batch::collect.  Only the first LocalRevoke of a session is queued. *)
MutAcceptedIgnored(m) == m.kind \notin {"LocalRevoke", "Accepted"}
Queued(m) == m.kind = "LocalRevoke" => m.session \notin revoked

Collect ==
    /\ pc = "collect" /\ inbox # <<>>
    /\ LET m == Head(inbox)
       IN  /\ batch' = IF Queued(m) THEN Append(batch, m) ELSE batch
           /\ revoked' = revoked \cup (IF m.kind = "LocalRevoke"
                                          THEN {m.session} ELSE {})
    /\ inbox' = Tail(inbox)
    /\ UNCHANGED <<closed, syncq, channel_closed, pc, dispatched, core, exits,
                   subs, world, sends>>

CollectSync ==
    /\ pc = "collect"
    /\ \E c \in syncq : syncq' = syncq \ {c} /\ batch' = Append(batch, Sync(c))
    /\ UNCHANGED <<inbox, closed, revoked, channel_closed, pc, dispatched, core,
                   exits, subs, world, sends>>

CollectClosed ==
    /\ pc = "collect" /\ closed /\ inbox = <<>> /\ ~channel_closed
    /\ channel_closed' = TRUE
    /\ UNCHANGED <<inbox, closed, syncq, batch, revoked, pc, dispatched, core,
                   exits, subs, world, sends>>

(* The polls of an iteration are over and Batch::is_empty is false. *)
MutClosedIgnored == batch = <<>>
MutRepliesOverlooked ==
    (\A i \in DOMAIN batch : batch[i].kind = "Reply") /\ ~channel_closed
IsEmpty == batch = <<>> /\ ~channel_closed

StartDispatch ==
    /\ pc = "collect" /\ ~IsEmpty
    /\ pc' = "dispatch"
    /\ UNCHANGED <<inbox, closed, syncq, batch, revoked, channel_closed,
                   dispatched, core, exits, subs, world, sends>>

(***************************************************************************)
(* The looper thread: the end                                              *)
(***************************************************************************)

(* run() returns or unwinds: LooperCore, the batch and the sync channel    *)
(* are dropped, and with them what calls are waiting for.                  *)
Waiting == syncq \cup {batch[i].call : i \in {j \in DOMAIN batch :
                                               batch[j].kind = "Sync"}}
MutCallsForgotten(d) == clear(CascadeConnection(d))
Drop(d) ==
    LET e == clear(CascadeConnection(d))
    IN  [e EXCEPT !.caller = [c \in Calls |->
            IF c \in Waiting /\ @[c] = "blocked" THEN "disconnected" ELSE @[c]]]

End(d, how, reasons) ==
    /\ core' = Drop(d)
    /\ pc' = how
    /\ exits' = exits \o reasons
    /\ batch' = <<>> /\ syncq' = {}
    /\ UNCHANGED <<inbox, closed, revoked, channel_closed, world>>

(* An on_failed closure among those of T panics where nothing catches it:  *)
(* the ones run before it, in hash order, have been run, the others not.   *)
Unwind(d, T) ==
    \E F \in SUBSET T :
        /\ \E t \in F : d.entries[t] = Handler
        /\ End(fail_tokens(d, F), "crashed", <<>>)

(* run_destruction and shutdown. *)
MutNothingFailed(d, reasons) == End(CascadeConnection(d), "stopped", reasons)
RunDestruction(d, reasons) ==
    \/ End(fail_tokens(CascadeConnection(d), AllTokens(d)), "stopped", reasons)
    \/ Unwind(CascadeConnection(d), AllTokens(d))

(***************************************************************************)
(* The looper thread: dispatching                                          *)
(***************************************************************************)

Flow == {"Continue", "Stop", "Panic"}

(* What follows a callback run under catch_unwind, with d the request      *)
(* state it left, rest the remaining batch and next where to go on.        *)
Resume(flow, d, rest, next) ==
    \/ /\ flow = "Continue"
       /\ core' = d /\ batch' = rest /\ pc' = next
       /\ UNCHANGED <<inbox, closed, syncq, revoked, channel_closed, exits,
                      world>>
    \/ flow = "Stop" /\ RunDestruction(d, <<"Graceful">>)
    \/ flow = "Panic" /\ RunDestruction(d, <<"Failed">>)

(* The event dispatch_batch takes next, and the batch without it. *)
IsNext(i) ==
    \A j \in DOMAIN batch : \/ Phase(batch[j]) > Phase(batch[i])
                            \/ Phase(batch[j]) = Phase(batch[i]) /\ j >= i
Without(i) == SubSeq(batch, 1, i - 1) \o SubSeq(batch, i + 1, Len(batch))

(* Phase 0: process_sync_request. *)
ProcessSync(i) ==
    /\ batch[i].kind = "Sync" /\ core.next_token < MaxTokens
    /\ \E s \in Opened, written \in BOOLEAN :
          Resume("Continue",
                 SendRequest(core, s, batch[i].call, written, "refused"),
                 Without(i), "dispatch")
    /\ UNCHANGED <<subs, dispatched, sends>>

(* Phase 1: dispatch_reply and dispatch_failed.  A token without entry is  *)
(* dropped; the closures of a call do not panic; a panic leaves the token  *)
(* to the cascade of run_destruction.                                      *)
Unmatched(m) == core.entries[m.token] = NoEntry

Fire(m) == IF m.kind = "Reply" THEN fire_reply(core, m.token)
                               ELSE fire_failed(core, m.token)
DispatchAnswer(i) ==
    LET m == batch[i]
        settled == RecordResolution(Fire(m), {m.token})
    IN  /\ m.kind \in {"Reply", "Failed"}
        /\ CASE Unmatched(m) ->
                   Resume("Continue", core, Without(i), "dispatch")
             [] core.entries[m.token] \in Calls ->
                   Resume("Continue", settled, Without(i), "dispatch")
             [] core.entries[m.token] = Handler ->
                   \E f \in Flow :
                      Resume(f, IF f = "Panic" THEN Fire(m) ELSE settled,
                             Without(i), "dispatch")
        /\ UNCHANGED <<subs, dispatched, sends>>

(* Phase 2: dispatch_teardown, its on_failed closures outside of any       *)
(* catch_unwind, then subscriber_disconnected().                           *)
DispatchTeardown(i) ==
    /\ batch[i].kind = "Teardown"
    /\ LET s == batch[i].session
           T == TokensForSession(core, s)
           d == CascadeSession(core, s)
       IN  \/ /\ \E f \in Flow :
                    Resume(f, fail_tokens(d, T), Without(i), "dispatch")
              /\ subs' = subs \ {s}
           \/ Unwind(d, T) /\ UNCHANGED subs
    /\ UNCHANGED <<dispatched, sends>>

(* Phase 3: pane_exited(), subscriber_connected(), lifecycle callbacks.    *)
(* Phase 4: a queued RevokeInterest is offered to the write channel.       *)
DispatchControl(i) ==
    LET m == batch[i]
    IN  /\ m.kind \in {"PaneExited", "Accepted", "Lifecycle", "LocalRevoke"}
        /\ \E f \in IF m.kind = "LocalRevoke" THEN {"Continue"} ELSE Flow :
              Resume(f, core, Without(i), "dispatch")
        /\ subs' = IF m.kind = "Accepted" THEN subs \cup {m.session} ELSE subs
        /\ UNCHANGED <<dispatched, sends>>

(* Phase 5.  Frames of revoked sessions are skipped; a handler of a        *)
(* request may send one of its own, with send_request or try_send_request; *)
(* above the cap the second refuses and the first panics.  At the limit,   *)
(* or when the time is up, the loop over a bucket ends, and with anything  *)
(* left in it the batch.                                                   *)
SkipStale(i) ==
    /\ batch[i].kind \in {"Request", "Notification"}
    /\ batch[i].session \in revoked
    /\ Resume("Continue", core, Without(i), "dispatch")
    /\ UNCHANGED <<subs, dispatched, sends>>

HasKind(b, k) == \E j \in DOMAIN b : b[j].kind = k

DispatchWork(i) ==
    LET k == batch[i].kind
    IN  /\ k \in {"Request", "Notification"}
        /\ batch[i].session \notin revoked
        /\ \E f \in Flow, over \in BOOLEAN :
              /\ dispatched + 1 >= MsgLimit => over
              /\ LET yields == over /\ HasKind(Without(i), k)
                     next == IF yields THEN "collect" ELSE "dispatch"
                 IN  /\ \/ /\ Resume(f, core, Without(i), next)
                           /\ UNCHANGED sends
                        \/ /\ k = "Request" /\ ~would_exceed_cap(core)
                           /\ sends < MaxSends /\ core.next_token < MaxTokens
                           /\ \E s \in Opened, written \in BOOLEAN,
                                 unsent \in Unsent :
                                 Resume(f, SendRequest(core, s, Handler, written,
                                                       unsent),
                                        Without(i), next)
                           /\ sends' = sends + 1
                     /\ dispatched' = IF yields THEN 0 ELSE dispatched + 1
        /\ UNCHANGED subs

DispatchNext ==
    /\ pc = "dispatch"
    /\ \E i \in DOMAIN batch :
          /\ IsNext(i)
          /\ \/ ProcessSync(i) \/ DispatchAnswer(i) \/ DispatchTeardown(i)
             \/ DispatchControl(i) \/ SkipStale(i) \/ DispatchWork(i)

(* The batch is empty: back to polling, or, when the channel has closed,   *)
(* connection_lost(), which notifies twice when disconnected() stops.      *)
EndBatch ==
    /\ pc = "dispatch" /\ batch = <<>> /\ ~channel_closed
    /\ pc' = "collect" /\ dispatched' = 0
    /\ UNCHANGED <<inbox, closed, syncq, batch, revoked, channel_closed, core,
                   exits, subs, world, sends>>

ConnectionLost ==
    /\ pc = "dispatch" /\ batch = <<>> /\ channel_closed
    /\ \E r \in {<<"Disconnected">>, <<"Graceful", "Disconnected">>,
                  <<"Failed">>} : RunDestruction(core, r)
    /\ UNCHANGED <<subs, dispatched, sends>>

(* event_loop.dispatch fails. *)
InfraFailure ==
    /\ pc = "collect"
    /\ RunDestruction(core, <<"InfraError">>)
    /\ UNCHANGED <<subs, dispatched, sends>>

LooperThread ==
    \/ Collect \/ CollectSync \/ CollectClosed \/ StartDispatch
    \/ DispatchNext \/ EndBatch \/ ConnectionLost

Next ==
    \/ LooperThread \/ InfraFailure
    \/ ArriveAnswer \/ ArriveTeardown \/ ArriveAccepted \/ ArriveOther
    \/ CloseChannel
    \/ \E c \in Calls : CallerSubmits(c) \/ CallerTimesOut(c)

Spec == Init /\ [][Next]_vars

(* The looper thread runs whenever it can.  Nothing is assumed of callers, *)
(* whose timeouts are arbitrary, nor of peers.                             *)
FairSpec == Spec /\ WF_vars(LooperThread)

-----------------------------------------------------------------------------
(* The batch holds events, the tables tokens and sessions of this          *)
(* connection, and every send_and_wait call is in a state of its own.      *)
TypeOK ==
    /\ inbox \in Seq(Message) /\ closed \in BOOLEAN
    /\ syncq \subseteq Calls
    /\ batch \in Seq(BatchEvent) /\ revoked \subseteq Sessions
    /\ channel_closed \in BOOLEAN
    /\ pc \in {"collect", "dispatch", "stopped", "crashed"}
    /\ dispatched \in Nat /\ sends \in 0..MaxSends
    /\ core \in Core
    /\ exits \in Seq({"Graceful", "Failed", "Disconnected", "InfraError"})
    /\ subs \subseteq Sessions /\ live \subseteq Sessions
    /\ fresh \subseteq Sessions
    /\ first \in [Tokens -> {"none", "reply", "failed", "teardown"}]
    /\ arrivals \in 0..MaxArrivals

(* Between steps the callback table of Dispatch, the token map of the      *)
(* correlator and the outstanding count of the cap describe the same       *)
(* requests, whatever replies, failures, teardowns, refused writes, panics *)
(* and exits came in between.                                              *)
TablesAgree == Agree(core)

(* No request is settled twice, what its sender was told stands, and one   *)
(* that was written is never silently taken back: Dispatch removes an      *)
(* entry before it runs a closure, and cancel only takes the entry of the  *)
(* call that is just failing to write.                                     *)
Abstract == INSTANCE Requests WITH outcome <- core.outcome
SettledOnce == Abstract!Spec

(* When run() has returned, no request that was written is left hanging:   *)
(* its on_reply or on_failed has run, it was not dropped with the table.   *)
(* A request that was not written has failed at its sender, except that    *)
(* send_request, having no error to return, runs neither closure for it.   *)
ExitSettles ==
    pc = "stopped" =>
        \A t \in Tokens : core.outcome[t] \notin {"pending", "dropped"}

(* A thread blocked in send_and_wait is one whose sender half is still     *)
(* somewhere: on its way, in the batch or in the callback table.  So none  *)
(* is blocked once run() has returned or unwound.                          *)
Blocked(c) == core.caller[c] = "blocked"
NoCallStranded ==
    \A c \in Calls :
        Blocked(c) => c \in Waiting \/ \E t \in Tokens : core.entries[t] = c

(* S3: a request whose reply arrived before its failure or the teardown of *)
(* its session is told of the reply, not of a failure, while the looper    *)
(* runs; the phases of a batch never let a later teardown overtake it.     *)
EarlierReplyWins ==
    Running => \A t \in Tokens : first[t] = "reply" => core.outcome[t] # "failed"

(* A session the server has a route for, and whose announcement is no      *)
(* longer on its way, is one the handler has been told of.                 *)
Announced(s) == \A b \in {inbox, batch} : Accepted(s) \notin {b[i] : i \in DOMAIN b}
SubscribersKnown ==
    Running => \A s \in live \ Opened : Announced(s) => s \in subs

(* A subscriber the handler counts as connected is one the server still    *)
(* has a route for, unless its teardown is on its way.  Violated: an       *)
(* InterestAccepted and the ServiceTeardown of its session in one batch    *)
(* are dispatched in the other order.                                      *)
TornDown(s) == \E b \in {inbox, batch} : Teardown(s) \in {b[i] : i \in DOMAIN b}
SubscribersCurrent == Running => \A s \in subs : s \in live \/ TornDown(s)

(* A closed channel ends the looper, however much of phase 5 is left and   *)
(* however often it yields.                                                *)
CloseEnds == closed ~> ~Running

(* A request whose answer has arrived is settled: no yield, leftover or    *)
(* exit loses it.                                                          *)
AnsweredSettles ==
    \A t \in Tokens : (first[t] \in {"reply", "failed"})
                         ~> (core.outcome[t] \notin {"none", "pending"})
=============================================================================
