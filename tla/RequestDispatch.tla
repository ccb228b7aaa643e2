-------------------------- MODULE RequestDispatch ---------------------------
(***************************************************************************)
(* The request state of one looper, as operators on a record: the          *)
(* RequestCorrelator and the failure cascades of ActiveSession             *)
(* (pane-session) and the callback table Dispatch<H> (pane-app).  Tokens   *)
(* are the numbers allocate_token hands out; an absent map entry is        *)
(* NoSession or NoEntry.                                                   *)
(*                                                                         *)
(* An entry is the party its two closures report to: the handler (an entry *)
(* of send_request) or a blocked send_and_wait call.  outcome is a ghost:  *)
(* what became of the request, "again" if its party was told twice.  A     *)
(* request whose frame the write channel did not take is "refused" when    *)
(* its sender learns so, and "forgotten" when nobody does.                 *)
(***************************************************************************)
EXTENDS Naturals, FiniteSets

CONSTANTS
    Sessions,    \* session ids of this connection
    Calls,       \* send_and_wait calls of other threads
    MaxTokens,   \* bound: requests ever issued
    RequestCap,  \* max_outstanding_requests, 0 for no cap
    Handler,     \* the party of a send_request entry
    NoSession, NoEntry

ASSUME DispatchAssumption ==
    /\ MaxTokens \in Nat /\ RequestCap \in Nat
    /\ Handler \notin Calls /\ NoEntry \notin Calls \cup {Handler}
    /\ NoSession \notin Sessions

Tokens == 0..(MaxTokens - 1)

Outcome == {"none", "pending", "replied", "failed", "refused", "forgotten",
            "dropped", "again"}
Unsent == {"refused", "forgotten"}
CallState == {"idle", "blocked", "replied", "failed", "disconnected",
              "timeout"}

Core == [next_token : 0..MaxTokens,
         outstanding : Nat,
         token_sessions : [Tokens -> Sessions \cup {NoSession}],
         entries : [Tokens -> Calls \cup {Handler, NoEntry}],
         outcome : [Tokens -> Outcome],
         caller : [Calls -> CallState]]

NewCore == [next_token |-> 0,
            outstanding |-> 0,
            token_sessions |-> [t \in Tokens |-> NoSession],
            entries |-> [t \in Tokens |-> NoEntry],
            outcome |-> [t \in Tokens |-> "none"],
            caller |-> [c \in Calls |-> "idle"]]

-----------------------------------------------------------------------------
(* RequestCorrelator *)

would_exceed_cap(d) == RequestCap > 0 /\ d.outstanding >= RequestCap

(* allocate_token, and the entry DispatchCtx::insert puts under the token. *)
Insert(d, s, party) ==
    [d EXCEPT !.next_token = @ + 1,
              !.outstanding = @ + 1,
              !.token_sessions[d.next_token] = s,
              !.entries[d.next_token] = party,
              !.outcome[d.next_token] = "pending"]

(* record_resolution, for each of a set of tokens; the count saturates. *)
MutCountKept(d, T) ==
    [d EXCEPT !.token_sessions =
                  [t \in Tokens |-> IF t \in T THEN NoSession ELSE @[t]]]
RecordResolution(d, T) ==
    [d EXCEPT !.token_sessions =
                  [t \in Tokens |-> IF t \in T THEN NoSession ELSE @[t]],
              !.outstanding = IF @ >= Cardinality(T) THEN @ - Cardinality(T)
                                                      ELSE 0]

TokensForSession(d, s) == {t \in Tokens : d.token_sessions[t] = s}
AllTokens(d) == {t \in Tokens : d.token_sessions[t] # NoSession}

(* cascade_session_failure and cascade_connection_failure leave the tokens *)
(* of their TeardownSet, TokensForSession(d, s) or AllTokens(d), out of    *)
(* the correlator.                                                         *)
CascadeSession(d, s) == RecordResolution(d, TokensForSession(d, s))
CascadeConnection(d) ==
    [d EXCEPT !.token_sessions = [t \in Tokens |-> NoSession],
              !.outstanding = 0]

-----------------------------------------------------------------------------
(* Dispatch<H>: entries are taken out of the table and their parties told. *)
(* A call whose entry is dropped without an answer sees its channel closed. *)

MutRefusalReported(how) == IF how = "dropped" THEN "disconnected" ELSE how
Answer(how) == IF how \in {"replied", "failed"} THEN how ELSE "disconnected"

MutEntryKept(d, T, how) ==
    [d EXCEPT !.outcome =
                  [t \in Tokens |->
                     IF t \in T /\ d.entries[t] # NoEntry
                       THEN IF @[t] = "pending" THEN how ELSE "again"
                       ELSE @[t]]]
Tell(d, T, how) ==
    [d EXCEPT !.entries =
                  [t \in Tokens |-> IF t \in T THEN NoEntry ELSE @[t]],
              !.outcome =
                  [t \in Tokens |->
                     IF t \in T /\ d.entries[t] # NoEntry
                       THEN IF @[t] = "pending" THEN how ELSE "again"
                       ELSE @[t]],
              !.caller =
                  [c \in Calls |->
                     IF @[c] = "blocked" /\ \E t \in T : d.entries[t] = c
                       THEN Answer(how) ELSE @[c]]]

fire_reply(d, t) == Tell(d, {t}, "replied")
fire_failed(d, t) == Tell(d, {t}, "failed")
cancel(d, t, how) == Tell(d, {t}, how)
fail_tokens(d, T) == Tell(d, T, "failed")
clear(d) == Tell(d, Tokens, "dropped")

-----------------------------------------------------------------------------
(* Requests *)

(* ServiceHandle::send_request and try_send_request below the cap, and     *)
(* process_sync_request: the entry is installed, then the frame is offered *)
(* to the write channel.  When that does not take it the entry is taken    *)
(* back, unsent: try_send_request returns an error and the sync call sees  *)
(* its channel close ("refused"), send_request says nothing ("forgotten"). *)
SendRequest(d, s, party, written, unsent) ==
    LET e == Insert(d, s, party)
        t == d.next_token
    IN  IF written THEN e ELSE RecordResolution(cancel(e, t, unsent), {t})

-----------------------------------------------------------------------------
(* The callback table and the correlator describe the same requests, and   *)
(* these are the ones nobody has been told of; the count that the cap is   *)
(* compared with is their number; no token past next_token was issued.     *)
Agree(d) ==
    /\ \A t \in Tokens :
          /\ (d.entries[t] # NoEntry) <=> (d.token_sessions[t] # NoSession)
          /\ (d.entries[t] # NoEntry) <=> (d.outcome[t] = "pending")
          /\ (t >= d.next_token) => (d.outcome[t] = "none")
    /\ d.outstanding = Cardinality(AllTokens(d))
=============================================================================
