---------------------------- MODULE LooperProofs ----------------------------
(***************************************************************************)
(* Proofs about Looper, for every number of sessions, calls and requests:  *)
(* the request tables agree, every request is settled once, none is left   *)
(* hanging by an exit, no send_and_wait call is stranded, a reply that     *)
(* came first is delivered, and a subscriber is known by its session.      *)
(*                                                                         *)
(* First what the operators on the request record preserve.  Sound is what *)
(* every request record satisfies, also between the calls of one handler:  *)
(* the entries of the callback table are the requests nobody has been told *)
(* of.  Covered says that a cascade over the correlator misses none.       *)
(***************************************************************************)
EXTENDS Looper, FiniteSetTheorems, TLAPS

Sound(d) ==
    /\ d \in Core
    /\ \A t \in Tokens :
          /\ (d.entries[t] # NoEntry) <=> (d.outcome[t] = "pending")
          /\ (t >= d.next_token) => (d.outcome[t] = "none")
          /\ d.outcome[t] # "again"

Covered(d) ==
    \A t \in Tokens : d.entries[t] # NoEntry => d.token_sessions[t] # NoSession

Counted(d) == d.outstanding = Cardinality(AllTokens(d))

(* No party of d is told of two results on the way to e. *)
Leads(d, e) == \A t \in Tokens : Abstract!Advance(d.outcome[t], e.outcome[t])

(* A call blocked in e that has no entry there was blocked and without an  *)
(* entry in d.                                                             *)
Kept(d, e) ==
    \A c \in Calls :
        (e.caller[c] = "blocked" /\ \A t \in Tokens : e.entries[t] # c)
            => (d.caller[c] = "blocked" /\ \A t \in Tokens : d.entries[t] # c)

Undropped(d) == \A t \in Tokens : d.outcome[t] # "dropped"

Party == Calls \cup {Handler}

-----------------------------------------------------------------------------
(* Only finitely many tokens are ever issued. *)
LEMMA TokensFinite == IsFiniteSet(Tokens) /\ Tokens \subseteq Nat
  BY FS_Interval, DispatchAssumption DEF Tokens

(* Telling in two stages is telling once. *)
LEMMA LeadsTransitive ==
  ASSUME NEW d, NEW e, NEW g, Leads(d, e), Leads(e, g)
  PROVE  Leads(d, g)
  BY Zenon DEF Leads, Abstract!Advance, Abstract!Ended, Abstract!Unsent

(* A record that does not change tells nobody anything. *)
LEMMA LeadsSame == ASSUME NEW d PROVE Leads(d, d)
  BY Zenon DEF Leads, Abstract!Advance

(* What two operators in a row keep. *)
LEMMA KeptTransitive ==
  ASSUME NEW d, NEW e, NEW g, Kept(d, e), Kept(e, g)
  PROVE  Kept(d, g)
  BY Zenon DEF Kept

(* The fields of a record, one by one: what the operators leave alone. *)
LEMMA CoreFields ==
  ASSUME NEW d \in Core
  PROVE  /\ d.next_token \in 0..MaxTokens /\ d.outstanding \in Nat
         /\ d.token_sessions \in [Tokens -> Sessions \cup {NoSession}]
         /\ d.entries \in [Tokens -> Calls \cup {Handler, NoEntry}]
         /\ d.outcome \in [Tokens -> Outcome]
         /\ d.caller \in [Calls -> CallState]
  BY Zenon DEF Core

(* allocate_token and Dispatch::insert, field by field. *)
LEMMA InsertFields ==
  ASSUME NEW d \in Core, NEW s \in Sessions, NEW p \in Party,
         d.next_token \in Tokens
  PROVE  LET e == Insert(d, s, p)
         IN  /\ e \in Core
             /\ e.next_token = d.next_token + 1
             /\ e.outstanding = d.outstanding + 1
             /\ \A t \in Tokens :
                   /\ e.token_sessions[t] = IF t = d.next_token THEN s
                                            ELSE d.token_sessions[t]
                   /\ e.entries[t] = IF t = d.next_token THEN p
                                     ELSE d.entries[t]
                   /\ e.outcome[t] = IF t = d.next_token THEN "pending"
                                     ELSE d.outcome[t]
             /\ e.caller = d.caller
  <1> DEFINE n == d.next_token
             ts == [d.token_sessions EXCEPT ![n] = s]
             en == [d.entries EXCEPT ![n] = p]
             oc == [d.outcome EXCEPT ![n] = "pending"]
  <1>1. n + 1 \in 0..MaxTokens /\ d.outstanding + 1 \in Nat
    BY DispatchAssumption, CoreFields, SMTT(30) DEF Tokens
  <1>2. ts \in [Tokens -> Sessions \cup {NoSession}]
    BY CoreFields, Zenon
  <1>3. en \in [Tokens -> Calls \cup {Handler, NoEntry}]
    BY CoreFields, Zenon DEF Party
  <1>4. oc \in [Tokens -> Outcome]
    BY CoreFields, Zenon DEF Outcome
  <1>5. \A t \in Tokens :
           /\ ts[t] = IF t = n THEN s ELSE d.token_sessions[t]
           /\ en[t] = IF t = n THEN p ELSE d.entries[t]
           /\ oc[t] = IF t = n THEN "pending" ELSE d.outcome[t]
    BY CoreFields, Zenon
  <1>6. Insert(d, s, p) = [d EXCEPT !.next_token = n + 1,
                                    !.outstanding = d.outstanding + 1,
                                    !.token_sessions = ts, !.entries = en,
                                    !.outcome = oc]
    BY Zenon DEF Insert, Core
  <1> DEFINE e == Insert(d, s, p)
  <1> HIDE DEF ts, en, oc, e
  <1>7. /\ e \in Core /\ e.next_token = n + 1
        /\ e.outstanding = d.outstanding + 1 /\ e.token_sessions = ts
        /\ e.entries = en /\ e.outcome = oc /\ e.caller = d.caller
    <2>1. e = [d EXCEPT !.next_token = n + 1, !.outstanding = d.outstanding + 1,
                        !.token_sessions = ts, !.entries = en, !.outcome = oc]
      BY <1>6, Zenon DEF e
    <2> QED
      BY <1>1, <1>2, <1>3, <1>4, <2>1, Zenon DEF Core
  <1> QED
    BY <1>5, <1>7, Zenon DEF e

(* The count after a resolution. *)
Less(n, k) == IF n >= k THEN n - k ELSE 0

(* e is d with the tokens of T resolved, field by field. *)
Resolved(d, T, e) ==
    /\ e \in Core
    /\ e.next_token = d.next_token
    /\ e.outstanding = Less(d.outstanding, Cardinality(T))
    /\ \A t \in Tokens :
          e.token_sessions[t] = IF t \in T THEN NoSession
                                ELSE d.token_sessions[t]
    /\ e.entries = d.entries /\ e.outcome = d.outcome
    /\ e.caller = d.caller

(* What record_resolution returns. *)
LEMMA ResolutionFields ==
  ASSUME NEW d \in Core, NEW T \in SUBSET Tokens
  PROVE  Resolved(d, T, RecordResolution(d, T))
  <1>1. Cardinality(T) \in Nat
    BY TokensFinite, FS_Subset, FS_CardinalityType, Zenon
  <1>2. Less(d.outstanding, Cardinality(T)) \in Nat
    BY <1>1, CoreFields DEF Less
  <1> QED
    BY <1>2, CoreFields, Zenon DEF Resolved, RecordResolution, Core, Less

(* cascade_connection_failure, field by field. *)
LEMMA CascadeFields ==
  ASSUME NEW d \in Core
  PROVE  LET e == CascadeConnection(d)
         IN  /\ e \in Core
             /\ e.next_token = d.next_token
             /\ e.outstanding = 0
             /\ \A t \in Tokens : e.token_sessions[t] = NoSession
             /\ e.entries = d.entries /\ e.outcome = d.outcome
             /\ e.caller = d.caller
  BY CoreFields, Zenon DEF CascadeConnection, Core

(* e is d with the entries of T taken out of the callback table and their  *)
(* parties told, field by field.                                           *)
Taken(d, T, how, e) ==
    /\ e \in Core
    /\ e.next_token = d.next_token
    /\ e.outstanding = d.outstanding
    /\ e.token_sessions = d.token_sessions
    /\ \A t \in Tokens :
          /\ e.entries[t] = IF t \in T THEN NoEntry ELSE d.entries[t]
          /\ e.outcome[t] = IF t \in T /\ d.entries[t] # NoEntry
                              THEN IF d.outcome[t] = "pending"
                                     THEN how ELSE "again"
                              ELSE d.outcome[t]
    /\ \A c \in Calls :
          e.caller[c] = IF d.caller[c] = "blocked"
                             /\ \E t \in T : d.entries[t] = c
                          THEN Answer(how) ELSE d.caller[c]

How == {"replied", "failed", "refused", "forgotten", "dropped"}

(* What the closures of Dispatch leave behind. *)
LEMMA TellFields ==
  ASSUME NEW d \in Core, NEW T \in SUBSET Tokens, NEW how \in How
  PROVE  Taken(d, T, how, Tell(d, T, how))
  <1>1. Answer(how) \in CallState
    BY Zenon DEF Answer, CallState, How
  <1> QED
    BY <1>1, CoreFields, Zenon DEF Taken, Tell, Core, Outcome, How

-----------------------------------------------------------------------------
(* What the compound operators make of a sound record. *)

(* An entry is removed before its party is told, so nobody is told twice. *)
LEMMA TellSound ==
  ASSUME NEW d, Sound(d), NEW T \in SUBSET Tokens, NEW how \in How
  PROVE  LET e == Tell(d, T, how)
         IN  /\ Sound(e) /\ Kept(d, e)
             /\ how \in {"replied", "failed", "dropped"} => Leads(d, e)
             /\ Covered(d) => Covered(e)
             /\ how # "dropped" /\ Undropped(d) => Undropped(e)
             /\ \A t \in T : e.outcome[t] # "pending"
  <1> DEFINE e == Tell(d, T, how)
  <1>0. d \in Core
    BY Zenon DEF Sound
  <1>u. Taken(d, T, how, e)
    BY <1>0, TellFields, Zenon
  <1> HIDE DEF e
  <1>1. /\ e \in Core /\ e.next_token = d.next_token
        /\ e.token_sessions = d.token_sessions
        /\ \A t \in Tokens :
              /\ e.entries[t] = IF t \in T THEN NoEntry ELSE d.entries[t]
              /\ e.outcome[t] = IF t \in T /\ d.entries[t] # NoEntry
                                  THEN IF d.outcome[t] = "pending"
                                         THEN how ELSE "again"
                                  ELSE d.outcome[t]
        /\ \A c \in Calls :
              e.caller[c] = IF d.caller[c] = "blocked"
                                 /\ \E t \in T : d.entries[t] = c
                              THEN Answer(how) ELSE d.caller[c]
    BY <1>u, Zenon DEF Taken
  <1>2. \A t \in Tokens : e.outcome[t] = IF t \in T /\ d.outcome[t] = "pending"
                                            THEN how ELSE d.outcome[t]
    BY <1>1, Zenon DEF Sound
  <1>3. Sound(e)
    BY <1>1, <1>2, Zenon DEF Sound, How
  <1>4. how \in {"replied", "failed", "dropped"} => Leads(d, e)
    BY <1>2, Zenon DEF Leads, Abstract!Advance, Abstract!Ended
  <1>5. Answer(how) # "blocked"
    BY Zenon DEF Answer
  <1>6. Kept(d, e)
    BY <1>1, <1>5, Zenon DEF Kept
  <1>7. Covered(d) => Covered(e)
    BY <1>1, Zenon DEF Covered
  <1>8. (how # "dropped" /\ Undropped(d)) => Undropped(e)
    BY <1>2, Zenon DEF Undropped
  <1>9. \A t \in T : e.outcome[t] # "pending"
    BY <1>2, Zenon DEF How
  <1> QED
    BY <1>3, <1>4, <1>6, <1>7, <1>8, <1>9, Zenon DEF e

(* A resolution of tokens that the correlator holds keeps its count exact. *)
LEMMA ResolutionCounted ==
  ASSUME NEW d \in Core, Counted(d), NEW T \in SUBSET AllTokens(d)
  PROVE  Counted(RecordResolution(d, T))
  <1> DEFINE e == RecordResolution(d, T)
             A == AllTokens(d)
  <1>1. A \subseteq Tokens /\ T \subseteq Tokens /\ IsFiniteSet(A)
    BY TokensFinite, FS_Subset, Zenon DEF AllTokens
  <1>r. Resolved(d, T, e)
    BY <1>1, ResolutionFields, Zenon
  <1> HIDE DEF e
  <1>2. AllTokens(e) = A \ T
    BY <1>1, <1>r, Zenon DEF Resolved, AllTokens
  <1>3. Cardinality(A \ T) = Cardinality(A) - Cardinality(A \cap T)
    BY <1>1, FS_Difference, Zenon
  <1>4. A \cap T = T
    BY Zenon
  <1>5. Cardinality(A) \in Nat /\ Cardinality(T) \in Nat
        /\ Cardinality(T) <= Cardinality(A)
    BY <1>1, FS_Subset, FS_CardinalityType, Zenon
  <1>6. e.outstanding = Less(d.outstanding, Cardinality(T))
    BY <1>r, Zenon DEF Resolved
  <1>7. d.outstanding = Cardinality(A)
    BY Zenon DEF Counted
  <1> HIDE DEF A
  <1>8. e.outstanding = Cardinality(A) - Cardinality(T)
    BY <1>5, <1>6, <1>7, Zenon DEF Less
  <1>9. e.outstanding = Cardinality(AllTokens(e))
    BY <1>2, <1>3, <1>4, <1>8, Zenon
  <1> QED
    BY <1>9, Zenon DEF Counted, e

(* A record between two steps of the looper. *)
Good(d) == /\ d \in Core /\ Agree(d)
           /\ \A t \in Tokens : d.outcome[t] # "again"

Matched(d) ==
    \A t \in Tokens : (d.entries[t] # NoEntry) <=> (d.token_sessions[t] # NoSession)

(* Agreement of the tables, in the parts the lemmas handle one by one. *)
LEMMA GoodIff ==
  ASSUME NEW d
  PROVE  Good(d) <=> (Sound(d) /\ Matched(d) /\ Counted(d))
  BY Zenon DEF Good, Agree, Sound, Matched, Counted

(* When the tables agree a cascade reaches every entry. *)
LEMMA GoodCovered == ASSUME NEW d, Good(d) PROVE Covered(d)
  BY Zenon DEF Good, Agree, Covered

(* record_resolution does not touch the callback table. *)
LEMMA ResolutionSound ==
  ASSUME NEW d, Sound(d), NEW T \in SUBSET Tokens
  PROVE  LET e == RecordResolution(d, T)
         IN  /\ Sound(e) /\ Leads(d, e) /\ Kept(d, e)
             /\ Undropped(d) => Undropped(e)
  <1> DEFINE e == RecordResolution(d, T)
  <1>0. d \in Core
    BY Zenon DEF Sound
  <1>r. Resolved(d, T, e)
    BY <1>0, ResolutionFields, Zenon
  <1> HIDE DEF e
  <1>1. /\ e \in Core /\ e.next_token = d.next_token
        /\ e.entries = d.entries /\ e.outcome = d.outcome
        /\ e.caller = d.caller
    BY <1>r, Zenon DEF Resolved
  <1>2. Sound(e) /\ Leads(d, e) /\ Kept(d, e)
    BY <1>1, Zenon DEF Sound, Leads, Kept, Abstract!Advance
  <1>3. Undropped(d) => Undropped(e)
    BY <1>1, Zenon DEF Undropped
  <1> QED
    BY <1>2, <1>3, Zenon DEF e

(* Telling the party of one request and resolving its token, in either     *)
(* order of the two for a set of tokens: dispatch_reply, dispatch_failed,  *)
(* cancel and dispatch_teardown.                                           *)
LEMMA SettleGood ==
  ASSUME NEW d, Good(d), NEW T \in SUBSET AllTokens(d),
         NEW how \in How \ {"dropped"}
  PROVE  LET e == RecordResolution(Tell(d, T, how), T)
         IN  /\ Good(e) /\ Kept(d, e)
             /\ how \in {"replied", "failed"} => Leads(d, e)
             /\ Undropped(d) => Undropped(e)
  <1> DEFINE f == Tell(d, T, how)
             e == RecordResolution(f, T)
  <1>0. T \in SUBSET Tokens
    BY Zenon DEF AllTokens
  <1>1. Sound(d) /\ Matched(d) /\ Counted(d) /\ d \in Core
    BY GoodIff, Zenon DEF Good
  <1>2. /\ Sound(f) /\ Kept(d, f)
        /\ how \in {"replied", "failed"} => Leads(d, f)
        /\ Undropped(d) => Undropped(f)
    BY <1>0, <1>1, TellSound, Zenon
  <1>u. Taken(d, T, how, f)
    BY <1>0, <1>1, TellFields, Zenon
  <1> HIDE DEF f
  <1>3. /\ f \in Core /\ f.token_sessions = d.token_sessions
        /\ f.outstanding = d.outstanding
        /\ \A t \in Tokens :
              f.entries[t] = IF t \in T THEN NoEntry ELSE d.entries[t]
    BY <1>u, Zenon DEF Taken
  <1>4. AllTokens(f) = AllTokens(d) /\ Counted(f)
    BY <1>1, <1>3, Zenon DEF AllTokens, Counted
  <1>5. Counted(e)
    BY <1>3, <1>4, ResolutionCounted, Zenon
  <1>r. Resolved(f, T, e)
    BY <1>0, <1>3, ResolutionFields, Zenon
  <1>6. /\ e.entries = f.entries
        /\ \A t \in Tokens :
              e.token_sessions[t] = IF t \in T THEN NoSession
                                    ELSE f.token_sessions[t]
    BY <1>r, Zenon DEF Resolved
  <1>7. /\ Sound(e) /\ Leads(f, e) /\ Kept(f, e)
        /\ Undropped(f) => Undropped(e)
    BY <1>0, <1>2, ResolutionSound, Zenon
  <1> HIDE DEF e
  <1>8. Matched(e)
    BY <1>1, <1>3, <1>6, Zenon DEF Matched
  <1>9. Good(e)
    BY <1>5, <1>7, <1>8, GoodIff, Zenon
  <1>10. /\ Kept(d, e)
         /\ how \in {"replied", "failed"} => Leads(d, e)
    BY <1>2, <1>7, LeadsTransitive, KeptTransitive, Zenon
  <1> QED
    BY <1>2, <1>7, <1>9, <1>10, Zenon DEF e, f

(* dispatch_teardown resolves first and tells afterwards: no difference. *)
LEMMA SettleCommutes ==
  ASSUME NEW d \in Core, NEW T \in SUBSET Tokens, NEW how
  PROVE  Tell(RecordResolution(d, T), T, how)
             = RecordResolution(Tell(d, T, how), T)
  <1> DEFINE ts == [t \in Tokens |-> IF t \in T THEN NoSession
                                     ELSE d.token_sessions[t]]
             k == IF d.outstanding >= Cardinality(T)
                    THEN d.outstanding - Cardinality(T) ELSE 0
             en == [t \in Tokens |-> IF t \in T THEN NoEntry ELSE d.entries[t]]
             oc == [t \in Tokens |->
                      IF t \in T /\ d.entries[t] # NoEntry
                        THEN IF d.outcome[t] = "pending" THEN how ELSE "again"
                        ELSE d.outcome[t]]
             ca == [c \in Calls |->
                      IF d.caller[c] = "blocked"
                           /\ \E t \in T : d.entries[t] = c
                        THEN Answer(how) ELSE d.caller[c]]
             r == [d EXCEPT !.token_sessions = ts, !.outstanding = k]
             f == [d EXCEPT !.entries = en, !.outcome = oc, !.caller = ca]
  <1>1. RecordResolution(d, T) = r
    BY Zenon DEF RecordResolution
  <1>2. Tell(d, T, how) = f
    BY Zenon DEF Tell
  <1> HIDE DEF ts, k, en, oc, ca
  <1>3. /\ r.entries = d.entries /\ r.outcome = d.outcome
        /\ r.caller = d.caller
    BY Zenon DEF Core
  <1>4. /\ f.token_sessions = d.token_sessions
        /\ f.outstanding = d.outstanding
    BY Zenon DEF Core
  <1>5. [r EXCEPT !.entries = en, !.outcome = oc, !.caller = ca]
          = [f EXCEPT !.token_sessions = ts, !.outstanding = k]
    BY Zenon DEF Core
  <1> HIDE DEF r, f
  <1>6. Tell(r, T, how) = [r EXCEPT !.entries = en, !.outcome = oc, !.caller = ca]
    BY <1>3 DEF Tell, en, oc, ca
  <1>7. RecordResolution(f, T)
          = [f EXCEPT !.token_sessions = ts, !.outstanding = k]
    BY <1>4, Zenon DEF RecordResolution, ts, k
  <1> QED
    BY <1>1, <1>2, <1>5, <1>6, <1>7, Zenon

(* cascade_connection_failure does not touch the callback table. *)
LEMMA CascadeSound ==
  ASSUME NEW d, Sound(d)
  PROVE  LET e == CascadeConnection(d)
         IN  /\ Sound(e) /\ Leads(d, e) /\ Kept(d, e)
             /\ Undropped(d) => Undropped(e)
  <1> DEFINE e == CascadeConnection(d)
  <1>1. /\ e \in Core /\ e.next_token = d.next_token
        /\ e.entries = d.entries /\ e.outcome = d.outcome
        /\ e.caller = d.caller
    BY CascadeFields, Zenon DEF Sound
  <1> HIDE DEF e
  <1>2. Sound(e) /\ Leads(d, e) /\ Kept(d, e)
    BY <1>1, Zenon DEF Sound, Leads, Kept, Abstract!Advance
  <1>3. Undropped(d) => Undropped(e)
    BY <1>1, Zenon DEF Undropped
  <1> QED
    BY <1>2, <1>3, Zenon DEF e

(* A new request is counted, and a call whose request is written has an    *)
(* entry; one whose frame is refused is told so.                           *)
LEMMA InsertGood ==
  ASSUME NEW d, Good(d), NEW s \in Sessions, NEW p \in Party,
         d.next_token \in Tokens
  PROVE  LET e == Insert(d, s, p)
         IN  /\ Good(e) /\ Leads(d, e) /\ Kept(d, e)
             /\ Undropped(d) => Undropped(e)
             /\ e.entries[d.next_token] = p
             /\ d.next_token \in AllTokens(e)
  <1> DEFINE n == d.next_token
             e == Insert(d, s, p)
  <1>1. Sound(d) /\ Matched(d) /\ Counted(d) /\ d \in Core
    BY GoodIff, Zenon DEF Good
  <1>2. /\ e \in Core /\ e.next_token = n + 1
        /\ e.outstanding = d.outstanding + 1
        /\ \A t \in Tokens :
              /\ e.token_sessions[t] = IF t = n THEN s ELSE d.token_sessions[t]
              /\ e.entries[t] = IF t = n THEN p ELSE d.entries[t]
              /\ e.outcome[t] = IF t = n THEN "pending" ELSE d.outcome[t]
        /\ e.caller = d.caller
    BY <1>1, InsertFields
  <1>d. n \in Tokens /\ n \in Nat
    BY TokensFinite, Zenon
  <1>a. n \in Tokens /\ n \in Nat /\ n >= d.next_token
    BY <1>d
  <1>b. d.outcome[n] = "none"
    BY <1>1, <1>a, Zenon DEF Sound
  <1>3. d.outcome[n] = "none" /\ d.entries[n] = NoEntry
        /\ d.token_sessions[n] = NoSession /\ n \in Tokens /\ n \in Nat
    BY <1>1, <1>a, <1>b, Zenon DEF Sound, Matched
  <1>4. s # NoSession /\ p # NoEntry
    BY DispatchAssumption, Zenon DEF Party
  <1> HIDE DEF e, n
  <1>c. \A t \in Tokens : t >= n + 1 => t # n /\ t >= d.next_token
    BY <1>3, TokensFinite, SMTT(30) DEF n
  <1>5. Sound(e)
    BY <1>1, <1>2, <1>4, <1>c, Zenon DEF Sound
  <1>6. Matched(e)
    BY <1>1, <1>2, <1>4, Zenon DEF Matched
  <1>7. AllTokens(e) = AllTokens(d) \cup {n} /\ n \notin AllTokens(d)
    BY <1>2, <1>3, <1>4, Zenon DEF AllTokens
  <1>8. IsFiniteSet(AllTokens(d))
    BY TokensFinite, FS_Subset, Zenon DEF AllTokens
  <1>9. Cardinality(AllTokens(e)) = Cardinality(AllTokens(d)) + 1
    BY <1>7, <1>8, FS_AddElement, Zenon
  <1>10. Counted(e)
    BY <1>1, <1>2, <1>9, Zenon DEF Counted
  <1>11. Leads(d, e)
    BY <1>2, <1>3, Zenon DEF Leads, Abstract!Advance
  <1>12. Kept(d, e)
    BY <1>2, <1>3, DispatchAssumption, Zenon DEF Kept
  <1>13. Undropped(d) => Undropped(e)
    BY <1>2, Zenon DEF Undropped
  <1>14. Good(e)
    BY <1>5, <1>6, <1>10, GoodIff, Zenon
  <1>15. e.entries[n] = p /\ n \in AllTokens(e)
    BY <1>2, <1>3, <1>7, Zenon
  <1> QED
    BY <1>11, <1>12, <1>13, <1>14, <1>15, Zenon DEF e, n

(* send_request and process_sync_request, the frame written or not. *)
LEMMA SendRequestGood ==
  ASSUME NEW d, Good(d), NEW s \in Sessions, NEW p \in Party,
         d.next_token \in Tokens, NEW written \in BOOLEAN,
         NEW unsent \in Unsent
  PROVE  LET e == SendRequest(d, s, p, written, unsent)
         IN  /\ Good(e) /\ Leads(d, e) /\ Kept(d, e)
             /\ Undropped(d) => Undropped(e)
             /\ (p \in Calls /\ e.caller[p] = "blocked")
                   => \E t \in Tokens : e.entries[t] = p
  <1> DEFINE n == d.next_token
             f == Insert(d, s, p)
             g == Tell(f, {n}, unsent)
             r == RecordResolution(g, {n})
  <1>0. d \in Core /\ d.outcome[n] = "none"
    BY CoreFields, SMTT(30) DEF Good, Agree
  <1>1. /\ Good(f) /\ Leads(d, f) /\ Kept(d, f)
        /\ Undropped(d) => Undropped(f)
        /\ f.entries[n] = p /\ n \in AllTokens(f)
    BY InsertGood, Zenon
  <1>o. \A t \in Tokens : f.outcome[t] = IF t = n THEN "pending"
                                          ELSE d.outcome[t]
    BY <1>0, InsertFields, Zenon
  <1>2. f \in Core /\ {n} \in SUBSET Tokens /\ {n} \in SUBSET AllTokens(f)
    BY <1>1, Zenon DEF Good
  <1>t. unsent \in How /\ unsent \in How \ {"dropped"}
    BY Zenon DEF How, Unsent
  <1> HIDE DEF f, n
  <1>3. /\ Good(r) /\ Kept(f, r)
        /\ Undropped(f) => Undropped(r)
    BY <1>1, <1>2, <1>t, SettleGood, Zenon
  <1>u. Taken(f, {n}, unsent, g)
    BY <1>2, <1>t, TellFields, Zenon
  <1>4. /\ g \in Core
        /\ \A c \in Calls :
              g.caller[c] = IF f.caller[c] = "blocked"
                                 /\ \E t \in {n} : f.entries[t] = c
                              THEN Answer(unsent) ELSE f.caller[c]
        /\ \A t \in Tokens :
              g.outcome[t] = IF t \in {n} /\ f.entries[t] # NoEntry
                               THEN IF f.outcome[t] = "pending"
                                      THEN unsent ELSE "again"
                               ELSE f.outcome[t]
    BY <1>u, Zenon DEF Taken
  <1>r. Resolved(g, {n}, r)
    BY <1>2, <1>4, ResolutionFields, Zenon
  <1>5. r.caller = g.caller /\ r.outcome = g.outcome
    BY <1>r, Zenon DEF Resolved
  <1>a. Answer(unsent) # "blocked"
    BY Zenon DEF Answer
  <1>e. \E t \in {n} : f.entries[t] = p
    BY <1>1, Zenon
  <1>6. p \in Calls => r.caller[p] # "blocked"
    <2>1. p \in Calls => g.caller[p] = IF f.caller[p] = "blocked"
                                         THEN Answer(unsent) ELSE f.caller[p]
      BY <1>4, <1>e, Zenon
    <2> QED
      BY <1>5, <1>a, <2>1, Zenon
  <1>p. p # NoEntry
    BY DispatchAssumption, Zenon DEF Party
  <1>q. \A t \in Tokens : r.outcome[t] = IF t = n THEN unsent
                                          ELSE d.outcome[t]
    BY <1>1, <1>4, <1>5, <1>o, <1>p, Zenon
  <1> HIDE DEF r
  <1>7. Leads(d, r) /\ Kept(d, r)
    <2>1. Leads(d, r)
      BY <1>0, <1>q, Zenon DEF Leads, Abstract!Advance, Abstract!Unsent, Unsent
    <2> QED
      BY <1>1, <1>3, <2>1, KeptTransitive, Zenon
  <1>8. SendRequest(d, s, p, written, unsent) = IF written THEN f ELSE r
    BY Zenon DEF SendRequest, cancel, f, g, r, n
  <1>9. n \in Tokens
    BY <1>2, Zenon
  <1> HIDE DEF g
  <1> QED
    BY <1>1, <1>3, <1>6, <1>7, <1>8, <1>9, Zenon

-----------------------------------------------------------------------------
(* The steps of the looper. *)

InBatch(b, c) == \E j \in DOMAIN b : b[j].kind = "Sync" /\ b[j].call = c

(* Where a call that is waiting waits. *)
LEMMA WaitingIff ==
  ASSUME NEW c
  PROVE  c \in Waiting <=> (c \in syncq \/ InBatch(batch, c))
  BY Zenon DEF Waiting, InBatch

(* What dropping the looper leaves: nothing pending, and no call blocked   *)
(* but one that was neither waiting nor in the table.                      *)
LEMMA DropGood ==
  ASSUME NEW d, Sound(d)
  PROVE  /\ Good(Drop(d)) /\ Leads(d, Drop(d))
         /\ \A t \in Tokens : Drop(d).outcome[t] # "pending"
         /\ (Undropped(d) /\ \A t \in Tokens : d.outcome[t] # "pending")
               => Undropped(Drop(d))
         /\ \A c \in Calls : Drop(d).caller[c] = "blocked"
               => /\ d.caller[c] = "blocked" /\ c \notin Waiting
                  /\ \A t \in Tokens : d.entries[t] # c
  <1> DEFINE f == CascadeConnection(d)
             g == Tell(f, Tokens, "dropped")
             e == Drop(d)
  <1>0. d \in Core
    BY Zenon DEF Sound
  <1>1. /\ Sound(f) /\ f.entries = d.entries /\ f.outcome = d.outcome
        /\ f.caller = d.caller /\ f.outstanding = 0 /\ f \in Core
        /\ f.next_token = d.next_token
        /\ \A t \in Tokens : f.token_sessions[t] = NoSession
    BY <1>0, CascadeSound, CascadeFields, Zenon
  <1> HIDE DEF f
  <1>t. Tokens \in SUBSET Tokens /\ "dropped" \in How
    BY Zenon DEF How
  <1>2. Sound(g) /\ Leads(f, g) /\ \A t \in Tokens : g.outcome[t] # "pending"
    BY <1>1, <1>t, TellSound, Zenon
  <1>u. Taken(f, Tokens, "dropped", g)
    BY <1>1, <1>t, TellFields, Zenon
  <1> HIDE DEF g
  <1>3. /\ g \in Core /\ g.outstanding = 0
        /\ \A t \in Tokens :
              /\ g.token_sessions[t] = NoSession
              /\ g.entries[t] = NoEntry
              /\ g.outcome[t] = IF d.entries[t] # NoEntry
                                  THEN IF d.outcome[t] = "pending"
                                         THEN "dropped" ELSE "again"
                                  ELSE d.outcome[t]
        /\ \A c \in Calls :
              g.caller[c] = IF d.caller[c] = "blocked"
                                 /\ \E t \in Tokens : d.entries[t] = c
                              THEN Answer("dropped") ELSE d.caller[c]
    BY <1>1, <1>u DEF Taken
  <1>4. e = [g EXCEPT !.caller =
                [c \in Calls |-> IF c \in Waiting /\ g.caller[c] = "blocked"
                                   THEN "disconnected" ELSE g.caller[c]]]
    BY Zenon DEF Drop, clear, f, g
  <1>5. [c \in Calls |-> IF c \in Waiting /\ g.caller[c] = "blocked"
                           THEN "disconnected" ELSE g.caller[c]]
            \in [Calls -> CallState]
    BY <1>3, CoreFields DEF CallState
  <1>6. /\ e \in Core /\ e.outstanding = g.outstanding
        /\ e.next_token = g.next_token /\ e.outcome = g.outcome
        /\ e.entries = g.entries /\ e.token_sessions = g.token_sessions
        /\ \A c \in Calls :
              e.caller[c] = IF c \in Waiting /\ g.caller[c] = "blocked"
                              THEN "disconnected" ELSE g.caller[c]
    BY <1>3, <1>4, <1>5, SMTT(30) DEF Core
  <1> HIDE DEF e
  <1>7. Sound(e)
    BY <1>2, <1>6, Zenon DEF Sound
  <1>8. Matched(e)
    BY <1>3, <1>6, Zenon DEF Matched
  <1>9. AllTokens(e) = {}
    BY <1>3, <1>6, SMTT(30) DEF AllTokens
  <1>10. Counted(e)
    BY <1>3, <1>6, <1>9, FS_EmptySet, Zenon DEF Counted
  <1>11. Good(e)
    BY <1>7, <1>8, <1>10, GoodIff, Zenon
  <1>12. Leads(d, e)
    BY <1>1, <1>2, <1>6, Zenon DEF Leads
  <1>13. \A t \in Tokens : e.outcome[t] # "pending"
    BY <1>2, <1>6, Zenon
  <1>14. (Undropped(d) /\ \A t \in Tokens : d.outcome[t] # "pending")
           => Undropped(e)
    BY <1>3, <1>6 DEF Undropped, Sound
  <1>15. Answer("dropped") # "blocked"
    BY Zenon DEF Answer
  <1>16. \A c \in Calls : e.caller[c] = "blocked"
           => /\ d.caller[c] = "blocked" /\ c \notin Waiting
              /\ \A t \in Tokens : d.entries[t] # c
    BY <1>3, <1>6, <1>15, Zenon
  <1> QED
    BY <1>11, <1>12, <1>13, <1>14, <1>16, Zenon DEF e

-----------------------------------------------------------------------------
(* The inductive invariant and the steps.                                  *)

IInv ==
    /\ TypeOK /\ Good(core) /\ NoCallStranded /\ ExitSettles
    /\ Running => Undropped(core)

Reasons == {"Graceful", "Failed", "Disconnected", "InfraError"}

(* The variables a handler sets besides those of End and Resume. *)
Side == /\ dispatched' \in Nat /\ sends' \in 0..MaxSends
        /\ subs' \subseteq Sessions

(* d is a request record that a handler may have reached. *)
Reached(d) ==
    /\ Sound(d) /\ Leads(core, d) /\ Kept(core, d) /\ Undropped(d)

Preserved == IInv' /\ Leads(core, core')

(* The looper ends: stopped only when every request was told a result. *)
LEMMA EndStep ==
  ASSUME IInv, Running, Side, NEW d, Reached(d),
         NEW how \in {"stopped", "crashed"}, NEW reasons \in Seq(Reasons),
         how = "stopped" => \A t \in Tokens : d.outcome[t] # "pending",
         End(d, how, reasons)
  PROVE  Preserved
  <1>1. /\ Good(Drop(d)) /\ Leads(d, Drop(d))
        /\ \A t \in Tokens : Drop(d).outcome[t] # "pending"
        /\ (Undropped(d) /\ \A t \in Tokens : d.outcome[t] # "pending")
              => Undropped(Drop(d))
        /\ \A c \in Calls : Drop(d).caller[c] = "blocked"
              => /\ d.caller[c] = "blocked" /\ c \notin Waiting
                 /\ \A t \in Tokens : d.entries[t] # c
    BY DropGood, Zenon DEF Reached
  <1>2. core' = Drop(d) /\ pc' = how
    BY Zenon DEF End
  <1>3. Good(core)'
    BY <1>1, <1>2, Zenon DEF Good
  <1>4. core' \in Core
    BY <1>1, <1>2, Zenon DEF Good
  <1>5. exits' \in Seq(Reasons)
    BY SMTT(30) DEF End, IInv, TypeOK, Reasons
  <1>6. TypeOK'
    BY <1>2, <1>4, <1>5, SMTT(30) DEF End, IInv, TypeOK, Side, Reasons, world
  <1>7. \A c \in Calls : core'.caller[c] # "blocked"
    BY <1>1, <1>2, Zenon DEF Reached, Kept, IInv, NoCallStranded, Blocked
  <1>8. NoCallStranded'
    BY <1>7, Zenon DEF NoCallStranded, Blocked
  <1>9. ExitSettles'
    BY <1>1, <1>2, Zenon DEF ExitSettles, Reached, Undropped
  <1>10. ~Running'
    BY <1>2, Zenon DEF Running
  <1>11. Leads(core, core')
    BY <1>1, <1>2, LeadsTransitive, Zenon DEF Reached
  <1> QED
    BY <1>3, <1>6, <1>8, <1>9, <1>10, <1>11, Zenon DEF IInv, Preserved

(* An on_failed closure that panics outside of catch_unwind. *)
LEMMA UnwindStep ==
  ASSUME IInv, Running, Side, NEW d, Reached(d), NEW T \in SUBSET Tokens,
         Unwind(d, T)
  PROVE  Preserved
  <1>1. PICK F \in SUBSET T : End(Tell(d, F, "failed"), "crashed", <<>>)
    BY Zenon DEF Unwind, fail_tokens
  <1>2. Reached(Tell(d, F, "failed"))
    BY <1>1, TellSound, LeadsTransitive, KeptTransitive, Zenon DEF Reached, How
  <1>3. <<>> \in Seq(Reasons)
    OBVIOUS
  <1> QED
    BY <1>1, <1>2, <1>3, EndStep, Zenon

(* run_destruction fails every request that is left. *)
LEMMA DestructionStep ==
  ASSUME IInv, Running, Side, NEW d, Reached(d), Covered(d),
         NEW reasons \in Seq(Reasons), RunDestruction(d, reasons)
  PROVE  Preserved
  <1> DEFINE f == CascadeConnection(d)
             T == AllTokens(d)
             e == Tell(f, T, "failed")
  <1>0. d \in Core /\ T \in SUBSET Tokens
    BY Zenon DEF Reached, Sound, AllTokens
  <1>1. /\ Sound(f) /\ Leads(d, f) /\ Kept(d, f)
        /\ Undropped(d) => Undropped(f)
    BY CascadeSound, Zenon DEF Reached
  <1>2. f.entries = d.entries /\ f.outcome = d.outcome
    BY <1>0, CascadeFields, Zenon
  <1> HIDE DEF f
  <1>3. Reached(f)
    BY <1>1, LeadsTransitive, KeptTransitive, Zenon DEF Reached
  <1>4. /\ Sound(e) /\ Leads(f, e) /\ Kept(f, e) /\ Undropped(e)
        /\ \A t \in T : e.outcome[t] # "pending"
    BY <1>0, <1>3, TellSound, Zenon DEF Reached, How
  <1>5. \A t \in Tokens \ T : e.outcome[t] # "pending"
    <2>1. \A t \in Tokens \ T : d.entries[t] = NoEntry
      BY Zenon DEF Covered, AllTokens
    <2>a. f \in Core /\ "failed" \in How
      BY <1>1, Zenon DEF Sound, How
    <2>b. Taken(f, T, "failed", e)
      BY <1>0, <2>a, TellFields, Zenon
    <2> HIDE DEF e
    <2>2. \A t \in Tokens \ T : e.entries[t] = NoEntry
      BY <1>2, <2>1, <2>b, SMTT(30) DEF Taken
    <2> QED
      BY <1>4, <2>2, Zenon DEF Sound
  <1> HIDE DEF e, T
  <1>6. Reached(e)
    BY <1>3, <1>4, LeadsTransitive, KeptTransitive, Zenon DEF Reached
  <1>7. CASE End(e, "stopped", reasons)
    BY <1>4, <1>5, <1>6, <1>7, EndStep, Zenon
  <1>8. CASE Unwind(f, T)
    BY <1>0, <1>3, <1>8, UnwindStep, Zenon
  <1> QED
    BY <1>7, <1>8, Zenon DEF RunDestruction, fail_tokens, e, f, T

(* What a callback leaves, the batch going on with rest. *)
LEMMA ResumeStep ==
  ASSUME IInv, Running, Side, NEW d, Reached(d), Covered(d),
         NEW rest \in Seq(BatchEvent), NEW next \in {"collect", "dispatch"},
         NEW flow \in Flow,
         flow = "Continue" =>
            /\ Good(d)
            /\ \A c \in Calls :
                  (d.caller[c] = "blocked" /\ \A t \in Tokens : d.entries[t] # c)
                     => (c \in syncq \/ InBatch(rest, c)),
         Resume(flow, d, rest, next)
  PROVE  Preserved
  <1>1. CASE flow = "Continue"
    <2>1. /\ core' = d /\ batch' = rest /\ pc' = next
          /\ UNCHANGED <<inbox, closed, syncq, revoked, channel_closed, exits,
                         world>>
      BY <1>1, Zenon DEF Resume
    <2>2. Good(core)' /\ core' \in Core
      BY <1>1, <2>1, Zenon DEF Good
    <2>3. TypeOK'
      BY <2>1, <2>2, Zenon DEF IInv, TypeOK, Side, world
    <2>4. NoCallStranded'
      BY <1>1, <2>1, Zenon DEF NoCallStranded, Blocked, Waiting, InBatch
    <2>5. ExitSettles' /\ Undropped(core)' /\ Leads(core, core')
      BY <2>1, Zenon DEF ExitSettles, Reached, Undropped
    <2> QED
      BY <2>2, <2>3, <2>4, <2>5, Zenon DEF IInv, Preserved
  <1>2. CASE flow # "Continue"
    <2>1. PICK r \in {"Graceful", "Failed"} : RunDestruction(d, <<r>>)
      BY <1>2, Zenon DEF Resume
    <2>2. <<r>> \in Seq(Reasons)
      BY DEF Reasons
    <2> QED
      BY <2>1, <2>2, DestructionStep, Zenon
  <1> QED
    BY <1>1, <1>2, Zenon

-----------------------------------------------------------------------------
(* The batch without one event, index by index. *)
LEMMA WithoutIs ==
  ASSUME IInv, NEW i \in DOMAIN batch
  PROVE  LET w == Without(i)
         IN  /\ w \in Seq(BatchEvent)
             /\ Len(w) = Len(batch) - 1
             /\ \A j \in 1..Len(batch) : j < i => w[j] = batch[j]
             /\ \A j \in 1..Len(batch) : j > i => w[j - 1] = batch[j]
  <1> DEFINE w == Without(i)
  <1>1. batch \in Seq(BatchEvent) /\ i \in 1..Len(batch) /\ Len(batch) \in Nat
    BY DEF IInv, TypeOK
  <1>2. /\ SubSeq(batch, 1, i - 1) \in Seq(BatchEvent)
        /\ SubSeq(batch, i + 1, Len(batch)) \in Seq(BatchEvent)
    BY <1>1
  <1>3. w \in Seq(BatchEvent)
    BY <1>2 DEF Without
  <1>4. /\ Len(w) = Len(batch) - 1
        /\ \A j \in 1..Len(batch) : j < i => w[j] = batch[j]
        /\ \A j \in 1..Len(batch) : j > i => w[j - 1] = batch[j]
    <2> DEFINE a == SubSeq(batch, 1, i - 1)
               b == SubSeq(batch, i + 1, Len(batch))
    <2>1. Len(a) = i - 1 /\ \A j \in 1..(i - 1) : a[j] = batch[j]
      BY <1>1
    <2>2. /\ Len(b) = Len(batch) - i
          /\ \A j \in 1..(Len(batch) - i) : b[j] = batch[i + j]
      BY <1>1, SMTT(30)
    <2>3. w = a \o b /\ a \in Seq(BatchEvent) /\ b \in Seq(BatchEvent)
      BY <1>2, Zenon DEF Without
    <2> HIDE DEF a, b, w
    <2>4. /\ Len(w) = Len(a) + Len(b)
          /\ \A j \in 1..(Len(a) + Len(b)) :
                w[j] = IF j <= Len(a) THEN a[j] ELSE b[j - Len(a)]
      BY <2>3
    <2>5. ASSUME NEW j \in 1..Len(batch), j < i
          PROVE  w[j] = batch[j]
      <3>1. /\ j \in 1..(Len(a) + Len(b)) /\ j <= Len(a)
            /\ j \in 1..(i - 1)
        BY <1>1, <2>1, <2>2, <2>5, SMTT(30)
      <3> QED
        BY <2>1, <2>4, <3>1, Zenon
    <2>6. ASSUME NEW j \in 1..Len(batch), j > i
          PROVE  w[j - 1] = batch[j]
      <3>0. /\ i \in Nat /\ j \in Nat /\ Len(batch) \in Nat
            /\ 1 <= i /\ i < j /\ j <= Len(batch)
            /\ Len(a) = i - 1 /\ Len(b) = Len(batch) - i
        BY <1>1, <2>1, <2>2, <2>6, SMTT(30)
      <3>1. /\ j - 1 \in 1..(Len(a) + Len(b)) /\ ~(j - 1 <= Len(a))
            /\ (j - 1) - Len(a) = j - i /\ j - i \in 1..(Len(batch) - i)
            /\ i + (j - i) = j
        BY <3>0, SMTT(30)
      <3>2. w[j - 1] = b[j - i] /\ b[j - i] = batch[i + (j - i)]
        BY <2>2, <2>4, <3>1, Zenon
      <3> QED
        BY <3>1, <3>2, Zenon
    <2> QED
      BY <1>1, <2>1, <2>2, <2>4, <2>5, <2>6, SMTT(30)
  <1> QED
    BY <1>3, <1>4, Zenon

(* Taking an event out of the batch keeps the others. *)
LEMMA WithoutKeeps ==
  ASSUME IInv, NEW i \in DOMAIN batch
  PROVE  /\ Without(i) \in Seq(BatchEvent)
         /\ \A c \in Calls : InBatch(batch, c) =>
                \/ InBatch(Without(i), c)
                \/ batch[i].kind = "Sync" /\ batch[i].call = c
  <1> DEFINE w == Without(i)
  <1>1. batch \in Seq(BatchEvent) /\ i \in 1..Len(batch) /\ Len(batch) \in Nat
    BY DEF IInv, TypeOK
  <1>3. w \in Seq(BatchEvent)
    BY WithoutIs, Zenon
  <1>4. /\ Len(w) = Len(batch) - 1
        /\ \A j \in 1..Len(batch) : j < i => w[j] = batch[j]
        /\ \A j \in 1..Len(batch) : j > i => w[j - 1] = batch[j]
    BY WithoutIs, Zenon
  <1> HIDE DEF w
  <1>5. ASSUME NEW c \in Calls, InBatch(batch, c),
               ~(batch[i].kind = "Sync" /\ batch[i].call = c)
        PROVE  InBatch(w, c)
    <2>1. PICK j \in 1..Len(batch) : batch[j].kind = "Sync" /\ batch[j].call = c
      BY <1>1, <1>5 DEF InBatch
    <2>2. DOMAIN w = 1..(Len(batch) - 1)
      BY <1>1, <1>3, <1>4, SMTT(30)
    <2>3. CASE j < i
      <3>1. j \in DOMAIN w /\ w[j] = batch[j]
        BY <1>1, <1>4, <2>2, <2>3, SMTT(30)
      <3> QED
        BY <2>1, <3>1, Zenon DEF InBatch
    <2>4. CASE j > i
      <3>1. j - 1 \in DOMAIN w /\ w[j - 1] = batch[j]
        BY <1>1, <1>4, <2>2, <2>4, SMTT(30)
      <3> QED
        BY <2>1, <3>1, Zenon DEF InBatch
    <2>5. j # i
      BY <1>5, <2>1, Zenon
    <2> QED
      BY <1>1, <2>3, <2>4, <2>5
  <1> QED
    BY <1>3, <1>5, Zenon DEF w

(* The events but those of phase 0 leave every waiting call where it is. *)
LEMMA StillWaiting ==
  ASSUME IInv, NEW i \in DOMAIN batch, batch[i].kind # "Sync",
         NEW d, Kept(core, d), NEW c \in Calls,
         d.caller[c] = "blocked", \A t \in Tokens : d.entries[t] # c
  PROVE  c \in syncq \/ InBatch(Without(i), c)
  <1>1. c \in Waiting
    BY Zenon DEF Kept, IInv, NoCallStranded, Blocked
  <1> QED
    BY <1>1, WaitingIff, WithoutKeeps, Zenon

(* The record a handler starts from. *)
LEMMA ReachedCore ==
  ASSUME IInv, Running
  PROVE  Reached(core) /\ Covered(core) /\ Good(core)
  BY GoodIff, GoodCovered, LeadsSame, Zenon DEF IInv, Reached, Kept

(* A record is reached when an operator made it of core. *)
LEMMA ReachedFrom ==
  ASSUME IInv, Running, NEW e, Sound(e), Leads(core, e), Kept(core, e),
         Undropped(core) => Undropped(e)
  PROVE  Reached(e)
  BY Zenon DEF IInv, Reached

(* A step of the looper that leaves the request record as Good(d). *)
LEMMA DispatchStep ==
  ASSUME IInv, Running, Side, NEW i \in DOMAIN batch, batch[i].kind # "Sync",
         NEW d, Reached(d), Good(d), NEW flow \in Flow,
         NEW next \in {"collect", "dispatch"}, Resume(flow, d, Without(i), next)
  PROVE  Preserved
  <1>1. Covered(d) /\ Without(i) \in Seq(BatchEvent)
    BY GoodCovered, WithoutKeeps, Zenon
  <1>2. \A c \in Calls :
           (d.caller[c] = "blocked" /\ \A t \in Tokens : d.entries[t] # c)
              => (c \in syncq \/ InBatch(Without(i), c))
    BY StillWaiting, Zenon DEF Reached
  <1> QED
    BY <1>1, <1>2, ResumeStep, Zenon

-----------------------------------------------------------------------------
(* The steps of dispatch_batch, one by one. *)

(* The fields of the events of a batch. *)
LEMMA EventTypes ==
  ASSUME IInv, NEW i \in DOMAIN batch
  PROVE  /\ batch[i].kind \in {"Reply", "Failed"} => batch[i].token \in Tokens
         /\ batch[i].kind \in {"Teardown", "Accepted"}
               => batch[i].session \in Sessions
         /\ batch[i].kind = "Sync" => batch[i].call \in Calls
  <1>1. batch[i] \in BatchEvent
    BY DEF IInv, TypeOK
  <1> QED
    BY <1>1, Zenon DEF BatchEvent, Message

(* The bound on requests leaves a token to issue. *)
LEMMA TokenFree ==
  ASSUME IInv, core.next_token < MaxTokens
  PROVE  core.next_token \in Tokens
  BY DispatchAssumption, CoreFields, SMTT(30) DEF IInv, TypeOK, Tokens

(* A request sent by the looper thread. *)
LEMMA SendReached ==
  ASSUME IInv, Running, core.next_token < MaxTokens, NEW s \in Opened,
         NEW p \in Party, NEW written \in BOOLEAN, NEW unsent \in Unsent
  PROVE  LET e == SendRequest(core, s, p, written, unsent)
         IN  /\ Reached(e) /\ Good(e)
             /\ (p \in Calls /\ e.caller[p] = "blocked")
                   => \E t \in Tokens : e.entries[t] = p
  <1> DEFINE e == SendRequest(core, s, p, written, unsent)
  <1>1. s \in Sessions /\ Good(core) /\ core.next_token \in Tokens
    BY LooperAssumption, TokenFree, Zenon DEF IInv
  <1>2. /\ Good(e) /\ Leads(core, e) /\ Kept(core, e)
        /\ Undropped(core) => Undropped(e)
        /\ (p \in Calls /\ e.caller[p] = "blocked")
              => \E t \in Tokens : e.entries[t] = p
    BY <1>1, SendRequestGood, SMTT(30)
  <1> HIDE DEF e
  <1>3. Reached(e)
    BY <1>2, GoodIff, ReachedFrom, Zenon
  <1> QED
    BY <1>2, <1>3, Zenon DEF e

(* Phase 0, process_sync_request. *)
LEMMA SyncStep ==
  ASSUME IInv, Running, NEW i \in DOMAIN batch, ProcessSync(i)
  PROVE  Preserved
  <1> DEFINE p == batch[i].call
  <1>1. p \in Calls /\ p \in Party /\ batch[i].kind = "Sync"
    BY EventTypes, Zenon DEF ProcessSync, Party
  <1>2. PICK s \in Opened, written \in BOOLEAN :
           Resume("Continue", SendRequest(core, s, p, written, "refused"),
                  Without(i), "dispatch")
    BY Zenon DEF ProcessSync
  <1>3. Side
    BY Zenon DEF ProcessSync, Side, IInv, TypeOK
  <1> DEFINE e == SendRequest(core, s, p, written, "refused")
  <1>u. "refused" \in Unsent
    BY Zenon DEF Unsent
  <1>4. /\ Reached(e) /\ Good(e)
        /\ e.caller[p] = "blocked" => \E t \in Tokens : e.entries[t] = p
    BY <1>1, <1>u, SendReached, SMTT(30) DEF ProcessSync
  <1> HIDE DEF e
  <1>5. ASSUME NEW c \in Calls, e.caller[c] = "blocked",
               \A t \in Tokens : e.entries[t] # c
        PROVE  c \in syncq \/ InBatch(Without(i), c)
    <2>1. c # p
      BY <1>4, <1>5, Zenon
    <2>2. c \in Waiting
      BY <1>4, <1>5, Zenon DEF Reached, Kept, IInv, NoCallStranded, Blocked
    <2> QED
      BY <2>1, <2>2, WaitingIff, WithoutKeeps, Zenon
  <1>6. Covered(e) /\ Without(i) \in Seq(BatchEvent) /\ "Continue" \in Flow
    BY <1>4, GoodCovered, WithoutKeeps, Zenon DEF Flow
  <1>7. Resume("Continue", e, Without(i), "dispatch")
    BY <1>2, Zenon DEF e
  <1> QED
    BY <1>3, <1>4, <1>5, <1>6, <1>7, ResumeStep, Zenon

(* Telling the party of some requests, before they are resolved. *)
LEMMA ToldReached ==
  ASSUME IInv, Running, NEW T \in SUBSET Tokens,
         NEW how \in {"replied", "failed"}
  PROVE  Reached(Tell(core, T, how)) /\ Covered(Tell(core, T, how))
  <1>1. Sound(core) /\ Covered(core)
    BY GoodIff, GoodCovered, Zenon DEF IInv
  <1> DEFINE e == Tell(core, T, how)
  <1>2. /\ Sound(e) /\ Leads(core, e) /\ Kept(core, e) /\ Covered(e)
        /\ Undropped(core) => Undropped(e)
    BY <1>1, TellSound, Zenon DEF How
  <1> HIDE DEF e
  <1>3. Reached(e)
    BY <1>2, ReachedFrom, Zenon
  <1> QED
    BY <1>2, <1>3, Zenon DEF e

(* Telling the party of some requests and resolving them. *)
LEMMA SettledReached ==
  ASSUME IInv, Running, NEW T \in SUBSET AllTokens(core),
         NEW how \in {"replied", "failed"}
  PROVE  LET e == RecordResolution(Tell(core, T, how), T)
         IN  Reached(e) /\ Good(e)
  <1> DEFINE e == RecordResolution(Tell(core, T, how), T)
  <1>1. /\ Good(e) /\ Leads(core, e) /\ Kept(core, e)
        /\ Undropped(core) => Undropped(e)
    BY SettleGood, Zenon DEF IInv, How
  <1> HIDE DEF e
  <1>2. Reached(e)
    BY <1>1, GoodIff, ReachedFrom, Zenon
  <1> QED
    BY <1>1, <1>2, Zenon DEF e

(* Phase 1, dispatch_reply and dispatch_failed. *)
LEMMA AnswerStep ==
  ASSUME IInv, Running, NEW i \in DOMAIN batch, DispatchAnswer(i)
  PROVE  Preserved
  <1> DEFINE m == batch[i]
             t == m.token
             how == IF m.kind = "Reply" THEN "replied" ELSE "failed"
             told == Tell(core, {t}, how)
             settled == RecordResolution(told, {t})
  <1>1. m.kind \in {"Reply", "Failed"} /\ t \in Tokens /\ m.kind # "Sync"
    BY EventTypes, Zenon DEF DispatchAnswer
  <1>2. Fire(m) = told
    BY <1>1, Zenon DEF Fire, fire_reply, fire_failed
  <1>3. how \in {"replied", "failed"} /\ {t} \in SUBSET Tokens
    BY <1>1, Zenon
  <1>4. Side
    BY Zenon DEF DispatchAnswer, Side, IInv, TypeOK
  <1>5. core.entries[t] \in Calls \cup {Handler, NoEntry}
    BY <1>1, CoreFields, Zenon DEF IInv, TypeOK
  <1>6. \/ Resume("Continue", core, Without(i), "dispatch")
        \/ /\ core.entries[t] # NoEntry
           /\ \E f \in Flow :
                 Resume(f, IF f = "Panic" THEN told ELSE settled, Without(i),
                        "dispatch")
    <2>1. CASE core.entries[t] = NoEntry
      BY <2>1, DispatchAssumption, Zenon DEF DispatchAnswer, Unmatched
    <2>2. CASE core.entries[t] \in Calls
      <3>1. Resume("Continue", settled, Without(i), "dispatch")
        BY <1>2, <2>2, DispatchAssumption, Zenon DEF DispatchAnswer, Unmatched
      <3>2. "Continue" \in Flow /\ "Continue" # "Panic"
        BY Zenon DEF Flow
      <3> HIDE DEF settled, told
      <3>3. Resume("Continue", IF "Continue" = "Panic" THEN told ELSE settled,
                   Without(i), "dispatch")
        BY <3>1, Zenon
      <3> QED
        BY <2>2, <3>2, <3>3, DispatchAssumption, Zenon
    <2>3. CASE core.entries[t] = Handler
      <3>1. \E f \in Flow :
               Resume(f, IF f = "Panic" THEN told ELSE settled, Without(i),
                      "dispatch")
        BY <1>2, <2>3, DispatchAssumption, Zenon DEF DispatchAnswer, Unmatched
      <3> QED
        BY <2>3, <3>1, DispatchAssumption, Zenon
    <2> QED
      BY <1>5, <2>1, <2>2, <2>3, Zenon
  <1>7. CASE Resume("Continue", core, Without(i), "dispatch")
    <2>1. "Continue" \in Flow
      BY Zenon DEF Flow
    <2> QED
      BY <1>1, <1>4, <1>7, <2>1, ReachedCore, DispatchStep, Zenon
  <1>8. CASE /\ core.entries[t] # NoEntry
             /\ \E f \in Flow :
                   Resume(f, IF f = "Panic" THEN told ELSE settled, Without(i),
                          "dispatch")
    <2>1. {t} \in SUBSET AllTokens(core)
      BY <1>1, <1>8, Zenon DEF IInv, Good, Agree, AllTokens
    <2>2. Reached(settled) /\ Good(settled)
      BY <1>3, <2>1, SettledReached, Zenon
    <2>3. Reached(told) /\ Covered(told)
      BY <1>3, ToldReached, Zenon
    <2> HIDE DEF settled, told
    <2>4. PICK f \in Flow :
             Resume(f, IF f = "Panic" THEN told ELSE settled, Without(i),
                    "dispatch")
      BY <1>8, Zenon
    <2>5. CASE f = "Panic"
      <3>1. Resume(f, told, Without(i), "dispatch")
        BY <2>4, <2>5, Zenon
      <3>2. Without(i) \in Seq(BatchEvent) /\ f # "Continue"
        BY <2>5, WithoutKeeps, Zenon
      <3> QED
        BY <1>4, <2>3, <3>1, <3>2, ResumeStep, Zenon
    <2>6. CASE f # "Panic"
      <3>1. Resume(f, settled, Without(i), "dispatch")
        BY <2>4, <2>6, Zenon
      <3> QED
        BY <1>1, <1>4, <2>2, <3>1, DispatchStep, Zenon
    <2> QED
      BY <2>5, <2>6, Zenon
  <1> QED
    BY <1>6, <1>7, <1>8, Zenon

(* Phase 2, dispatch_teardown and subscriber_disconnected. *)
LEMMA TeardownStep ==
  ASSUME IInv, Running, NEW i \in DOMAIN batch, DispatchTeardown(i)
  PROVE  Preserved
  <1> DEFINE s == batch[i].session
             T == TokensForSession(core, s)
             d == RecordResolution(core, T)
             e == Tell(d, T, "failed")
  <1>1. s \in Sessions /\ batch[i].kind # "Sync"
    BY EventTypes, Zenon DEF DispatchTeardown
  <1>2. T \in SUBSET AllTokens(core) /\ T \in SUBSET Tokens
    BY <1>1, DispatchAssumption, Zenon DEF TokensForSession, AllTokens
  <1>3. \/ /\ \E f \in Flow : Resume(f, e, Without(i), "dispatch")
           /\ subs' = subs \ {s}
        \/ Unwind(d, T) /\ UNCHANGED subs
    BY Zenon DEF DispatchTeardown, CascadeSession, fail_tokens
  <1>4. Side
    BY <1>3, Zenon DEF DispatchTeardown, Side, IInv, TypeOK
  <1>5. Sound(core) /\ core \in Core
    BY GoodIff, Zenon DEF IInv, Good
  <1> HIDE DEF T
  <1>6. /\ Sound(d) /\ Leads(core, d) /\ Kept(core, d)
        /\ Undropped(core) => Undropped(d)
    BY <1>2, <1>5, ResolutionSound, Zenon
  <1>7. e = RecordResolution(Tell(core, T, "failed"), T)
    BY <1>2, <1>5, SettleCommutes, Zenon
  <1>8. Reached(e) /\ Good(e)
    BY <1>2, <1>7, SettledReached, Zenon
  <1> HIDE DEF d, e
  <1>9. Reached(d)
    BY <1>6, ReachedFrom, Zenon
  <1>10. CASE \E f \in Flow : Resume(f, e, Without(i), "dispatch")
    BY <1>1, <1>4, <1>8, <1>10, DispatchStep, Zenon
  <1>11. CASE Unwind(d, T)
    BY <1>2, <1>4, <1>9, <1>11, UnwindStep, Zenon
  <1> QED
    BY <1>3, <1>10, <1>11, Zenon

(* Phases 3 and 4. *)
LEMMA ControlStep ==
  ASSUME IInv, Running, NEW i \in DOMAIN batch, DispatchControl(i)
  PROVE  Preserved
  <1>1. PICK f \in Flow : Resume(f, core, Without(i), "dispatch")
    BY Zenon DEF DispatchControl, Flow
  <1>2. Side /\ batch[i].kind # "Sync"
    BY EventTypes, Zenon DEF DispatchControl, Side, IInv, TypeOK
  <1> QED
    BY <1>1, <1>2, ReachedCore, DispatchStep, Zenon

(* Phase 5, a frame of a revoked session. *)
LEMMA StaleStep ==
  ASSUME IInv, Running, NEW i \in DOMAIN batch, SkipStale(i)
  PROVE  Preserved
  <1>1. Resume("Continue", core, Without(i), "dispatch") /\ "Continue" \in Flow
    BY Zenon DEF SkipStale, Flow
  <1>2. Side /\ batch[i].kind # "Sync"
    BY Zenon DEF SkipStale, Side, IInv, TypeOK
  <1> QED
    BY <1>1, <1>2, ReachedCore, DispatchStep, Zenon

(* Phase 5, a request or a notification. *)
LEMMA WorkStep ==
  ASSUME IInv, Running, NEW i \in DOMAIN batch, DispatchWork(i)
  PROVE  Preserved
  <1>0. /\ batch[i].kind # "Sync" /\ subs' = subs
        /\ sends' = sends \/ (sends < MaxSends /\ sends' = sends + 1)
        /\ dispatched' \in {0, dispatched + 1}
    BY Zenon DEF DispatchWork
  <1>0a. dispatched \in Nat /\ sends \in 0..MaxSends /\ subs \subseteq Sessions
    BY Zenon DEF IInv, TypeOK
  <1>1. Side /\ batch[i].kind # "Sync"
    BY <1>0, <1>0a, LooperAssumption, SMTT(30) DEF Side
  <1>2. PICK f \in Flow, next \in {"collect", "dispatch"} :
           \/ Resume(f, core, Without(i), next)
           \/ /\ core.next_token < MaxTokens
              /\ \E s \in Opened, written \in BOOLEAN, unsent \in Unsent :
                    Resume(f, SendRequest(core, s, Handler, written, unsent),
                           Without(i), next)
    BY Zenon DEF DispatchWork
  <1>3. CASE Resume(f, core, Without(i), next)
    BY <1>1, <1>3, ReachedCore, DispatchStep, Zenon
  <1>4. CASE /\ core.next_token < MaxTokens
             /\ \E s \in Opened, written \in BOOLEAN, unsent \in Unsent :
                   Resume(f, SendRequest(core, s, Handler, written, unsent),
                          Without(i), next)
    <2>1. PICK s \in Opened, written \in BOOLEAN, unsent \in Unsent :
             Resume(f, SendRequest(core, s, Handler, written, unsent), Without(i),
                    next)
      BY <1>4, Zenon
    <2> DEFINE e == SendRequest(core, s, Handler, written, unsent)
    <2>2. Reached(e) /\ Good(e)
      BY <1>4, SendReached, Zenon DEF Party
    <2>3. Resume(f, e, Without(i), next)
      BY <2>1, Zenon
    <2> HIDE DEF e
    <2> QED
      BY <1>1, <2>2, <2>3, DispatchStep, Zenon
  <1> QED
    BY <1>2, <1>3, <1>4, Zenon

(* The steps that leave the request record alone. *)
LEMMA QuietStep ==
  ASSUME IInv, TypeOK', core' = core, (pc' = pc) \/ (Running /\ Running'),
         \A c \in Waiting : c \in Waiting'
  PROVE  Preserved
  <1>1. Good(core)' /\ Leads(core, core')
    BY LeadsSame, Zenon DEF IInv, Good, Agree, AllTokens
  <1>2. NoCallStranded'
    BY Zenon DEF IInv, NoCallStranded, Blocked
  <1>3. ExitSettles'
    BY Zenon DEF IInv, ExitSettles, Running
  <1>4. Running' => Undropped(core)'
    BY Zenon DEF IInv, Running, Undropped
  <1> QED
    BY <1>1, <1>2, <1>3, <1>4, Zenon DEF IInv, Preserved

(* Collecting into the batch leaves the calls in it waiting. *)
LEMMA AppendKeeps ==
  ASSUME IInv, NEW m, batch' = Append(batch, m), syncq \subseteq syncq'
  PROVE  \A c \in Waiting : c \in Waiting'
  <1>1. batch \in Seq(BatchEvent) /\ Len(batch) \in Nat
    BY DEF IInv, TypeOK
  <1>2. \A j \in DOMAIN batch : j \in DOMAIN batch' /\ batch'[j] = batch[j]
    BY <1>1
  <1> QED
    BY <1>2, Zenon DEF Waiting

(* Batch::collect. *)
LEMMA CollectStep ==
  ASSUME IInv, Collect
  PROVE  Preserved
  <1>1. inbox \in Seq(Message) /\ inbox # <<>>
    BY Zenon DEF Collect, IInv, TypeOK
  <1>2. Head(inbox) \in Message /\ Tail(inbox) \in Seq(Message)
    BY <1>1
  <1>3. Head(inbox) \in BatchEvent
    BY <1>2, Zenon DEF BatchEvent
  <1>4. Head(inbox).kind = "LocalRevoke" => Head(inbox).session \in Sessions
    BY <1>2, Zenon DEF Message
  <1>5. revoked' \subseteq Sessions
    BY <1>4, Zenon DEF Collect, IInv, TypeOK
  <1>6. batch' \in Seq(BatchEvent)
    BY <1>3, SMTT(30) DEF Collect, IInv, TypeOK
  <1>7. TypeOK'
    BY <1>2, <1>5, <1>6, Zenon DEF Collect, IInv, TypeOK, world
  <1>8. \A c \in Waiting : c \in Waiting'
    <2>1. CASE batch' = batch
      BY <2>1, Zenon DEF Collect, Waiting
    <2>2. CASE batch' = Append(batch, Head(inbox))
      BY <2>2, AppendKeeps, Zenon DEF Collect
    <2> QED
      BY <2>1, <2>2, Zenon DEF Collect
  <1>9. core' = core /\ pc' = pc
    BY Zenon DEF Collect
  <1> QED
    BY <1>7, <1>8, <1>9, QuietStep, Zenon

(* A SyncRequest moves from its channel into the batch. *)
LEMMA CollectSyncStep ==
  ASSUME IInv, CollectSync
  PROVE  Preserved
  <1>1. PICK c \in syncq : syncq' = syncq \ {c} /\ batch' = Append(batch, Sync(c))
    BY Zenon DEF CollectSync
  <1>2. c \in Calls /\ Sync(c) \in BatchEvent
    BY Zenon DEF IInv, TypeOK, Sync, BatchEvent
  <1>3. batch \in Seq(BatchEvent) /\ Len(batch) \in Nat
    BY SMTT(30) DEF IInv, TypeOK
  <1>4. TypeOK'
    BY <1>1, <1>2, SMTT(30) DEF CollectSync, IInv, TypeOK, world
  <1>5. /\ \A j \in DOMAIN batch : j \in DOMAIN batch' /\ batch'[j] = batch[j]
        /\ Len(batch) + 1 \in DOMAIN batch'
        /\ batch'[Len(batch) + 1] = Sync(c)
    BY <1>1, <1>3, SMTT(30)
  <1>6. Sync(c).kind = "Sync" /\ Sync(c).call = c
    BY Zenon DEF Sync
  <1>7. c \in Waiting'
    BY <1>5, <1>6, Zenon DEF Waiting
  <1>8. \A b \in Waiting : b \in Waiting'
    BY <1>1, <1>5, <1>7, Zenon DEF Waiting
  <1>9. core' = core /\ pc' = pc
    BY Zenon DEF CollectSync
  <1> QED
    BY <1>4, <1>8, <1>9, QuietStep, Zenon

(* A message that arrives touches the inbox only. *)
LEMMA ArrivalStep ==
  ASSUME IInv, NEW m \in Message,
         NEW f \in [Tokens -> {"none", "reply", "failed", "teardown"}],
         Arrive(m, f), live' \subseteq Sessions, fresh' \subseteq Sessions
  PROVE  Preserved
  <1>1. inbox' \in Seq(Message) /\ arrivals' \in 0..MaxArrivals
    BY LooperAssumption, SMTT(30) DEF Arrive, IInv, TypeOK
  <1>2. TypeOK'
    BY <1>1, Zenon DEF Arrive, IInv, TypeOK, loop
  <1>3. \A c \in Waiting : c \in Waiting'
    BY Zenon DEF Arrive, Waiting, loop
  <1>4. core' = core /\ pc' = pc
    BY Zenon DEF Arrive, loop
  <1> QED
    BY <1>2, <1>3, <1>4, QuietStep, Zenon

(* The ghost of the first answer keeps its type. *)
LEMMA FirstForType ==
  ASSUME IInv, NEW T, NEW how \in {"reply", "failed", "teardown"}
  PROVE  FirstFor(T, how) \in [Tokens -> {"none", "reply", "failed", "teardown"}]
  BY Zenon DEF FirstFor, IInv, TypeOK

(* Every kind of message that arrives. *)
LEMMA ArrivalsStep ==
  ASSUME IInv, ArriveAnswer \/ ArriveTeardown \/ ArriveAccepted \/ ArriveOther
  PROVE  Preserved
  <1>0. /\ first \in [Tokens -> {"none", "reply", "failed", "teardown"}]
        /\ live \subseteq Sessions /\ fresh \subseteq Sessions
        /\ Opened \subseteq Sessions
    BY LooperAssumption, Zenon DEF IInv, TypeOK
  <1>1. CASE ArriveAnswer
    <2>1. PICK t \in Tokens : \/ Arrive(Reply(t), FirstFor({t}, "reply"))
                             \/ Arrive(Failed(t), FirstFor({t}, "failed"))
      BY <1>1, Zenon DEF ArriveAnswer
    <2>2. Reply(t) \in Message /\ Failed(t) \in Message
      BY Zenon DEF Reply, Failed, Message
    <2> QED
      BY <1>0, <1>1, <2>1, <2>2, FirstForType, ArrivalStep, Zenon DEF ArriveAnswer
  <1>2. CASE ArriveTeardown
    <2>1. PICK s \in live :
            /\ Arrive(Teardown(s), FirstFor(TokensForSession(core, s), "teardown"))
            /\ live' = live \ {s} /\ UNCHANGED fresh
      BY <1>2, Zenon DEF ArriveTeardown
    <2>2. Teardown(s) \in Message
      BY <1>0, Zenon DEF Teardown, Message
    <2> QED
      BY <1>0, <2>1, <2>2, FirstForType, ArrivalStep, Zenon
  <1>3. CASE ArriveAccepted
    <2>1. PICK s \in fresh : /\ Arrive(Accepted(s), first)
                            /\ live' = live \cup {s} /\ fresh' = fresh \ {s}
      BY <1>3, Zenon DEF ArriveAccepted
    <2>2. Accepted(s) \in Message
      BY <1>0, Zenon DEF Accepted, Message
    <2> QED
      BY <1>0, <2>1, <2>2, ArrivalStep, Zenon
  <1>4. CASE ArriveOther
    <2>1. \A s \in Sessions : /\ LocalRevoke(s) \in Message
                             /\ Request(s) \in Message
                             /\ Notification(s) \in Message
      BY Zenon DEF LocalRevoke, Request, Notification, Message
    <2>2. PaneExited \in Message /\ Lifecycle \in Message
      BY Zenon DEF PaneExited, Lifecycle, Message
    <2>3. PICK m \in Message : Arrive(m, first)
      BY <1>0, <1>4, <2>1, <2>2, Zenon DEF ArriveOther
    <2> QED
      BY <1>0, <1>4, <2>3, ArrivalStep, Zenon DEF ArriveOther
  <1> QED
    BY <1>1, <1>2, <1>3, <1>4, Zenon

(* A caller that submits, or gives up, touches its own state only. *)
LEMMA CallerStep ==
  ASSUME IInv, NEW c \in Calls, NEW x \in CallState,
         core' = [core EXCEPT !.caller[c] = x],
         x = "blocked" => c \in syncq', syncq \subseteq syncq', TypeOK',
         batch' = batch, pc' = pc
  PROVE  Preserved
  <1>1. core \in Core /\ Good(core)
    BY Zenon DEF IInv, Good
  <1>2. /\ core'.next_token = core.next_token
        /\ core'.outstanding = core.outstanding
        /\ core'.token_sessions = core.token_sessions
        /\ core'.entries = core.entries /\ core'.outcome = core.outcome
        /\ \A b \in Calls :
              core'.caller[b] = IF b = c THEN x ELSE core.caller[b]
    BY <1>1, Zenon DEF Core
  <1>3. AllTokens(core') = AllTokens(core)
    BY <1>2, Zenon DEF AllTokens
  <1>4. Good(core)'
    BY <1>1, <1>2, <1>3, SMTT(30) DEF Good, Agree, TypeOK
  <1>5. Leads(core, core')
    BY <1>2, Zenon DEF Leads, Abstract!Advance
  <1>6. NoCallStranded'
    BY <1>2 DEF IInv, NoCallStranded, Blocked, Waiting
  <1>7. ExitSettles' /\ (Running' => Undropped(core)')
    BY <1>2, Zenon DEF IInv, ExitSettles, Running, Undropped
  <1> QED
    BY <1>4, <1>5, <1>6, <1>7, Zenon DEF IInv, Preserved

(* A change of state of one call keeps the record typed. *)
LEMMA CallerType ==
  ASSUME NEW d \in Core, NEW c \in Calls, NEW x \in CallState
  PROVE  [d EXCEPT !.caller[c] = x] \in Core
  BY Zenon DEF Core

(* send_and_wait on another thread: submission and timeout. *)
LEMMA CallersStep ==
  ASSUME IInv, NEW c \in Calls, CallerSubmits(c) \/ CallerTimesOut(c)
  PROVE  Preserved
  <1>0. core \in Core /\ {"blocked", "disconnected", "timeout"} \subseteq CallState
    BY Zenon DEF IInv, TypeOK, CallState
  <1>1. PICK x \in {"blocked", "disconnected", "timeout"} :
           /\ core' = [core EXCEPT !.caller[c] = x]
           /\ x = "blocked" => c \in syncq'
           /\ syncq \subseteq syncq' /\ syncq' \subseteq Calls
    BY Zenon DEF CallerSubmits, CallerTimesOut, IInv, TypeOK
  <1>2. core' \in Core
    BY <1>0, <1>1, CallerType, Zenon
  <1>3. UNCHANGED <<inbox, closed, loop, exits, subs, world, sends>>
    BY Zenon DEF CallerSubmits, CallerTimesOut
  <1>4. TypeOK'
    BY <1>1, <1>2, <1>3, Zenon DEF IInv, TypeOK, loop, world
  <1> QED
    BY <1>0, <1>1, <1>3, <1>4, CallerStep, Zenon DEF loop

-----------------------------------------------------------------------------
(* The inductive invariant holds initially. *)
LEMMA LooperInit == Init => IInv
  <1> SUFFICES ASSUME Init PROVE IInv
    BY Zenon
  <1>1. core = NewCore
    BY Zenon DEF Init
  <1>2. core \in Core
    BY <1>1, DispatchAssumption, SMTT(30) DEF NewCore, Core, Outcome, CallState
  <1>a. inbox \in Seq(Message) /\ batch \in Seq(BatchEvent) /\ exits \in Seq(Reasons)
    BY DEF Init
  <1>b. first \in [Tokens -> {"none", "reply", "failed", "teardown"}]
    BY Zenon DEF Init
  <1>c. sends \in 0..MaxSends /\ arrivals \in 0..MaxArrivals /\ dispatched \in Nat
    BY LooperAssumption, SMTT(30) DEF Init
  <1>3. TypeOK
    BY <1>2, <1>a, <1>b, <1>c, LooperAssumption, Zenon DEF Init, TypeOK, Reasons
  <1>4. \A t \in Tokens : /\ core.entries[t] = NoEntry
                          /\ core.token_sessions[t] = NoSession
                          /\ core.outcome[t] = "none"
    BY <1>1, Zenon DEF NewCore
  <1>5. AllTokens(core) = {} /\ core.outstanding = 0
    BY <1>1, <1>4, Zenon DEF AllTokens, NewCore
  <1>6. core.outstanding = Cardinality(AllTokens(core))
    BY <1>5, FS_EmptySet, Zenon
  <1>7. Good(core)
    BY <1>2, <1>4, <1>6, Zenon DEF Good, Agree
  <1>8. NoCallStranded
    BY <1>1, Zenon DEF NoCallStranded, Blocked, NewCore
  <1>9. ExitSettles /\ Undropped(core)
    BY <1>4, Zenon DEF ExitSettles, Undropped
  <1> QED
    BY <1>3, <1>7, <1>8, <1>9, Zenon DEF IInv

(* One step of the looper or its environment. *)
LEMMA LooperStep ==
  ASSUME IInv, [Next]_vars
  PROVE  Preserved
  <1>1. CASE Collect
    BY <1>1, CollectStep, Zenon
  <1>2. CASE CollectSync
    BY <1>2, CollectSyncStep, Zenon
  <1>3. CASE CollectClosed \/ StartDispatch \/ EndBatch \/ CloseChannel
    <2>1. TypeOK'
      <3>1. CASE CollectClosed
        BY <3>1, Zenon DEF CollectClosed, IInv, TypeOK, world
      <3>2. CASE StartDispatch
        BY <3>2, Zenon DEF StartDispatch, IInv, TypeOK, world
      <3>3. CASE EndBatch
        BY <3>3, Zenon DEF EndBatch, IInv, TypeOK, world
      <3>4. CASE CloseChannel
        BY <3>4, Zenon DEF CloseChannel, IInv, TypeOK, loop, world
      <3> QED
        BY <1>3, <3>1, <3>2, <3>3, <3>4, Zenon
    <2>2. /\ core' = core
          /\ (pc' = pc) \/ (Running /\ Running')
          /\ batch' = batch /\ syncq' = syncq
      BY <1>3, Zenon DEF CollectClosed, StartDispatch, EndBatch, CloseChannel, Running,
                  loop
    <2>3. \A c \in Waiting : c \in Waiting'
      BY <2>2, Zenon DEF Waiting
    <2> QED
      BY <2>1, <2>2, <2>3, QuietStep, Zenon
  <1>4. CASE DispatchNext
    <2>1. Running
      BY <1>4, Zenon DEF DispatchNext, Running
    <2>2. PICK i \in DOMAIN batch :
            \/ ProcessSync(i) \/ DispatchAnswer(i) \/ DispatchTeardown(i)
            \/ DispatchControl(i) \/ SkipStale(i) \/ DispatchWork(i)
      BY <1>4, Zenon DEF DispatchNext
    <2> QED
      BY <2>1, <2>2, SyncStep, AnswerStep, TeardownStep, ControlStep, StaleStep,
         WorkStep, Zenon
  <1>5. CASE ConnectionLost
    <2>1. PICK r \in {<<"Disconnected">>, <<"Graceful", "Disconnected">>,
                      <<"Failed">>} : RunDestruction(core, r)
      BY <1>5, Zenon DEF ConnectionLost
    <2>a. /\ "Disconnected" \in Reasons /\ "Graceful" \in Reasons
          /\ "Failed" \in Reasons
      BY Zenon DEF Reasons
    <2>2. r \in Seq(Reasons)
      <3>1. <<"Disconnected">> \in Seq(Reasons) /\ <<"Failed">> \in Seq(Reasons)
        BY <2>a
      <3>2. <<"Graceful", "Disconnected">> \in Seq(Reasons)
        BY <2>a
      <3> QED
        BY <3>1, <3>2, Zenon
    <2>3. Running /\ Side
      BY <1>5, Zenon DEF ConnectionLost, Running, Side, IInv, TypeOK
    <2> QED
      BY <2>1, <2>2, <2>3, ReachedCore, DestructionStep, Zenon
  <1>9. CASE InfraFailure
    <2>1. RunDestruction(core, <<"InfraError">>) /\ Running /\ Side
      BY <1>9, Zenon DEF InfraFailure, Running, Side, IInv, TypeOK
    <2>2. <<"InfraError">> \in Seq(Reasons)
      BY DEF Reasons
    <2> QED
      BY <2>1, <2>2, ReachedCore, DestructionStep, Zenon
  <1>6. CASE ArriveAnswer \/ ArriveTeardown \/ ArriveAccepted \/ ArriveOther
    BY <1>6, ArrivalsStep, Zenon
  <1>7. CASE \E c \in Calls : CallerSubmits(c) \/ CallerTimesOut(c)
    BY <1>7, CallersStep, Zenon
  <1>8. CASE UNCHANGED vars
    <2>1. TypeOK' /\ core' = core /\ pc' = pc
      BY <1>8, Zenon DEF vars, loop, world, IInv, TypeOK
    <2>2. \A c \in Waiting : c \in Waiting'
      BY <1>8, Zenon DEF Waiting, vars, loop
    <2> QED
      BY <2>1, <2>2, QuietStep, Zenon
  <1> QED
    BY <1>1, <1>2, <1>3, <1>4, <1>5, <1>6, <1>7, <1>8, <1>9, Zenon
       DEF Next, LooperThread

(* The inductive invariant holds in every state of every behaviour. *)
THEOREM LooperInvariant == Spec => []IInv
  <1>1. IInv /\ [Next]_vars => IInv'
    BY LooperStep, Zenon DEF Preserved
  <1> QED
    BY <1>1, LooperInit, PTL DEF Spec

(* Every variable of the looper keeps its type, whatever arrives. *)
THEOREM LooperTypeCorrect == Spec => []TypeOK
  <1>1. IInv => TypeOK
    BY Zenon DEF IInv
  <1> QED
    BY <1>1, LooperInvariant, PTL

(* The callback table of Dispatch, the token map of the correlator and the *)
(* outstanding count agree after every handler, panics included.           *)
THEOREM TablesAlwaysAgree == Spec => []TablesAgree
  <1>1. IInv => TablesAgree
    BY Zenon DEF IInv, Good, TablesAgree
  <1> QED
    BY <1>1, LooperInvariant, PTL

(* When run() returns, run_destruction has failed every request left. *)
THEOREM ExitAlwaysSettles == Spec => []ExitSettles
  <1>1. IInv => ExitSettles
    BY Zenon DEF IInv
  <1> QED
    BY <1>1, LooperInvariant, PTL

(* No thread stays blocked in send_and_wait with nobody left to answer. *)
THEOREM CallsNeverStranded == Spec => []NoCallStranded
  <1>1. IInv => NoCallStranded
    BY Zenon DEF IInv
  <1> QED
    BY <1>1, LooperInvariant, PTL

(* The looper implements Requests: each request is settled at most once,   *)
(* and what its sender was told never changes.                             *)
THEOREM RequestsSettledOnce == Spec => SettledOnce
  <1>1. Init => Abstract!Init
    BY SMTT(30) DEF Init, NewCore, Abstract!Init
  <1>2. ASSUME IInv, [Next]_vars
        PROVE  [Abstract!Next]_(core.outcome)
    <2>1. IInv' /\ Leads(core, core')
      BY <1>2, LooperStep, Zenon DEF Preserved
    <2>2. /\ core'.outcome \in [Tokens -> Outcome]
          /\ \A t \in Tokens : core'.outcome[t] # "again"
      BY <2>1, CoreFields, Zenon DEF IInv, Good
    <2>3. core'.outcome \in [Tokens -> {"none", "pending"}
                                       \cup Abstract!Ended \cup Abstract!Unsent]
      BY <2>2, Zenon DEF Outcome, Abstract!Ended, Abstract!Unsent
    <2> QED
      BY <2>1, <2>3, Zenon DEF Leads, Abstract!Next
  <1>3. IInv /\ [Next]_vars => [Abstract!Next]_(core.outcome)
    BY <1>2, Zenon
  <1> QED
    BY <1>1, <1>3, LooperInvariant, PTL DEF Spec, SettledOnce, Abstract!Spec

-----------------------------------------------------------------------------
(* The order in which messages arrive and are dispatched. *)

Mem(q) == {q[i] : i \in DOMAIN q}

(* The messages the looper has not dispatched. *)
Around == Mem(inbox) \cup Mem(batch)

(* What may fail the request t when it is dispatched. *)
Failures(t) == {Failed(t), Teardown(core.token_sessions[t])}

(* The reply of t is dispatched before anything that fails it: it is in    *)
(* the batch, whose phases put it first, or it is in the inbox before      *)
(* every failure, with none collected so far.                              *)
ReplyAhead(t) ==
    \/ Reply(t) \in Mem(batch)
    \/ /\ Mem(batch) \cap Failures(t) = {}
       /\ \E i \in DOMAIN inbox :
             /\ inbox[i] = Reply(t)
             /\ \A j \in 1..i : inbox[j] \notin Failures(t)

(* A session is torn down once and never opened again. *)
SessionsOnce ==
    /\ \A s \in Sessions : Teardown(s) \in Around => s \notin live \cup fresh
    /\ live \cap fresh = {}
SessionsAnnounced ==
    \A s \in live \ Opened : s \in subs \/ Accepted(s) \in Around

(* No failure of a request arrives before first knows of it. *)
FirstKnows(t) ==
    /\ t >= core.next_token => first[t] = "none" /\ Failed(t) \notin Around
    /\ (first[t] = "none" /\ core.outcome[t] = "pending") => Failed(t) \notin Around
ReplyFirst(t) ==
    first[t] = "reply" =>
        /\ core.outcome[t] # "failed"
        /\ core.outcome[t] = "pending" => ReplyAhead(t)

SessionInv == Running => SessionsOnce /\ SessionsAnnounced
OrderInv == Running => \A t \in Tokens : FirstKnows(t) /\ ReplyFirst(t)

(* The messages of a queue after one more. *)
LEMMA MemAppend ==
  ASSUME NEW S, NEW q \in Seq(S), NEW m
  PROVE  Mem(Append(q, m)) = Mem(q) \cup {m}
  <1>1. /\ DOMAIN Append(q, m) = DOMAIN q \cup {Len(q) + 1}
        /\ \A i \in DOMAIN q : Append(q, m)[i] = q[i]
        /\ Append(q, m)[Len(q) + 1] = m
    BY SMTT(30)
  <1> QED
    BY <1>1, Zenon DEF Mem

(* The messages of a queue, the first and the others. *)
LEMMA MemTail ==
  ASSUME NEW S, NEW q \in Seq(S), q # <<>>
  PROVE  Mem(q) = {Head(q)} \cup Mem(Tail(q))
  <1>1. /\ Len(q) \in Nat /\ DOMAIN q = 1..Len(q) /\ Len(q) # 0
        /\ Head(q) = q[1]
        /\ DOMAIN Tail(q) = 1..(Len(q) - 1)
        /\ \A i \in 1..(Len(q) - 1) : Tail(q)[i] = q[i + 1]
    OBVIOUS
  <1>2. ASSUME NEW i \in 1..Len(q)
        PROVE  q[i] = Head(q) \/ q[i] \in Mem(Tail(q))
    <2>1. CASE i = 1
      BY <1>1, <2>1, Zenon
    <2>2. CASE i # 1
      <3>1. i - 1 \in 1..(Len(q) - 1) /\ (i - 1) + 1 = i
        BY <1>1, <2>2, SMTT(30)
      <3>2. Tail(q)[i - 1] = q[i]
        BY <1>1, <3>1, Zenon
      <3> QED
        BY <1>1, <3>1, <3>2, Zenon DEF Mem
    <2> QED
      BY <2>1, <2>2, Zenon
  <1>3. ASSUME NEW i \in 1..(Len(q) - 1)
        PROVE  Tail(q)[i] \in Mem(q)
    <2>1. i + 1 \in 1..Len(q) /\ Tail(q)[i] = q[i + 1]
      BY <1>1
    <2> QED
      BY <1>1, <2>1, Zenon DEF Mem
  <1>4. 1 \in DOMAIN q
    BY <1>1, SMTT(30)
  <1> QED
    BY <1>1, <1>2, <1>3, <1>4, Zenon DEF Mem

(* The messages of the batch without one of them. *)
LEMMA MemWithout ==
  ASSUME IInv, NEW i \in DOMAIN batch
  PROVE  /\ Mem(Without(i)) \subseteq Mem(batch)
         /\ Mem(batch) \subseteq Mem(Without(i)) \cup {batch[i]}
  <1> DEFINE w == Without(i)
  <1>1. batch \in Seq(BatchEvent) /\ i \in 1..Len(batch) /\ Len(batch) \in Nat
    BY DEF IInv, TypeOK
  <1>2. /\ w \in Seq(BatchEvent) /\ Len(w) = Len(batch) - 1
        /\ \A j \in 1..Len(batch) : j < i => w[j] = batch[j]
        /\ \A j \in 1..Len(batch) : j > i => w[j - 1] = batch[j]
    BY WithoutIs, Zenon
  <1> HIDE DEF w
  <1>3. DOMAIN w = 1..(Len(batch) - 1) /\ DOMAIN batch = 1..Len(batch)
    BY <1>1, <1>2, SMTT(30)
  <1>4. ASSUME NEW j \in 1..(Len(batch) - 1)
        PROVE  w[j] \in Mem(batch)
    <2>1. CASE j < i
      <3>1. j \in 1..Len(batch)
        BY <1>1, SMTT(30)
      <3> QED
        BY <1>2, <1>3, <2>1, <3>1, Zenon DEF Mem
    <2>2. CASE j >= i
      <3>1. j + 1 \in 1..Len(batch) /\ j + 1 > i /\ (j + 1) - 1 = j
        BY <1>1, <2>2, SMTT(30)
      <3>2. w[j] = batch[j + 1]
        BY <1>2, <3>1, Zenon
      <3> QED
        BY <1>3, <3>1, <3>2, Zenon DEF Mem
    <2> QED
      BY <1>1, <2>1, <2>2, SMTT(30)
  <1>5. ASSUME NEW j \in 1..Len(batch), j # i
        PROVE  batch[j] \in Mem(w)
    <2>1. CASE j < i
      <3>1. j \in 1..(Len(batch) - 1)
        BY <1>1, <2>1, SMTT(30)
      <3> QED
        BY <1>2, <1>3, <2>1, <3>1, Zenon DEF Mem
    <2>2. CASE j > i
      <3>1. j - 1 \in 1..(Len(batch) - 1)
        BY <1>1, <2>2, SMTT(30)
      <3> QED
        BY <1>2, <1>3, <2>2, <3>1, Zenon DEF Mem
    <2> QED
      BY <1>1, <1>5, <2>1, <2>2, SMTT(30)
  <1> QED
    BY <1>3, <1>4, <1>5, Zenon DEF Mem, w

(* The phases of dispatch_batch: a failure or a teardown is taken when the *)
(* batch holds no reply.                                                   *)
LEMMA RepliesFirst ==
  ASSUME IInv, NEW i \in DOMAIN batch, IsNext(i),
         batch[i].kind \in {"Failed", "Teardown"}, NEW t
  PROVE  Reply(t) \notin Mem(batch)
  <1> SUFFICES ASSUME NEW j \in DOMAIN batch, batch[j] = Reply(t) PROVE FALSE
    BY Zenon DEF Mem
  <1>1. batch[j].kind = "Reply"
    BY DEF Reply
  <1>2. Phase(batch[j]) = 1 /\ Phase(batch[i]) \in {2, 3}
    BY <1>1, Zenon DEF Phase
  <1> QED
    BY <1>2, SMTT(30) DEF IsNext

-----------------------------------------------------------------------------
(* Steps after which the looper still runs. *)

(* The requests as one dispatched event leaves them: those issued before   *)
(* are settled by a message about them, or keep what they have.            *)
TokenEffect(m, d) ==
    /\ d.next_token >= core.next_token
    /\ \A t \in Tokens : m = Reply(t) => d.outcome[t] # "pending"
    /\ \A t \in Tokens :
          \/ /\ t < core.next_token
             /\ d.outcome[t] = core.outcome[t]
             /\ d.token_sessions[t] = core.token_sessions[t]
          \/ m = Reply(t) /\ t < core.next_token /\ d.outcome[t] = "replied"
          \/ m \in Failures(t) /\ t < core.next_token
             /\ core.outcome[t] = "pending" /\ d.outcome[t] = "failed"
          \/ t >= core.next_token
             /\ d.outcome[t] \in {"none", "pending"} \cup Unsent

SubsEffect(m) ==
    \/ \E s \in Sessions : m = Teardown(s) /\ subs' = subs \ {s}
    \/ \E s \in Sessions : m = Accepted(s) /\ subs' = subs \cup {s}
    \/ m.kind # "Accepted" /\ subs' = subs

Dispatched(i) ==
    /\ i \in DOMAIN batch /\ IsNext(i) /\ batch' = Without(i)
    /\ UNCHANGED <<inbox, live, fresh, first>>
    /\ TokenEffect(batch[i], core') /\ SubsEffect(batch[i])

(* A handler's end is not a step of a running looper. *)
LEMMA EndsRunning ==
  ASSUME Running', NEW d, NEW r
  PROVE  /\ \A how \in {"stopped", "crashed"} : ~End(d, how, r)
         /\ \A T : ~Unwind(d, T)
         /\ ~RunDestruction(d, r)
  BY Zenon DEF Running, End, Unwind, RunDestruction

(* After a callback the looper goes on with the rest of the batch. *)
LEMMA ResumeRunning ==
  ASSUME Running', NEW f, NEW d, NEW rest, NEW next, Resume(f, d, rest, next)
  PROVE  /\ core' = d /\ batch' = rest /\ f = "Continue"
         /\ UNCHANGED <<inbox, live, fresh, first>>
  BY EndsRunning, Zenon DEF Resume, world

(* Tokens are numbers, and so is the next one. *)
LEMMA TokenNumbers ==
  ASSUME IInv
  PROVE  /\ core.next_token \in Nat /\ Tokens \subseteq Nat /\ core \in Core
         /\ core.next_token >= core.next_token
         /\ \A t \in Tokens : t < core.next_token \/ t >= core.next_token
  <1>1. core.next_token \in Nat /\ Tokens \subseteq Nat /\ core \in Core
    BY TokensFinite, CoreFields, DispatchAssumption, SMTT(30) DEF IInv, TypeOK
  <1> QED
    BY <1>1, SMTT(30)

(* A record that is left alone. *)
LEMMA SameEffect ==
  ASSUME IInv, NEW m,
         \A t \in Tokens : m = Reply(t) => core.outcome[t] # "pending"
  PROVE  TokenEffect(m, core)
  <1>1. /\ core.next_token >= core.next_token
        /\ \A t \in Tokens : t < core.next_token \/ t >= core.next_token
    BY TokenNumbers, Zenon
  <1>2. \A t \in Tokens : t >= core.next_token => core.outcome[t] = "none"
    BY Zenon DEF IInv, Good, Agree
  <1> QED
    BY <1>1, <1>2, Zenon DEF TokenEffect

(* A request sent by a handler gets a token that no message names. *)
LEMMA SendEffect ==
  ASSUME IInv, core.next_token < MaxTokens, NEW s \in Opened, NEW p \in Party,
         NEW written \in BOOLEAN, NEW unsent \in Unsent,
         NEW m, m.kind # "Reply"
  PROVE  TokenEffect(m, SendRequest(core, s, p, written, unsent))
  <1> DEFINE n == core.next_token
             f == Insert(core, s, p)
             g == Tell(f, {n}, unsent)
             r == RecordResolution(g, {n})
  <1>0. core.next_token \in Nat /\ Tokens \subseteq Nat /\ core \in Core
    BY TokenNumbers, Zenon
  <1>1. s \in Sessions /\ n \in Tokens
    BY LooperAssumption, TokenFree, Zenon
  <1>2. /\ f \in Core /\ f.next_token = n + 1
        /\ \A t \in Tokens :
              /\ f.token_sessions[t] = IF t = n THEN s ELSE core.token_sessions[t]
              /\ f.entries[t] = IF t = n THEN p ELSE core.entries[t]
              /\ f.outcome[t] = IF t = n THEN "pending" ELSE core.outcome[t]
    BY <1>0, <1>1, InsertFields, SMTT(30)
  <1>3. {n} \in SUBSET Tokens /\ unsent \in How
    BY <1>1, Zenon DEF How, Unsent
  <1> HIDE DEF f
  <1>4. Taken(f, {n}, unsent, g)
    BY <1>2, <1>3, TellFields, Zenon
  <1> HIDE DEF g
  <1>5. Resolved(g, {n}, r)
    BY <1>3, <1>4, ResolutionFields, Zenon DEF Taken
  <1> HIDE DEF r
  <1>6. /\ g.next_token = f.next_token /\ g.token_sessions = f.token_sessions
        /\ \A t \in Tokens :
              g.outcome[t] = IF t \in {n} /\ f.entries[t] # NoEntry
                               THEN IF f.outcome[t] = "pending"
                                      THEN unsent ELSE "again"
                               ELSE f.outcome[t]
    BY <1>4, Zenon DEF Taken
  <1>7. /\ r.next_token = g.next_token /\ r.outcome = g.outcome
        /\ \A t \in Tokens : r.token_sessions[t] = IF t \in {n} THEN NoSession
                                                   ELSE g.token_sessions[t]
    BY <1>5, Zenon DEF Resolved
  <1>a. p # NoEntry
    BY DispatchAssumption, Zenon DEF Party
  <1>b. r.next_token = n + 1 /\ r.outcome[n] = unsent
    BY <1>1, <1>2, <1>6, <1>7, <1>a, Zenon
  <1>c. \A t \in Tokens :
           t # n => /\ r.token_sessions[t] = core.token_sessions[t]
                    /\ r.outcome[t] = core.outcome[t]
    BY <1>2, <1>6, <1>7, SMTT(30)
  <1> DEFINE e == SendRequest(core, s, p, written, unsent)
  <1>8. e = IF written THEN f ELSE r
    BY Zenon DEF SendRequest, cancel, f, g, r
  <1> HIDE DEF e
  <1>9. /\ e.next_token = n + 1 /\ e.outcome[n] \in {"none", "pending"} \cup Unsent
        /\ \A t \in Tokens :
              t # n => /\ e.token_sessions[t] = core.token_sessions[t]
                       /\ e.outcome[t] = core.outcome[t]
    BY <1>1, <1>2, <1>b, <1>c, <1>8, Zenon
  <1>10. \A t \in Tokens : t >= n => core.outcome[t] = "none"
    BY Zenon DEF IInv, Good, Agree
  <1>11. /\ n + 1 >= n
         /\ \A t \in Tokens : t < n \/ t >= n
         /\ ~(n < n)
    BY <1>0
  <1>12. TokenEffect(m, e)
    <2>1. \A t : m # Reply(t)
      BY SMTT(30) DEF Reply
    <2> QED
      BY <1>9, <1>10, <1>11, <2>1, Zenon DEF TokenEffect
  <1> QED
    BY <1>12, Zenon DEF e

(* dispatch_reply and dispatch_failed settle the token they name. *)
LEMMA AnswerEffect ==
  ASSUME IInv, NEW t \in Tokens, core.entries[t] # NoEntry,
         NEW m \in {Reply(t), Failed(t)}
  PROVE  TokenEffect(m, RecordResolution(Fire(m), {t}))
  <1> DEFINE how == IF m = Reply(t) THEN "replied" ELSE "failed"
             g == Tell(core, {t}, how)
             r == RecordResolution(g, {t})
  <1>0. core.next_token \in Nat /\ Tokens \subseteq Nat /\ core \in Core
    BY TokenNumbers, Zenon
  <1>1. Fire(m) = g
    BY DEF Fire, Reply, Failed, fire_reply, fire_failed
  <1>2. how \in How /\ {t} \in SUBSET Tokens
    BY Zenon DEF How
  <1>3. core.outcome[t] = "pending" /\ ~(t >= core.next_token)
    BY Zenon DEF IInv, Good, Agree
  <1>4. Taken(core, {t}, how, g)
    BY <1>0, <1>2, TellFields, Zenon
  <1> HIDE DEF g, how
  <1>5. Resolved(g, {t}, r)
    BY <1>2, <1>4, ResolutionFields, Zenon DEF Taken
  <1> HIDE DEF r
  <1>6. /\ g.next_token = core.next_token
        /\ g.token_sessions = core.token_sessions
        /\ \A u \in Tokens :
              g.outcome[u] = IF u \in {t} /\ core.entries[u] # NoEntry
                               THEN IF core.outcome[u] = "pending"
                                      THEN how ELSE "again"
                               ELSE core.outcome[u]
    BY <1>4, Zenon DEF Taken
  <1>7. /\ r.next_token = g.next_token /\ r.outcome = g.outcome
        /\ \A u \in Tokens : r.token_sessions[u] = IF u \in {t} THEN NoSession
                                                   ELSE g.token_sessions[u]
    BY <1>5, Zenon DEF Resolved
  <1>8. r.outcome[t] = how /\ r.next_token = core.next_token
    BY <1>3, <1>6, <1>7, Zenon
  <1>9. \A u \in Tokens : u # t => /\ r.token_sessions[u] = core.token_sessions[u]
                                  /\ r.outcome[u] = core.outcome[u]
    BY <1>6, <1>7, Zenon
  <1>10. \A u \in Tokens : u >= core.next_token => core.outcome[u] = "none"
    BY Zenon DEF IInv, Good, Agree
  <1>11. /\ core.next_token >= core.next_token
         /\ \A u \in Tokens : u < core.next_token \/ u >= core.next_token
    BY <1>0, SMTT(30)
  <1>12. \/ m = Reply(t) /\ how = "replied"
         \/ m \in Failures(t) /\ how = "failed"
    BY Zenon DEF Failures, how
  <1>14. \A u \in Tokens : m = Reply(u) => u = t /\ how = "replied"
    BY DEF how, Reply, Failed
  <1>15. how # "pending"
    BY Zenon DEF how
  <1>13. TokenEffect(m, r)
    BY <1>14, <1>15, <1>3, <1>8, <1>9, <1>10, <1>11, <1>12, Zenon DEF TokenEffect
  <1> QED
    BY <1>1, <1>13, Zenon DEF r

(* dispatch_teardown fails the requests of its session. *)
LEMMA TeardownEffect ==
  ASSUME IInv, NEW s \in Sessions
  PROVE  LET T == TokensForSession(core, s)
         IN  TokenEffect(Teardown(s), fail_tokens(CascadeSession(core, s), T))
  <1> DEFINE T == TokensForSession(core, s)
             d == RecordResolution(core, T)
             e == Tell(d, T, "failed")
  <1>0. core.next_token \in Nat /\ Tokens \subseteq Nat /\ core \in Core
    BY TokenNumbers, Zenon
  <1>1. T \in SUBSET Tokens /\ "failed" \in How
    BY Zenon DEF TokensForSession, How
  <1>2. \A t \in T : /\ core.outcome[t] = "pending" /\ core.entries[t] # NoEntry
                     /\ ~(t >= core.next_token) /\ core.token_sessions[t] = s
    BY DispatchAssumption, Zenon DEF IInv, Good, Agree, TokensForSession
  <1> HIDE DEF T
  <1>3. Resolved(core, T, d)
    BY <1>0, <1>1, ResolutionFields, Zenon
  <1> HIDE DEF d
  <1>4. Taken(d, T, "failed", e)
    BY <1>1, <1>3, TellFields, Zenon DEF Resolved
  <1> HIDE DEF e
  <1>5. /\ d.next_token = core.next_token /\ d.outcome = core.outcome
        /\ d.entries = core.entries
        /\ \A u \in Tokens : d.token_sessions[u] = IF u \in T THEN NoSession
                                                   ELSE core.token_sessions[u]
    BY <1>3, Zenon DEF Resolved
  <1>6. /\ e.next_token = d.next_token /\ e.token_sessions = d.token_sessions
        /\ \A u \in Tokens :
              e.outcome[u] = IF u \in T /\ d.entries[u] # NoEntry
                               THEN IF d.outcome[u] = "pending"
                                      THEN "failed" ELSE "again"
                               ELSE d.outcome[u]
    BY <1>4, Zenon DEF Taken
  <1>7. \A u \in T : e.outcome[u] = "failed"
    BY <1>1, <1>2, <1>5, <1>6, Zenon
  <1>8. \A u \in Tokens \ T : /\ e.token_sessions[u] = core.token_sessions[u]
                              /\ e.outcome[u] = core.outcome[u]
    BY <1>5, <1>6, Zenon
  <1>9. e.next_token = core.next_token
    BY <1>5, <1>6, Zenon
  <1>10. \A u \in Tokens : u >= core.next_token => core.outcome[u] = "none"
    BY Zenon DEF IInv, Good, Agree
  <1>11. /\ core.next_token >= core.next_token
         /\ \A u \in Tokens : u < core.next_token \/ u >= core.next_token
    BY <1>0, SMTT(30)
  <1>12. \A u \in T : Teardown(s) \in Failures(u)
    BY <1>2, Zenon DEF Failures
  <1>14. \A u : Teardown(s) # Reply(u)
    BY Zenon DEF Teardown, Reply
  <1>13. TokenEffect(Teardown(s), e)
    BY <1>14, <1>1, <1>2, <1>7, <1>8, <1>9, <1>10, <1>11, <1>12, Zenon DEF TokenEffect
  <1> QED
    BY <1>13, Zenon DEF CascadeSession, fail_tokens, d, e, T

(* An event is determined by its kind and its token or session. *)
LEMMA EventForms ==
  ASSUME IInv, NEW i \in DOMAIN batch
  PROVE  LET m == batch[i]
         IN  /\ m.kind = "Reply" => m = Reply(m.token)
             /\ m.kind = "Failed" => m = Failed(m.token)
             /\ m.kind = "Teardown" => m = Teardown(m.session)
             /\ m.kind = "Accepted" => m = Accepted(m.session)
  <1>1. batch[i] \in BatchEvent
    BY DEF IInv, TypeOK
  <1> QED
    BY <1>1, Zenon DEF BatchEvent, Message, Reply, Failed, Teardown, Accepted

(* What dispatching one event does to the requests and the subscribers. *)
LEMMA DispatchedStep ==
  ASSUME IInv, Running', DispatchNext
  PROVE  \E i \in DOMAIN batch : Dispatched(i)
  <1>1. PICK i \in DOMAIN batch :
          /\ IsNext(i)
          /\ \/ ProcessSync(i) \/ DispatchAnswer(i) \/ DispatchTeardown(i)
             \/ DispatchControl(i) \/ SkipStale(i) \/ DispatchWork(i)
    BY Zenon DEF DispatchNext
  <1> DEFINE m == batch[i]
  <1>2. SUFFICES /\ batch' = Without(i) /\ UNCHANGED <<inbox, live, fresh, first>>
                 /\ TokenEffect(m, core') /\ SubsEffect(m)
    BY <1>1, Zenon DEF Dispatched
  <1>3. CASE ProcessSync(i)
    <2>1. PICK s \in Opened, written \in BOOLEAN :
            Resume("Continue",
                   SendRequest(core, s, m.call, written, "refused"),
                   Without(i), "dispatch")
      BY <1>3, Zenon DEF ProcessSync
    <2>2. /\ m.call \in Party /\ core.next_token < MaxTokens
          /\ m.kind # "Accepted" /\ m.kind # "Reply" /\ subs' = subs
      BY <1>3, EventTypes, Zenon DEF ProcessSync, Party
    <2>3. TokenEffect(m, SendRequest(core, s, m.call, written, "refused"))
      BY <2>2, SendEffect, Zenon DEF Unsent
    <2> QED
      BY <2>1, <2>2, <2>3, ResumeRunning, Zenon DEF SubsEffect
  <1>4. CASE DispatchAnswer(i)
    <2> DEFINE t == m.token
               settled == RecordResolution(Fire(m), {t})
    <2>1. /\ t \in Tokens /\ m \in {Reply(t), Failed(t)}
          /\ m.kind # "Accepted" /\ subs' = subs
      BY <1>4, EventTypes, EventForms, Zenon DEF DispatchAnswer
    <2>2. core.entries[t] \in Calls \cup {Handler, NoEntry}
      BY <2>1, CoreFields, Zenon DEF IInv, TypeOK
    <2>3. CASE core.entries[t] = NoEntry
      <3>1. Resume("Continue", core, Without(i), "dispatch")
        BY <1>4, <2>3, DispatchAssumption, Zenon DEF DispatchAnswer, Unmatched
      <3>2. core.outcome[t] # "pending" /\ \A u : m = Reply(u) => u = t
        BY <2>1, <2>3, SMTT(30) DEF IInv, Good, Agree, Reply, Failed
      <3> QED
        BY <2>1, <3>1, <3>2, SameEffect, ResumeRunning, Zenon DEF SubsEffect
    <2>4. CASE core.entries[t] # NoEntry
      <3>1. TokenEffect(m, settled)
        BY <2>1, <2>4, AnswerEffect, Zenon
      <3>2. \/ Resume("Continue", settled, Without(i), "dispatch")
            \/ \E f \in Flow :
                  Resume(f, IF f = "Panic" THEN Fire(m) ELSE settled,
                         Without(i), "dispatch")
        BY <1>4, <2>2, <2>4, DispatchAssumption, Zenon DEF DispatchAnswer, Unmatched
      <3> HIDE DEF settled
      <3>3. /\ core' = settled /\ batch' = Without(i)
            /\ UNCHANGED <<inbox, live, fresh, first>>
        <4>1. CASE Resume("Continue", settled, Without(i), "dispatch")
          BY <4>1, ResumeRunning, Zenon
        <4>2. CASE \E f \in Flow :
                  Resume(f, IF f = "Panic" THEN Fire(m) ELSE settled,
                         Without(i), "dispatch")
          <5>1. PICK f \in Flow :
                  Resume(f, IF f = "Panic" THEN Fire(m) ELSE settled,
                         Without(i), "dispatch")
            BY <4>2, Zenon
          <5>2. f = "Continue"
            BY <5>1, ResumeRunning, Zenon
          <5>3. Resume(f, settled, Without(i), "dispatch")
            BY <5>1, <5>2, Zenon
          <5> QED
            BY <5>3, ResumeRunning, Zenon
        <4> QED
          BY <3>2, <4>1, <4>2, Zenon
      <3> QED
        BY <2>1, <3>1, <3>3, Zenon DEF SubsEffect
    <2> QED
      BY <2>3, <2>4, Zenon
  <1>5. CASE DispatchTeardown(i)
    <2> DEFINE s == m.session
               T == TokensForSession(core, s)
               e == fail_tokens(CascadeSession(core, s), T)
    <2>1. s \in Sessions /\ m = Teardown(s)
      BY <1>5, EventTypes, EventForms, Zenon DEF DispatchTeardown
    <2>2. /\ \E f \in Flow : Resume(f, e, Without(i), "dispatch")
          /\ subs' = subs \ {s}
      BY <1>5, EndsRunning, Zenon DEF DispatchTeardown
    <2>3. TokenEffect(m, e)
      BY <2>1, TeardownEffect, Zenon
    <2> HIDE DEF e
    <2> QED
      BY <2>1, <2>2, <2>3, ResumeRunning, Zenon DEF SubsEffect
  <1>6. CASE DispatchControl(i)
    <2>1. /\ \E f \in Flow : Resume(f, core, Without(i), "dispatch")
          /\ subs' = IF m.kind = "Accepted" THEN subs \cup {m.session} ELSE subs
      BY <1>6, Zenon DEF DispatchControl, Flow
    <2>a. \A t : m # Reply(t)
      BY <1>6, SMTT(30) DEF DispatchControl, Reply
    <2>2. m.kind = "Accepted" => m.session \in Sessions /\ m = Accepted(m.session)
      BY EventTypes, EventForms, Zenon
    <2>3. SubsEffect(m)
      BY <2>1, <2>2, Zenon DEF SubsEffect
    <2> QED
      BY <2>1, <2>3, <2>a, SameEffect, ResumeRunning, Zenon
  <1>7. CASE SkipStale(i)
    <2>1. /\ Resume("Continue", core, Without(i), "dispatch")
          /\ m.kind # "Accepted" /\ subs' = subs
      BY <1>7, Zenon DEF SkipStale
    <2>2. \A t : m # Reply(t)
      BY <1>7, SMTT(30) DEF SkipStale, Reply
    <2> QED
      BY <2>1, <2>2, SameEffect, ResumeRunning, Zenon DEF SubsEffect
  <1>8. CASE DispatchWork(i)
    <2>1. m.kind # "Accepted" /\ m.kind # "Reply" /\ subs' = subs
      BY <1>8, Zenon DEF DispatchWork
    <2>a. \A t : m # Reply(t)
      BY <2>1, SMTT(40), ZenonT(20) DEF Reply
    <2>2. PICK f \in Flow, next \in {"collect", "dispatch"} :
             \/ Resume(f, core, Without(i), next)
             \/ /\ core.next_token < MaxTokens
                /\ \E s \in Opened, written \in BOOLEAN, unsent \in Unsent :
                      Resume(f, SendRequest(core, s, Handler, written, unsent),
                             Without(i), next)
      BY <1>8, Zenon DEF DispatchWork
    <2>3. CASE Resume(f, core, Without(i), next)
      BY <2>1, <2>3, <2>a, SameEffect, ResumeRunning, Zenon DEF SubsEffect
    <2>4. CASE /\ core.next_token < MaxTokens
               /\ \E s \in Opened, written \in BOOLEAN, unsent \in Unsent :
                     Resume(f, SendRequest(core, s, Handler, written, unsent),
                            Without(i), next)
      <3>1. PICK s \in Opened, written \in BOOLEAN, unsent \in Unsent :
               Resume(f, SendRequest(core, s, Handler, written, unsent), Without(i),
                    next)
        BY <2>4, Zenon
      <3>2. TokenEffect(m, SendRequest(core, s, Handler, written, unsent))
        BY <2>1, <2>4, SendEffect, Zenon DEF Party
      <3> QED
        BY <2>1, <3>1, <3>2, ResumeRunning, Zenon DEF SubsEffect
    <2> QED
      BY <2>2, <2>3, <2>4, Zenon
  <1> QED
    BY <1>1, <1>3, <1>4, <1>5, <1>6, <1>7, <1>8, Zenon

(* A step that leaves the messages to the looper and the sessions alone. *)
Still ==
    /\ UNCHANGED <<inbox, live, fresh, first, subs>>
    /\ core'.next_token = core.next_token /\ core'.outcome = core.outcome
    /\ core'.token_sessions = core.token_sessions

Arrives ==
    /\ \/ ArriveAnswer \/ ArriveTeardown \/ ArriveAccepted \/ ArriveOther
    /\ UNCHANGED <<batch, core, subs>>

(* The steps of a looper that goes on running. *)
LEMMA RunningSteps ==
  ASSUME IInv, [Next]_vars, Running'
  PROVE  /\ Running
         /\ \/ \E i \in DOMAIN batch : Dispatched(i)
            \/ Collect \/ Arrives
            \/ Still /\ (batch' = batch
                           \/ \E c \in Calls : batch' = Append(batch, Sync(c)))
  <1>1. CASE Collect
    BY <1>1, Zenon DEF Collect, Running
  <1>2. CASE CollectSync
    BY <1>2, Zenon DEF CollectSync, Running, Still, IInv, TypeOK, world
  <1>3. CASE CollectClosed \/ StartDispatch \/ EndBatch \/ CloseChannel
    BY <1>3, Zenon DEF CollectClosed, StartDispatch, EndBatch, CloseChannel, Running,
                Still, loop, world
  <1>4. CASE DispatchNext
    BY <1>4, DispatchedStep, Zenon DEF DispatchNext, Running
  <1>5. CASE ConnectionLost \/ InfraFailure
    BY <1>5, EndsRunning, Zenon DEF ConnectionLost, InfraFailure
  <1>6. CASE ArriveAnswer \/ ArriveTeardown \/ ArriveAccepted \/ ArriveOther
    BY <1>6, Zenon DEF ArriveAnswer, ArriveTeardown, ArriveAccepted, ArriveOther, Arrive,
                Arrives, loop
  <1>7. CASE \E c \in Calls : CallerSubmits(c) \/ CallerTimesOut(c)
    <2>1. PICK c \in Calls, x \in {"blocked", "disconnected", "timeout"} :
            /\ core' = [core EXCEPT !.caller[c] = x]
            /\ UNCHANGED <<inbox, loop, subs, world>>
      BY <1>7, Zenon DEF CallerSubmits, CallerTimesOut
    <2>2. core \in Core
      BY Zenon DEF IInv, TypeOK
    <2>3. /\ core'.next_token = core.next_token /\ core'.outcome = core.outcome
          /\ core'.token_sessions = core.token_sessions
      BY <2>1, <2>2, Zenon DEF Core
    <2> QED
      BY <2>1, <2>3, Zenon DEF Still, Running, loop, world
  <1>8. CASE UNCHANGED vars
    BY <1>8, Zenon DEF vars, loop, world, Still, Running
  <1> QED
    BY <1>1, <1>2, <1>3, <1>4, <1>5, <1>6, <1>7, <1>8, Zenon DEF Next, LooperThread

-----------------------------------------------------------------------------
(* The messages a step leaves to the looper. *)

(* Dispatching takes one event, and no other, out of the batch. *)
LEMMA AroundDispatched ==
  ASSUME IInv, NEW i \in DOMAIN batch, Dispatched(i)
  PROVE  /\ Around' \subseteq Around /\ Around \subseteq Around' \cup {batch[i]}
         /\ Mem(batch)' \subseteq Mem(batch)
         /\ Mem(batch) \subseteq Mem(batch)' \cup {batch[i]}
         /\ batch[i] \in Mem(batch)
  <1>1. /\ Mem(Without(i)) \subseteq Mem(batch)
        /\ Mem(batch) \subseteq Mem(Without(i)) \cup {batch[i]}
    BY MemWithout, Zenon
  <1>2. Mem(batch)' = Mem(Without(i)) /\ Mem(inbox)' = Mem(inbox)
    BY Zenon DEF Dispatched, Mem
  <1> QED
    BY <1>1, <1>2, Zenon DEF Around, Mem

(* Collecting moves a message from the inbox to the batch; only a second   *)
(* LocalRevoke of a session is left out.                                   *)
LEMMA AroundCollect ==
  ASSUME IInv, Collect
  PROVE  /\ Around' \subseteq Around
         /\ \A x \in Around : x.kind # "LocalRevoke" => x \in Around'
         /\ Mem(batch) \subseteq Mem(batch)'
         /\ Mem(batch)' \subseteq Mem(batch) \cup {Head(inbox)}
         /\ Head(inbox).kind # "LocalRevoke" => Head(inbox) \in Mem(batch)'
  <1> DEFINE m == Head(inbox)
  <1>1. /\ inbox \in Seq(Message) /\ inbox # <<>> /\ batch \in Seq(BatchEvent)
        /\ inbox' = Tail(inbox)
        /\ batch' = IF Queued(m) THEN Append(batch, m) ELSE batch
    BY Zenon DEF Collect, IInv, TypeOK
  <1>2. Mem(inbox) = {m} \cup Mem(inbox)'
    <2>1. Mem(inbox) = {m} \cup Mem(Tail(inbox))
      BY <1>1, MemTail, Zenon
    <2> QED
      BY <1>1, <2>1, Zenon DEF Mem
  <1>3. Mem(batch)' = IF Queued(m) THEN Mem(batch) \cup {m} ELSE Mem(batch)
    <2>1. Mem(Append(batch, m)) = Mem(batch) \cup {m}
      BY <1>1, MemAppend, Zenon
    <2> QED
      BY <1>1, <2>1, Zenon DEF Mem
  <1>4. m.kind # "LocalRevoke" => Queued(m)
    BY Zenon DEF Queued
  <1> QED
    BY <1>2, <1>3, <1>4, Zenon DEF Around

(* An arriving message is put behind the others. *)
LEMMA AroundArrive ==
  ASSUME IInv, NEW m, NEW f, Arrive(m, f), batch' = batch
  PROVE  /\ Around' = Around \cup {m} /\ Mem(batch)' = Mem(batch)
         /\ first' = f /\ inbox' = Append(inbox, m)
  <1>1. inbox \in Seq(Message) /\ inbox' = Append(inbox, m) /\ first' = f
    BY Zenon DEF Arrive, IInv, TypeOK
  <1>2. Mem(Append(inbox, m)) = Mem(inbox) \cup {m}
    BY <1>1, MemAppend, Zenon
  <1>3. Mem(inbox)' = Mem(inbox) \cup {m} /\ Mem(batch)' = Mem(batch)
    BY <1>1, <1>2, Zenon DEF Mem
  <1> QED
    BY <1>1, <1>3, Zenon DEF Around

(* The other steps bring at most a SyncRequest. *)
LEMMA AroundStill ==
  ASSUME IInv, Still,
         batch' = batch \/ \E c \in Calls : batch' = Append(batch, Sync(c))
  PROVE  /\ Around \subseteq Around' /\ Mem(batch) \subseteq Mem(batch)'
         /\ \A x \in Around' : x.kind # "Sync" => x \in Around
         /\ \A x \in Mem(batch)' : x.kind # "Sync" => x \in Mem(batch)
  <1>1. Mem(inbox)' = Mem(inbox)
    BY Zenon DEF Still, Mem
  <1>2. CASE batch' = batch
    BY <1>1, <1>2, Zenon DEF Mem, Around
  <1>3. CASE \E c \in Calls : batch' = Append(batch, Sync(c))
    <2>1. PICK c \in Calls : batch' = Append(batch, Sync(c))
      BY <1>3, Zenon
    <2>2. batch \in Seq(BatchEvent)
      BY Zenon DEF IInv, TypeOK
    <2>3. Mem(Append(batch, Sync(c))) = Mem(batch) \cup {Sync(c)}
      BY <2>2, MemAppend, Zenon
    <2>4. Mem(batch)' = Mem(batch) \cup {Sync(c)} /\ Sync(c).kind = "Sync"
      BY <2>1, <2>3, Zenon DEF Mem, Sync
    <2> QED
      BY <1>1, <2>4, Zenon DEF Around
  <1> QED
    BY <1>2, <1>3, Zenon

(* Messages of different kinds differ. *)
LEMMA MessagesDiffer ==
  ASSUME NEW s, NEW t, NEW u
  PROVE  /\ Reply(t).kind = "Reply" /\ Failed(t).kind = "Failed"
         /\ Teardown(s).kind = "Teardown" /\ Accepted(s).kind = "Accepted"
         /\ Request(s).kind = "Request" /\ Notification(s).kind = "Notification"
         /\ LocalRevoke(s).kind = "LocalRevoke" /\ Lifecycle.kind = "Lifecycle"
         /\ PaneExited.kind = "PaneExited"
         /\ Teardown(s) = Teardown(u) => s = u
         /\ Accepted(s) = Accepted(u) => s = u
         /\ Failed(s) = Failed(u) => s = u
         /\ Reply(s) = Reply(u) => s = u
  BY Zenon DEF Reply, Failed, Teardown, Accepted, Request, Notification, LocalRevoke,
         Lifecycle, PaneExited

(* The messages that concern neither requests nor the set of sessions. *)
LEMMA OtherArrives ==
  ASSUME IInv, ArriveOther
  PROVE  \E m : /\ Arrive(m, first) /\ UNCHANGED <<live, fresh>>
                /\ m.kind \notin {"Reply", "Failed", "Teardown", "Accepted"}
  BY MessagesDiffer, Zenon DEF ArriveOther

-----------------------------------------------------------------------------
(* subscriber_connected() is never missed: the announcement of a session   *)
(* stays in the inbox or the batch until the handler is told, and only a   *)
(* teardown, which the server sends once, takes the subscriber away.       *)
LEMMA SessionStep ==
  ASSUME IInv, SessionInv, [Next]_vars
  PROVE  SessionInv'
  <1> SUFFICES ASSUME Running' PROVE SessionsOnce' /\ SessionsAnnounced'
    BY Zenon DEF SessionInv
  <1>0. SessionsOnce /\ SessionsAnnounced /\ Running
    BY RunningSteps, Zenon DEF SessionInv
  <1>1. CASE \E i \in DOMAIN batch : Dispatched(i)
    <2>1. PICK i \in DOMAIN batch : Dispatched(i)
      BY <1>1, Zenon
    <2>2. /\ Around' \subseteq Around /\ Around \subseteq Around' \cup {batch[i]}
          /\ batch[i] \in Around
      BY <2>1, AroundDispatched, Zenon DEF Around
    <2>3. live' = live /\ fresh' = fresh /\ SubsEffect(batch[i])
      BY <2>1, Zenon DEF Dispatched
    <2>4. SessionsOnce'
      BY <1>0, <2>2, <2>3, Zenon DEF SessionsOnce
    <2>5. ASSUME NEW s \in live' \ Opened
          PROVE  s \in subs' \/ Accepted(s) \in Around'
      <3>1. s \in Sessions /\ (s \in subs \/ Accepted(s) \in Around)
        BY <1>0, <2>3, Zenon DEF SessionsAnnounced, IInv, TypeOK
      <3>2. Teardown(s) \notin Around
        BY <1>0, <2>3, <3>1, Zenon DEF SessionsOnce
      <3>3. CASE Accepted(s) \in Around'
        BY <3>3, Zenon
      <3>4. CASE Accepted(s) \notin Around' /\ Accepted(s) \in Around
        <4>1. batch[i] = Accepted(s)
          BY <2>2, <3>4, Zenon
        <4> QED
          BY <2>3, <4>1, MessagesDiffer, SMTT(40), ZenonT(20) DEF SubsEffect
      <3>5. CASE s \in subs
        BY <2>2, <2>3, <3>2, <3>5, MessagesDiffer, Zenon DEF SubsEffect
      <3> QED
        BY <3>1, <3>3, <3>4, <3>5, Zenon
    <2> QED
      BY <2>4, <2>5, Zenon DEF SessionsAnnounced
  <1>2. CASE Collect
    <2>1. live' = live /\ fresh' = fresh /\ subs' = subs
      BY <1>2, Zenon DEF Collect, world
    <2>2. /\ Around' \subseteq Around
          /\ \A s : Accepted(s) \in Around => Accepted(s) \in Around'
      BY <1>2, AroundCollect, MessagesDiffer, Zenon
    <2> QED
      BY <1>0, <2>1, <2>2, Zenon DEF SessionsOnce, SessionsAnnounced
  <1>3. CASE Still /\ (batch' = batch
                         \/ \E c \in Calls : batch' = Append(batch, Sync(c)))
    <2>1. live' = live /\ fresh' = fresh /\ subs' = subs
      BY <1>3, Zenon DEF Still
    <2>2. /\ Around \subseteq Around'
          /\ \A s : Teardown(s) \in Around' => Teardown(s) \in Around
      BY <1>3, AroundStill, MessagesDiffer, Zenon
    <2> QED
      BY <1>0, <2>1, <2>2, Zenon DEF SessionsOnce, SessionsAnnounced
  <1>4. CASE Arrives
    <2>0. batch' = batch /\ subs' = subs
      BY <1>4, Zenon DEF Arrives
    <2>1. CASE ArriveAnswer \/ ArriveOther
      <3>1. PICK m : /\ \E f : Arrive(m, f)
                     /\ m.kind \notin {"Teardown", "Accepted"}
        BY <2>1, OtherArrives, MessagesDiffer, Zenon DEF ArriveAnswer
      <3>2. live' = live /\ fresh' = fresh
        BY <2>1, Zenon DEF ArriveAnswer, ArriveOther
      <3>3. Around' = Around \cup {m}
        BY <2>0, <3>1, AroundArrive, Zenon
      <3>4. \A s : Teardown(s) # m
        BY <3>1, MessagesDiffer, SMTT(30)
      <3> QED
        BY <1>0, <2>0, <3>2, <3>3, <3>4, Zenon DEF SessionsOnce, SessionsAnnounced
    <2>2. CASE ArriveTeardown
      <3>1. PICK s \in live : /\ \E f : Arrive(Teardown(s), f)
                              /\ live' = live \ {s} /\ fresh' = fresh
        BY <2>2, Zenon DEF ArriveTeardown
      <3>2. Around' = Around \cup {Teardown(s)}
        BY <2>0, <3>1, AroundArrive, Zenon
      <3>3. \A u : Teardown(u) = Teardown(s) => u = s
        BY MessagesDiffer, SMTT(30)
      <3> QED
        BY <1>0, <2>0, <3>1, <3>2, <3>3, Zenon DEF SessionsOnce, SessionsAnnounced
    <2>3. CASE ArriveAccepted
      <3>1. PICK s \in fresh : /\ \E f : Arrive(Accepted(s), f)
                               /\ live' = live \cup {s} /\ fresh' = fresh \ {s}
        BY <2>3, Zenon DEF ArriveAccepted
      <3>2. Around' = Around \cup {Accepted(s)}
        BY <2>0, <3>1, AroundArrive, Zenon
      <3>3. \A u : Teardown(u) # Accepted(s)
        BY MessagesDiffer, SMTT(30)
      <3> QED
        BY <1>0, <2>0, <3>1, <3>2, <3>3, Zenon DEF SessionsOnce, SessionsAnnounced
    <2> QED
      BY <1>4, <2>1, <2>2, <2>3, Zenon DEF Arrives
  <1> QED
    BY <1>1, <1>2, <1>3, <1>4, RunningSteps, Zenon

-----------------------------------------------------------------------------
(* What is put behind a reply does not overtake it. *)
LEMMA AheadAppend ==
  ASSUME IInv, NEW t, ReplyAhead(t), NEW m, inbox' = Append(inbox, m),
         batch' = batch, core' = core
  PROVE  ReplyAhead(t)'
  <1>1. inbox \in Seq(Message) /\ Len(inbox) \in Nat
    BY SMTT(30) DEF IInv, TypeOK
  <1>2. \A i \in DOMAIN inbox : /\ i \in DOMAIN inbox' /\ inbox'[i] = inbox[i]
                                /\ 1..i \subseteq DOMAIN inbox
    BY <1>1, SMTT(30)
  <1> QED
    BY <1>2, Zenon DEF ReplyAhead, Mem, Failures

(* Collecting takes the first message: the reply, or one before it. *)
LEMMA AheadCollect ==
  ASSUME IInv, NEW t, ReplyAhead(t), Collect
  PROVE  ReplyAhead(t)'
  <1>1. /\ Mem(batch) \subseteq Mem(batch)'
        /\ Mem(batch)' \subseteq Mem(batch) \cup {Head(inbox)}
        /\ Head(inbox).kind # "LocalRevoke" => Head(inbox) \in Mem(batch)'
    BY AroundCollect, Zenon
  <1>2. core' = core /\ inbox' = Tail(inbox) /\ inbox # <<>>
    BY Zenon DEF Collect
  <1>3. inbox \in Seq(Message) /\ Len(inbox) \in Nat
    BY SMTT(30) DEF IInv, TypeOK
  <1>4. CASE Reply(t) \in Mem(batch)
    BY <1>1, <1>4, Zenon DEF ReplyAhead
  <1>5. ASSUME Mem(batch) \cap Failures(t) = {}, NEW i \in DOMAIN inbox,
               inbox[i] = Reply(t), \A j \in 1..i : inbox[j] \notin Failures(t)
        PROVE  ReplyAhead(t)'
    <2>1. i \in 1..Len(inbox) /\ Head(inbox) = inbox[1] /\ 1 \in 1..i
      BY <1>2, <1>3, SMTT(30)
    <2>2. CASE i = 1
      <3>1. Reply(t) \in Mem(batch)'
        BY <1>1, <1>5, <2>1, <2>2, SMTT(40), ZenonT(20) DEF Reply
      <3> QED
        BY <3>1, Zenon DEF ReplyAhead
    <2>3. CASE i # 1
      <3>1. Mem(batch)' \cap Failures(t) = {}
        BY <1>1, <1>5, <2>1, Zenon
      <3>2. /\ i - 1 \in DOMAIN Tail(inbox) /\ Tail(inbox)[i - 1] = inbox[i]
            /\ \A j \in 1..(i - 1) : j + 1 \in 1..i /\ Tail(inbox)[j] = inbox[j + 1]
        BY <1>2, <1>3, <2>1, <2>3, SMTT(30)
      <3>3. \A j \in 1..(i - 1) : inbox'[j] \notin Failures(t)
        BY <1>2, <1>5, <3>2, Zenon
      <3>4. Failures(t)' = Failures(t)
        BY <1>2, Zenon DEF Failures
      <3>5. i - 1 \in DOMAIN inbox' /\ inbox'[i - 1] = Reply(t)
        BY <1>2, <1>5, <3>2, Zenon
      <3> QED
        BY <3>1, <3>3, <3>4, <3>5, Zenon DEF ReplyAhead
    <2> QED
      BY <2>2, <2>3, Zenon
  <1> QED
    BY <1>4, <1>5, Zenon DEF ReplyAhead

(* A reply that arrives for a request nothing else has arrived for. *)
LEMMA AheadArrives ==
  ASSUME IInv, NEW t, Around \cap Failures(t) = {},
         inbox' = Append(inbox, Reply(t)), batch' = batch, core' = core
  PROVE  ReplyAhead(t)'
  <1>1. inbox \in Seq(Message) /\ Len(inbox) \in Nat
    BY SMTT(30) DEF IInv, TypeOK
  <1> DEFINE n == Len(inbox) + 1
  <1>2. /\ n \in DOMAIN inbox' /\ inbox'[n] = Reply(t)
        /\ \A j \in 1..n : j = n \/ (j \in DOMAIN inbox /\ inbox'[j] = inbox[j])
    BY <1>1, SMTT(30)
  <1>3. Failures(t)' = Failures(t) /\ Reply(t) \notin Failures(t)
    BY Zenon DEF Failures, Reply, Failed, Teardown
  <1>4. \A j \in 1..n : inbox'[j] \notin Failures(t)
    BY <1>2, <1>3, Zenon DEF Around, Mem
  <1>5. Mem(batch)' \cap Failures(t) = {}
    BY Zenon DEF Around, Mem
  <1> QED
    BY <1>2, <1>3, <1>4, <1>5, Zenon DEF ReplyAhead

(* No step lets a failure overtake the reply of a request. *)
LEMMA OrderStep ==
  ASSUME IInv, SessionInv, OrderInv, [Next]_vars
  PROVE  OrderInv'
  <1> SUFFICES ASSUME Running', NEW t \in Tokens
               PROVE  FirstKnows(t)' /\ ReplyFirst(t)'
    BY Zenon DEF OrderInv
  <1>0. /\ Running /\ FirstKnows(t) /\ ReplyFirst(t)
        /\ SessionsOnce
    BY RunningSteps, Zenon DEF OrderInv, SessionInv
  <1>n. /\ core.next_token \in Nat /\ t \in Nat
        /\ t < core.next_token \/ t >= core.next_token
    BY TokenNumbers, Zenon
  <1>1. CASE \E i \in DOMAIN batch : Dispatched(i)
    <2>1. PICK i \in DOMAIN batch : Dispatched(i)
      BY <1>1, Zenon
    <2> DEFINE m == batch[i]
    <2>2. /\ Around' \subseteq Around /\ Mem(batch)' \subseteq Mem(batch)
          /\ Mem(batch) \subseteq Mem(batch)' \cup {m} /\ m \in Mem(batch)
      BY <2>1, AroundDispatched, Zenon
    <2>3. /\ IsNext(i) /\ inbox' = inbox /\ first' = first
          /\ TokenEffect(m, core')
      BY <2>1, ZenonT(30) DEF Dispatched
    <2>4. core'.next_token \in Nat /\ core'.next_token >= core.next_token
      BY <2>3, LooperStep, CoreFields, DispatchAssumption,
         SMTT(40), ZenonT(20) DEF TokenEffect, Preserved, IInv, TypeOK
    <2>5. m = Reply(t) => core'.outcome[t] # "pending"
      BY <2>3, Zenon DEF TokenEffect
    <2>6. CASE /\ t < core.next_token /\ core'.outcome[t] = core.outcome[t]
               /\ core'.token_sessions[t] = core.token_sessions[t]
      <3>1. ~(t >= core'.next_token)
        BY <1>n, <2>4, <2>6, SMTT(40), ZenonT(20)
      <3>2. FirstKnows(t)'
        BY <1>0, <2>2, <2>3, <2>6, <3>1, Zenon DEF FirstKnows
      <3>3. Failures(t)' = Failures(t)
        BY <2>6, Zenon DEF Failures
      <3>4. core'.outcome[t] = "pending" /\ ReplyAhead(t) => ReplyAhead(t)'
        BY <2>2, <2>3, <2>5, <3>3, Zenon DEF ReplyAhead
      <3> QED
        BY <1>0, <2>3, <2>6, <3>2, <3>4, Zenon DEF ReplyFirst
    <2>7. CASE m = Reply(t) /\ t < core.next_token /\ core'.outcome[t] = "replied"
      <3>1. ~(t >= core'.next_token)
        BY <1>n, <2>4, <2>7, SMTT(30)
      <3> QED
        BY <2>7, <3>1, Zenon DEF FirstKnows, ReplyFirst
    <2>8. CASE /\ m \in Failures(t) /\ t < core.next_token
               /\ core.outcome[t] = "pending" /\ core'.outcome[t] = "failed"
      <3>1. ~(t >= core'.next_token)
        BY <1>n, <2>4, <2>8, SMTT(30)
      <3>2. m.kind \in {"Failed", "Teardown"}
        BY <2>8, MessagesDiffer, SMTT(40), ZenonT(20) DEF Failures
      <3>3. Reply(t) \notin Mem(batch)
        BY <2>3, <3>2, RepliesFirst, Zenon
      <3>4. ~ReplyAhead(t)
        BY <2>2, <2>8, <3>3, Zenon DEF ReplyAhead
      <3>5. first'[t] # "reply"
        BY <1>0, <2>3, <2>8, <3>4, Zenon DEF ReplyFirst
      <3> QED
        BY <2>8, <3>1, <3>5, Zenon DEF FirstKnows, ReplyFirst
    <2>9. CASE t >= core.next_token
      <3>1. first'[t] = "none" /\ Failed(t) \notin Around'
        BY <1>0, <2>2, <2>3, <2>9, Zenon DEF FirstKnows
      <3> QED
        BY <3>1, Zenon DEF FirstKnows, ReplyFirst
    <2> QED
      BY <2>3, <2>6, <2>7, <2>8, <2>9, Zenon DEF TokenEffect
  <1>2. CASE Collect
    <2>1. core' = core /\ first' = first /\ Around' \subseteq Around
      BY <1>2, AroundCollect, Zenon DEF Collect, world
    <2>2. ReplyAhead(t) => ReplyAhead(t)'
      BY <1>2, AheadCollect, Zenon
    <2> QED
      BY <1>0, <2>1, <2>2, Zenon DEF FirstKnows, ReplyFirst
  <1>3. CASE Still /\ (batch' = batch
                         \/ \E c \in Calls : batch' = Append(batch, Sync(c)))
    <2>1. /\ first' = first /\ inbox' = inbox
          /\ core'.next_token = core.next_token /\ core'.outcome = core.outcome
          /\ core'.token_sessions = core.token_sessions
      BY <1>3, Zenon DEF Still
    <2>2. Failures(t)' = Failures(t) /\ \A x \in Failures(t) : x.kind # "Sync"
      BY <2>1, MessagesDiffer, Zenon DEF Failures
    <2>3. /\ Failed(t) \in Around' => Failed(t) \in Around
          /\ Mem(batch) \subseteq Mem(batch)'
          /\ \A x \in Mem(batch)' : x.kind # "Sync" => x \in Mem(batch)
      BY <1>3, AroundStill, MessagesDiffer, Zenon
    <2>4. ReplyAhead(t) => ReplyAhead(t)'
      BY <2>1, <2>2, <2>3, Zenon DEF ReplyAhead
    <2> QED
      BY <1>0, <2>1, <2>3, <2>4, Zenon DEF FirstKnows, ReplyFirst
  <1>4. CASE Arrives
    <2>0. batch' = batch /\ core' = core
      BY <1>4, Zenon DEF Arrives
    <2>1. ASSUME NEW m, NEW f, Arrive(m, f), m = Failed(t) =>
                    t < core.next_token /\ (core.outcome[t] = "pending" => f[t] # "none"),
                 f[t] = "none" => first[t] = "none",
                 t >= core.next_token => f[t] = "none",
                 f[t] = "reply" => \/ first[t] = "reply"
                                   \/ /\ m = Reply(t) /\ core.outcome[t] = "pending"
                                      /\ Around \cap Failures(t) = {}
          PROVE  FirstKnows(t)' /\ ReplyFirst(t)'
      <3>1. /\ Around' = Around \cup {m} /\ first' = f
            /\ inbox' = Append(inbox, m)
        BY <2>0, <2>1, AroundArrive, Zenon
      <3>2. ~(t < core.next_token /\ t >= core.next_token)
        BY <1>n, SMTT(30)
      <3>3. FirstKnows(t)'
        BY <1>0, <2>0, <2>1, <3>1, <3>2, Zenon DEF FirstKnows
      <3>4. CASE first[t] = "reply"
        <4>1. ReplyAhead(t) => ReplyAhead(t)'
          BY <2>0, <3>1, AheadAppend, Zenon
        <4> QED
          BY <1>0, <2>0, <3>3, <3>4, <4>1, Zenon DEF ReplyFirst
      <3>5. CASE f[t] = "reply" /\ first[t] # "reply"
        <4>1. ReplyAhead(t)'
          BY <2>0, <2>1, <3>1, <3>5, AheadArrives, Zenon
        <4> QED
          BY <2>0, <2>1, <3>3, <3>5, <4>1, Zenon DEF ReplyFirst
      <3>6. CASE f[t] # "reply"
        BY <3>1, <3>3, <3>6, Zenon DEF ReplyFirst
      <3> QED
        BY <3>4, <3>5, <3>6, Zenon
    <2>f. ASSUME NEW T, NEW how \in {"reply", "failed", "teardown"}
          PROVE  FirstFor(T, how)[t] =
                    IF t \in T /\ first[t] = "none" /\ core.outcome[t] = "pending"
                      THEN how ELSE first[t]
      BY Zenon DEF FirstFor
    <2>g. /\ t >= core.next_token => core.outcome[t] = "none" /\ first[t] = "none"
          /\ core.outcome[t] = "pending" => core.token_sessions[t] \in Sessions
      BY <1>0, CoreFields, Zenon DEF IInv, Good, Agree, FirstKnows
    <2>2. CASE ArriveAnswer
      <3>1. PICK u \in Tokens :
              /\ u < core.next_token /\ core.token_sessions[u] \in live \cup {NoSession}
              /\ \/ Arrive(Reply(u), FirstFor({u}, "reply"))
                 \/ Arrive(Failed(u), FirstFor({u}, "failed"))
        BY <2>2, Zenon DEF ArriveAnswer
      <3>2. CASE Arrive(Reply(u), FirstFor({u}, "reply"))
        <4>1. Reply(u) # Failed(t)
          BY MessagesDiffer, SMTT(30)
        <4>2. ASSUME t = u, first[t] = "none", core.outcome[t] = "pending"
              PROVE  Around \cap Failures(t) = {}
          <5>1. core.token_sessions[t] \in live
            BY <2>g, <3>1, <4>2, DispatchAssumption, Zenon
          <5>2. Teardown(core.token_sessions[t]) \notin Around
            BY <1>0, <2>g, <4>2, <5>1, Zenon DEF SessionsOnce
          <5> QED
            BY <1>0, <4>2, <5>2, Zenon DEF FirstKnows, Failures
        <4> QED
          BY <2>1, <2>f, <2>g, <3>2, <4>1, <4>2, Zenon
      <3>3. CASE Arrive(Failed(u), FirstFor({u}, "failed"))
        <4>1. Failed(u) = Failed(t) => u = t
          BY MessagesDiffer, SMTT(30)
        <4> QED
          BY <2>1, <2>f, <2>g, <3>1, <3>3, <4>1, Zenon
      <3> QED
        BY <3>1, <3>2, <3>3, Zenon
    <2>3. CASE ArriveTeardown
      <3>1. PICK s \in live :
              Arrive(Teardown(s), FirstFor(TokensForSession(core, s), "teardown"))
        BY <2>3, Zenon DEF ArriveTeardown
      <3>2. Teardown(s) # Failed(t)
        BY MessagesDiffer, SMTT(30)
      <3> QED
        BY <2>1, <2>f, <2>g, <3>1, <3>2, Zenon
    <2>4. CASE ArriveAccepted
      <3>1. PICK s \in fresh : Arrive(Accepted(s), first)
        BY <2>4, Zenon DEF ArriveAccepted
      <3>2. Accepted(s) # Failed(t)
        BY MessagesDiffer, SMTT(30)
      <3> QED
        BY <2>1, <2>g, <3>1, <3>2, Zenon
    <2>5. CASE ArriveOther
      <3>1. PICK m : /\ Arrive(m, first) /\ m.kind # "Failed"
        BY <2>5, OtherArrives, Zenon
      <3>2. m # Failed(t)
        BY <3>1, MessagesDiffer, SMTT(30)
      <3> QED
        BY <2>1, <2>g, <3>1, <3>2, Zenon
    <2> QED
      BY <1>4, <2>2, <2>3, <2>4, <2>5, Zenon DEF Arrives
  <1> QED
    BY <1>1, <1>2, <1>3, <1>4, RunningSteps, Zenon

(* The two invariants hold initially. *)
LEMMA OrderInit == Init => SessionInv /\ OrderInv
  <1> SUFFICES ASSUME Init PROVE SessionInv /\ OrderInv
    BY Zenon
  <1>1. inbox = <<>> /\ batch = <<>> /\ live = Opened /\ fresh = Sessions \ Opened
    BY Zenon DEF Init
  <1>2. Around = {}
    BY <1>1, SMTT(30) DEF Around, Mem
  <1>3. \A t \in Tokens : first[t] = "none"
    BY Zenon DEF Init
  <1>4. SessionInv
    BY <1>1, <1>2, Zenon DEF SessionInv, SessionsOnce, SessionsAnnounced
  <1>5. OrderInv
    BY <1>2, <1>3, Zenon DEF OrderInv, FirstKnows, ReplyFirst
  <1> QED
    BY <1>4, <1>5, Zenon

(* A request whose reply arrived first is told of the reply: the phases of *)
(* dispatch_batch never let a later failure or teardown overtake it.       *)
THEOREM EarlierRepliesWin == Spec => []EarlierReplyWins
  <1>1. OrderInv => EarlierReplyWins
    BY Zenon DEF OrderInv, ReplyFirst, EarlierReplyWins
  <1>2. IInv /\ SessionInv /\ OrderInv /\ [Next]_vars
          => IInv' /\ SessionInv' /\ OrderInv'
    BY LooperStep, SessionStep, OrderStep, Zenon DEF Preserved
  <1> QED
    BY <1>1, <1>2, LooperInit, OrderInit, PTL DEF Spec

(* A session the server has a route for is known to the handler once its   *)
(* InterestAccepted has left the inbox and the batch.                      *)
THEOREM SubscribersAreKnown == Spec => []SubscribersKnown
  <1>1. SessionInv => SubscribersKnown
    <2> SUFFICES ASSUME SessionInv, Running, NEW s \in live \ Opened, Announced(s)
                 PROVE  s \in subs
      BY Zenon DEF SubscribersKnown
    <2>1. Accepted(s) \notin Around
      BY Zenon DEF Announced, Around, Mem
    <2> QED
      BY <2>1, Zenon DEF SessionInv, SessionsAnnounced
  <1>2. IInv /\ SessionInv /\ [Next]_vars => IInv' /\ SessionInv'
    BY LooperStep, SessionStep, Zenon DEF Preserved
  <1> QED
    BY <1>1, <1>2, LooperInit, OrderInit, PTL DEF Spec
=============================================================================
