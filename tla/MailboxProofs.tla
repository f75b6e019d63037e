--------------------------- MODULE MailboxProofs ---------------------------
(***************************************************************************)
(* Proofs about a consented mailbox.                                       *)
(*                                                                         *)
(* MailboxConsent, for every number of authorizations, of callbacks and    *)
(* refreshes under way, and of versions: the inductive invariant says what *)
(* each of them may rely on between two transactions.  A code is held by   *)
(* one callback and nothing was stored for it yet; a refresh holds tokens  *)
(* no older than the version it read, and no newer than the one stored.    *)
(*                                                                         *)
(* Mailbox, for every number of messages, jobs and attempts and every page *)
(* size: a page has no gap, and a call that stores one has stored or still *)
(* holds everything from the page's cursor up to the cursor it began with, *)
(* or to the newest message of its scan.                                   *)
(***************************************************************************)
EXTENDS MailboxConsent, Mailbox, FiniteSetTheorems, WellFoundedInduction, TLAPS

-----------------------------------------------------------------------------
(* Consent and credentials. *)

HoldsCode(f) == flow[f].at \in {"consumed", "exchanged"}

Refreshing(f) == flow[f].at \in {"read", "retrieved", "refreshed"}

CallbackInv ==
  \A f \in Flows :
    /\ flow[f].at = "owned" => flow[f].of \in OAuthStates
    /\ HoldsCode(f) => /\ flow[f].of \in OAuthStates
                       /\ oauthState[flow[f].of] = "consumed"
                       /\ credential[flow[f].of].version = 0
    /\ flow[f].at = "exchanged" => flow[f].exchanges = 1
    /\ flow[f].at = "stored" => /\ flow[f].of \in OAuthStates
                                /\ credential[flow[f].of].version > 0

CodeHeldOnce ==
  \A f, g \in Flows : HoldsCode(f) /\ HoldsCode(g) /\ f # g => flow[f].of # flow[g].of

RefreshInv ==
  \A f \in Flows :
    /\ Refreshing(f) => /\ flow[f].of \in OAuthStates
                        /\ flow[f].version > 0
                        /\ flow[f].version <= credential[flow[f].of].version
    /\ flow[f].at = "retrieved" => /\ flow[f].version <= flow[f].exchanges
                                   /\ flow[f].exchanges <= credential[flow[f].of].version
    /\ flow[f].at = "refreshed" => /\ flow[f].version < flow[f].exchanges
                                   /\ flow[f].exchanges <= credential[flow[f].of].version + 1

StoredAfterConsumed == \A s \in OAuthStates : oauthState[s] # "consumed" => credential[s].version = 0

ConsentNamesStored == consent.ref # NoState => credential[consent.ref].version > 0

ConsentInv ==
  /\ ConsentTypeOK
  /\ TokensDescend
  /\ StoredAfterConsumed
  /\ ConsentNamesStored
  /\ CallbackInv
  /\ CodeHeldOnce
  /\ RefreshInv

FlowPlaces == {"idle", "owned", "consumed", "exchanged", "stored",
               "unauthorized", "read", "retrieved", "refreshed"}

FlowRecords == [at : FlowPlaces, of : OAuthStates \cup {NoState},
                version : 0 .. LastVersion, exchanges : 0 .. LastVersion]

LEMMA ConsentInitially == ConsentInit => ConsentInv
<1>1. SUFFICES ASSUME ConsentInit PROVE ConsentInv
  OBVIOUS
<1>2. ConsentTypeOK
  BY <1>1, ConsentAssumption DEF ConsentInit, ConsentTypeOK, NoCredential, NoFlow
<1>3. TokensDescend /\ StoredAfterConsumed /\ ConsentNamesStored
  BY <1>1 DEF ConsentInit, TokensDescend, StoredAfterConsumed, ConsentNamesStored, NoCredential
<1>4. CallbackInv /\ CodeHeldOnce /\ RefreshInv
  BY <1>1 DEF ConsentInit, CallbackInv, CodeHeldOnce, RefreshInv, HoldsCode, Refreshing, NoFlow
<1>5. QED
  BY <1>2, <1>3, <1>4 DEF ConsentInv

\* What a step that moves one flow and stores nothing leaves to show: that the
\* record the flow reaches is one, and says of itself what the invariant asks.
LEMMA FlowMoves ==
  ASSUME ConsentInv, NEW f \in Flows, NEW r \in FlowRecords,
         flow' = [flow EXCEPT ![f] = r],
         UNCHANGED <<oauthState, credential, consent>>,
         r.at = "owned" => r.of \in OAuthStates,
         r.at \in {"consumed", "exchanged"} =>
           HoldsCode(f) /\ r.of = flow[f].of /\ (r.at = "exchanged" => r.exchanges = 1),
         r.at = "stored" => r.of \in OAuthStates /\ credential[r.of].version > 0,
         r.at \in {"read", "retrieved", "refreshed"} =>
           /\ r.of \in OAuthStates
           /\ r.version > 0 /\ r.version <= credential[r.of].version
           /\ r.at = "retrieved" => /\ r.version <= r.exchanges
                                    /\ r.exchanges <= credential[r.of].version
           /\ r.at = "refreshed" => /\ r.version < r.exchanges
                                    /\ r.exchanges <= credential[r.of].version + 1
  PROVE  ConsentInv'
<1>1. flow'[f] = r /\ \A g \in Flows \ {f} : flow'[g] = flow[g]
  BY DEF ConsentInv, ConsentTypeOK
<1>2. ConsentTypeOK'
  BY DEF ConsentInv, ConsentTypeOK, FlowRecords, FlowPlaces
<1>3. TokensDescend' /\ StoredAfterConsumed' /\ ConsentNamesStored'
  BY DEF ConsentInv, TokensDescend, StoredAfterConsumed, ConsentNamesStored
<1>4. CallbackInv'
  BY <1>1 DEF ConsentInv, CallbackInv, HoldsCode
<1>5. CodeHeldOnce'
  BY <1>1 DEF ConsentInv, CodeHeldOnce, HoldsCode
<1>6. RefreshInv'
  BY <1>1 DEF ConsentInv, RefreshInv, Refreshing
<1>7. QED
  BY <1>2, <1>3, <1>4, <1>5, <1>6 DEF ConsentInv

\* The owner and the clock change no credential, and consume no state.
LEMMA OwnerKeeps ==
  ASSUME ConsentInv,
         \/ \E s \in OAuthStates : StartAuthorization(s) \/ StateExpires(s)
         \/ OwnerRevokes \/ \E ref \in OAuthStates \cup {NoState} : OwnerGrants(ref)
  PROVE  ConsentInv'
<1>1. CASE \E s \in OAuthStates : StartAuthorization(s) \/ StateExpires(s)
  <2>1. PICK s \in OAuthStates : StartAuthorization(s) \/ StateExpires(s)
    BY <1>1
  <2>2. /\ oauthState[s] \in {"none", "open"}
        /\ oauthState'[s] \in {"open", "expired"}
        /\ \A t \in OAuthStates \ {s} : oauthState'[t] = oauthState[t]
        /\ UNCHANGED <<credential, consent, flow>>
    BY <2>1 DEF StartAuthorization, StateExpires, ConsentInv, ConsentTypeOK
  <2>3. ConsentTypeOK'
    BY <2>1 DEF StartAuthorization, StateExpires, ConsentInv, ConsentTypeOK
  <2>4. TokensDescend' /\ ConsentNamesStored' /\ StoredAfterConsumed'
    BY <2>2 DEF ConsentInv, TokensDescend, ConsentNamesStored, StoredAfterConsumed
  <2>5. CallbackInv' /\ CodeHeldOnce' /\ RefreshInv'
    BY <2>2 DEF ConsentInv, CallbackInv, CodeHeldOnce, RefreshInv, HoldsCode, Refreshing
  <2>6. QED
    BY <2>3, <2>4, <2>5 DEF ConsentInv
<1>2. CASE OwnerRevokes \/ \E ref \in OAuthStates \cup {NoState} : OwnerGrants(ref)
  <2>1. consent' \in [status : {"none", "ACTIVE", "REVOKED"}, ref : OAuthStates \cup {NoState}]
    BY <1>2 DEF OwnerRevokes, OwnerGrants, Granted, ConsentInv, ConsentTypeOK
  <2>2. UNCHANGED <<oauthState, credential, flow>>
    BY <1>2 DEF OwnerRevokes, OwnerGrants
  <2>3. ConsentNamesStored'
    <3>1. CASE OwnerRevokes
      BY <3>1 DEF OwnerRevokes, ConsentNamesStored
    <3>2. ASSUME NEW ref \in OAuthStates \cup {NoState}, OwnerGrants(ref)
          PROVE  ConsentNamesStored'
      <4>1. CASE ref = NoState
        BY <3>2, <4>1 DEF OwnerGrants, Granted, ConsentInv, ConsentNamesStored
      <4>2. CASE ref # NoState
        <5>1. credential[ref] # NoCredential /\ ref \in OAuthStates
          BY <3>2, <4>2 DEF OwnerGrants
        <5>2. credential[ref].version > 0
          BY <5>1 DEF ConsentInv, ConsentTypeOK, TokensDescend, NoCredential
        <5>3. QED
          BY <3>2, <4>2, <5>2 DEF OwnerGrants, Granted, ConsentNamesStored
      <4>3. QED
        BY <4>1, <4>2
    <3>3. QED
      BY <1>2, <3>1, <3>2
  <2>4. ConsentTypeOK'
    BY <2>1, <2>2 DEF ConsentInv, ConsentTypeOK
  <2>5. TokensDescend' /\ StoredAfterConsumed'
    BY <2>2 DEF ConsentInv, TokensDescend, StoredAfterConsumed
  <2>6. CallbackInv' /\ CodeHeldOnce' /\ RefreshInv'
    BY <2>2 DEF ConsentInv, CallbackInv, CodeHeldOnce, RefreshInv, HoldsCode, Refreshing
  <2>7. QED
    BY <2>3, <2>4, <2>5, <2>6 DEF ConsentInv
<1>3. QED
  BY <1>1, <1>2

LEMMA FlowIsRecord ==
  ASSUME ConsentInv, NEW f \in Flows
  PROVE  flow[f] \in FlowRecords /\ NoFlow \in FlowRecords
  BY ConsentAssumption DEF ConsentInv, ConsentTypeOK, FlowRecords, FlowPlaces, NoFlow

\* The record a flow reaches is one.
LEMMA Moved ==
  ASSUME NEW q \in FlowRecords, NEW at \in FlowPlaces
  PROVE  [q EXCEPT !.at = at] \in FlowRecords
  BY DEF FlowRecords

LEMMA MovedOf ==
  ASSUME NEW q \in FlowRecords, NEW at \in FlowPlaces, NEW of \in OAuthStates \cup {NoState}
  PROVE  [q EXCEPT !.at = at, !.of = of] \in FlowRecords
  BY DEF FlowRecords

LEMMA MovedVersion ==
  ASSUME NEW q \in FlowRecords, NEW at \in FlowPlaces, NEW of \in OAuthStates \cup {NoState},
         NEW version \in 0 .. LastVersion
  PROVE  [q EXCEPT !.at = at, !.of = of, !.version = version] \in FlowRecords
  BY DEF FlowRecords

LEMMA MovedExchanges ==
  ASSUME NEW q \in FlowRecords, NEW at \in FlowPlaces, NEW exchanges \in 0 .. LastVersion
  PROVE  [q EXCEPT !.at = at, !.exchanges = exchanges] \in FlowRecords
  BY DEF FlowRecords

\* A flow that ends holds nothing any more.
LEMMA EndKeeps ==
  ASSUME ConsentInv, NEW f \in Flows, flow' = [flow EXCEPT ![f] = NoFlow],
         UNCHANGED <<oauthState, credential, consent>>
  PROVE  ConsentInv'
<1>1. NoFlow \in FlowRecords /\ NoFlow.at = "idle"
  BY FlowIsRecord DEF NoFlow
<1>2. QED
  BY <1>1, FlowMoves

\* The steps of a callback that store nothing in the credential.
LEMMA ResolveOwnerKeeps ==
  ASSUME ConsentInv, NEW f \in Flows, NEW s \in OAuthStates, ResolveOwner(f, s)
  PROVE  ConsentInv'
<1> DEFINE r == [NoFlow EXCEPT !.at = "owned", !.of = s]
<1>1. r \in FlowRecords
  <2>1. "owned" \in FlowPlaces
    BY DEF FlowPlaces
  <2>2. QED
    BY <2>1, FlowIsRecord, MovedOf
<1>fields. r.at = "owned" /\ r.of \in OAuthStates
  BY DEF NoFlow
<1>2. flow' = [flow EXCEPT ![f] = r] /\ UNCHANGED <<oauthState, credential, consent>>
  BY DEF ResolveOwner, Reaches
<1> HIDE DEF r
<1>3. QED
  BY <1>1, <1>fields, <1>2, FlowMoves

\* The state was open, so no callback held its code and nothing was stored for it.
LEMMA ConsumeStateKeeps ==
  ASSUME ConsentInv, NEW f \in Flows, ConsumeState(f)
  PROVE  ConsentInv'
<1> DEFINE s == flow[f].of
           r == [flow[f] EXCEPT !.at = "consumed"]
<1>1. /\ s \in OAuthStates /\ oauthState[s] = "open" /\ credential[s].version = 0
      /\ flow' = [flow EXCEPT ![f] = r] /\ oauthState' = [oauthState EXCEPT ![s] = "consumed"]
      /\ UNCHANGED <<credential, consent>>
  BY DEF ConsumeState, Reaches, Consumable, ConsentInv, CallbackInv, StoredAfterConsumed
<1>2. r \in FlowRecords /\ r.at = "consumed" /\ r.of = s
  <2>1. "consumed" \in FlowPlaces
    BY DEF FlowPlaces
  <2>2. r \in FlowRecords
    BY <2>1, FlowIsRecord, Moved
  <2>3. QED
    BY <2>2, FlowIsRecord DEF FlowRecords
<1> HIDE DEF r
<1>3. /\ oauthState'[s] = "consumed"
      /\ \A t \in OAuthStates \ {s} : oauthState'[t] = oauthState[t]
  BY <1>1 DEF ConsentInv, ConsentTypeOK
<1>4. flow'[f] = r /\ \A g \in Flows \ {f} : flow'[g] = flow[g]
  BY <1>1 DEF ConsentInv, ConsentTypeOK
<1>5. \A g \in Flows : HoldsCode(g) => flow[g].of # s
  BY <1>1 DEF ConsentInv, CallbackInv
<1>6. ConsentTypeOK'
  BY <1>1, <1>2 DEF ConsentInv, ConsentTypeOK, FlowRecords, FlowPlaces
<1>7. TokensDescend' /\ StoredAfterConsumed' /\ ConsentNamesStored'
  BY <1>1, <1>3 DEF ConsentInv, TokensDescend, StoredAfterConsumed, ConsentNamesStored
<1>8. CallbackInv'
  BY <1>1, <1>2, <1>3, <1>4 DEF ConsentInv, CallbackInv, HoldsCode
<1>9. CodeHeldOnce'
  BY <1>2, <1>4, <1>5 DEF ConsentInv, CodeHeldOnce, HoldsCode
<1>10. RefreshInv'
  BY <1>1, <1>2, <1>4 DEF ConsentInv, RefreshInv, Refreshing
<1>11. QED
  BY <1>6, <1>7, <1>8, <1>9, <1>10 DEF ConsentInv

LEMMA ExchangeCodeKeeps ==
  ASSUME ConsentInv, NEW f \in Flows, ExchangeCode(f)
  PROVE  ConsentInv'
<1> DEFINE r == [flow[f] EXCEPT !.at = "exchanged", !.exchanges = 1]
<1>1. r \in FlowRecords
  <2>1. "exchanged" \in FlowPlaces /\ 1 \in 0 .. LastVersion
    BY ConsentAssumption DEF FlowPlaces
  <2>2. QED
    BY <2>1, FlowIsRecord, MovedExchanges
<1>fields. r.at = "exchanged" /\ r.of = flow[f].of /\ r.exchanges = 1
  BY FlowIsRecord DEF FlowRecords
<1>2. /\ HoldsCode(f) /\ flow' = [flow EXCEPT ![f] = r]
      /\ UNCHANGED <<oauthState, credential, consent>>
  BY DEF ExchangeCode, Reaches, HoldsCode
<1> HIDE DEF r
<1>3. QED
  BY <1>1, <1>fields, <1>2, FlowMoves

\* What a stored credential was stored for is what the consent comes to name.
LEMMA GrantConsentKeeps ==
  ASSUME ConsentInv, NEW f \in Flows, GrantConsent(f)
  PROVE  ConsentInv'
<1>1. /\ flow[f].of \in OAuthStates /\ credential[flow[f].of].version > 0
      /\ consent' = [status |-> "ACTIVE", ref |-> flow[f].of]
      /\ flow' = [flow EXCEPT ![f] = NoFlow] /\ UNCHANGED <<oauthState, credential>>
  BY ConsentAssumption DEF GrantConsent, Granted, Reaches, ConsentInv, CallbackInv
<1>2. flow'[f] = NoFlow /\ \A g \in Flows \ {f} : flow'[g] = flow[g]
  BY <1>1 DEF ConsentInv, ConsentTypeOK
<1>3. NoFlow.at = "idle"
  BY DEF NoFlow
<1>4. ConsentTypeOK'
  BY <1>1, FlowIsRecord DEF ConsentInv, ConsentTypeOK, FlowRecords, FlowPlaces
<1>5. TokensDescend' /\ StoredAfterConsumed' /\ ConsentNamesStored'
  BY <1>1 DEF ConsentInv, TokensDescend, StoredAfterConsumed, ConsentNamesStored
<1>6. CallbackInv' /\ CodeHeldOnce' /\ RefreshInv'
  BY <1>1, <1>2, <1>3 DEF ConsentInv, CallbackInv, CodeHeldOnce, RefreshInv, HoldsCode, Refreshing
<1>7. QED
  BY <1>4, <1>5, <1>6 DEF ConsentInv

\* The steps of a refresh that store nothing.
LEMMA TokenRefusedKeeps ==
  ASSUME ConsentInv, NEW f \in Flows, TokenRefused(f)
  PROVE  ConsentInv'
<1> DEFINE r == [NoFlow EXCEPT !.at = "unauthorized"]
<1>1. r \in FlowRecords /\ r.at = "unauthorized"
  <2>1. "unauthorized" \in FlowPlaces
    BY DEF FlowPlaces
  <2>2. r \in FlowRecords
    BY <2>1, FlowIsRecord, Moved
  <2>3. QED
    BY <2>2 DEF NoFlow
<1>2. flow' = [flow EXCEPT ![f] = r] /\ UNCHANGED <<oauthState, credential, consent>>
  BY DEF TokenRefused, Reaches
<1> HIDE DEF r
<1>3. QED
  BY <1>1, <1>2, FlowMoves

LEMMA ReadVersionKeeps ==
  ASSUME ConsentInv, NEW f \in Flows, ReadVersion(f)
  PROVE  ConsentInv'
<1> DEFINE r == [NoFlow EXCEPT !.at = "read", !.of = consent.ref,
                               !.version = credential[consent.ref].version]
<1>1. /\ consent.ref \in OAuthStates /\ credential[consent.ref].version > 0
      /\ credential[consent.ref].version \in 0 .. LastVersion
  BY DEF ReadVersion, ConsentInv, ConsentTypeOK, ConsentNamesStored
<1>2. r \in FlowRecords
  <2>1. "read" \in FlowPlaces
    BY DEF FlowPlaces
  <2>2. QED
    BY <1>1, <2>1, FlowIsRecord, MovedVersion
<1>fields. /\ r.at = "read" /\ r.of = consent.ref
      /\ r.version = credential[consent.ref].version
  BY DEF NoFlow
<1>3. flow' = [flow EXCEPT ![f] = r] /\ UNCHANGED <<oauthState, credential, consent>>
  BY DEF ReadVersion, Reaches
<1> HIDE DEF r
<1>4. r.version <= credential[r.of].version
  BY <1>1, <1>fields, <1>2, ConsentAssumption
<1>5. QED
  BY <1>1, <1>fields, <1>2, <1>3, <1>4, FlowMoves

LEMMA RetrieveCredentialKeeps ==
  ASSUME ConsentInv, NEW f \in Flows, RetrieveCredential(f)
  PROVE  ConsentInv'
<1> DEFINE now == credential[flow[f].of]
           r == [flow[f] EXCEPT !.at = "retrieved", !.exchanges = now.exchanges]
<1>1. /\ flow[f].of \in OAuthStates /\ flow[f].version > 0 /\ flow[f].version <= now.version
      /\ flow' = [flow EXCEPT ![f] = r] /\ UNCHANGED <<oauthState, credential, consent>>
  BY DEF RetrieveCredential, Reaches, ConsentInv, RefreshInv, Refreshing
<1>2. now.version = now.exchanges /\ now.exchanges \in 0 .. LastVersion
  BY <1>1 DEF ConsentInv, ConsentTypeOK, TokensDescend
<1>3. /\ r \in FlowRecords /\ r.at = "retrieved" /\ r.of = flow[f].of
      /\ r.version = flow[f].version /\ r.exchanges = now.exchanges
  <2>1. "retrieved" \in FlowPlaces
    BY DEF FlowPlaces
  <2>2. r \in FlowRecords
    BY <1>2, <2>1, FlowIsRecord, MovedExchanges
  <2>3. QED
    BY <2>2, FlowIsRecord DEF FlowRecords
<1> HIDE DEF r
<1>4. /\ r.version > 0 /\ r.version <= credential[r.of].version
      /\ r.version <= r.exchanges /\ r.exchanges <= credential[r.of].version
  BY <1>1, <1>2, <1>3, ConsentAssumption
<1>5. QED
  BY <1>1, <1>3, <1>4, FlowMoves

LEMMA ExchangeRefreshTokenKeeps ==
  ASSUME ConsentInv, NEW f \in Flows, ExchangeRefreshToken(f)
  PROVE  ConsentInv'
<1> DEFINE r == [flow[f] EXCEPT !.at = "refreshed", !.exchanges = @ + 1]
<1>1. /\ flow[f].of \in OAuthStates /\ flow[f].version > 0
      /\ flow[f].version <= credential[flow[f].of].version
      /\ flow[f].version <= flow[f].exchanges
      /\ flow[f].exchanges <= credential[flow[f].of].version
      /\ flow[f].exchanges < LastVersion
      /\ flow' = [flow EXCEPT ![f] = r] /\ UNCHANGED <<oauthState, credential, consent>>
  BY DEF ExchangeRefreshToken, Reaches, ConsentInv, RefreshInv, Refreshing
<1>2. /\ flow[f].exchanges \in 0 .. LastVersion /\ flow[f].version \in 0 .. LastVersion
      /\ credential[flow[f].of].version \in 0 .. LastVersion
  BY <1>1 DEF ConsentInv, ConsentTypeOK
<1>3. r \in FlowRecords
  <2>1. flow[f].exchanges + 1 \in 0 .. LastVersion
    BY <1>1, <1>2, ConsentAssumption
  <2>2. "refreshed" \in FlowPlaces
    BY DEF FlowPlaces
  <2>3. QED
    BY <2>1, <2>2, FlowIsRecord, MovedExchanges
<1>fields. /\ r.at = "refreshed" /\ r.of = flow[f].of
      /\ r.version = flow[f].version /\ r.exchanges = flow[f].exchanges + 1
  BY FlowIsRecord DEF FlowRecords
<1> HIDE DEF r
<1>4. /\ r.version > 0 /\ r.version <= credential[r.of].version
      /\ r.version < r.exchanges /\ r.exchanges <= credential[r.of].version + 1
  BY <1>1, <1>fields, <1>2, <1>3, ConsentAssumption
<1>5. QED
  BY <1>1, <1>fields, <1>3, <1>4, FlowMoves

\* The row of s gets its next version; the invariant about it survives as long as its
\* tokens descend and no callback holds a code for it, except the one that stores.
LEMMA StoreKeeps ==
  ASSUME ConsentInv, NEW f \in Flows, NEW s \in OAuthStates, NEW r \in FlowRecords,
         flow' = [flow EXCEPT ![f] = r], r.at \in {"idle", "stored"}, r.at = "stored" => r.of = s,
         NextVersion(s, credential[s].version + 1),
         oauthState[s] = "consumed",
         \A g \in Flows \ {f} : HoldsCode(g) => flow[g].of # s,
         UNCHANGED <<oauthState, consent>>
  PROVE  ConsentInv'
<1>1. credential[s].version \in 0 .. LastVersion /\ credential[s].version < LastVersion
  BY DEF NextVersion, ConsentInv, ConsentTypeOK
<1> DEFINE n == credential[s].version + 1
           row == [version |-> n, exchanges |-> n]
<1>2. n \in 1 .. LastVersion /\ n = credential[s].version + 1
  BY <1>1, ConsentAssumption
<1>3. row \in [version : 0 .. LastVersion, exchanges : 0 .. LastVersion]
      /\ row.version = n /\ row.exchanges = n
  BY <1>2, ConsentAssumption
<1>4. credential' = [credential EXCEPT ![s] = row]
  BY DEF NextVersion
<1> HIDE DEF row, n
<1>5. credential'[s] = row /\ \A t \in OAuthStates \ {s} : credential'[t] = credential[t]
  BY <1>4 DEF ConsentInv, ConsentTypeOK
<1>6. flow'[f] = r /\ \A g \in Flows \ {f} : flow'[g] = flow[g]
  BY DEF ConsentInv, ConsentTypeOK
<1>7. \A t \in OAuthStates : /\ credential[t].version \in 0 .. LastVersion
                             /\ credential'[t].version \in 0 .. LastVersion
                             /\ credential[t].version <= credential'[t].version
  BY <1>2, <1>3, <1>5, ConsentAssumption DEF ConsentInv, ConsentTypeOK
<1>8. ConsentTypeOK'
  BY <1>3, <1>4 DEF ConsentInv, ConsentTypeOK, FlowRecords, FlowPlaces
<1>9. TokensDescend' /\ StoredAfterConsumed'
  BY <1>3, <1>5 DEF ConsentInv, TokensDescend, StoredAfterConsumed
<1>10. ConsentNamesStored'
  BY <1>2, <1>3, <1>5, ConsentAssumption DEF ConsentInv, ConsentTypeOK, ConsentNamesStored
<1>11. CallbackInv'
  <2>1. SUFFICES ASSUME NEW g \in Flows
                 PROVE  /\ flow'[g].at = "owned" => flow'[g].of \in OAuthStates
                        /\ HoldsCode(g)' => /\ flow'[g].of \in OAuthStates
                                            /\ oauthState[flow'[g].of] = "consumed"
                                            /\ credential'[flow'[g].of].version = 0
                        /\ flow'[g].at = "exchanged" => flow'[g].exchanges = 1
                        /\ flow'[g].at = "stored" => /\ flow'[g].of \in OAuthStates
                                                     /\ credential'[flow'[g].of].version > 0
    BY DEF CallbackInv
  <2>2. CASE g = f
    BY <2>2, <1>2, <1>3, <1>5, <1>6, ConsentAssumption DEF HoldsCode
  <2>3. CASE g # f
    <3>1. flow'[g] = flow[g] /\ (HoldsCode(g)' <=> HoldsCode(g))
      BY <2>3, <1>6 DEF HoldsCode
    <3>2. QED
      BY <3>1, <2>3, <1>5, <1>7, ConsentAssumption DEF ConsentInv, CallbackInv
  <2>4. QED
    BY <2>2, <2>3
<1>12. CodeHeldOnce'
  BY <1>6 DEF ConsentInv, CodeHeldOnce, HoldsCode
<1>13. RefreshInv'
  <2>1. SUFFICES ASSUME NEW g \in Flows
                 PROVE  /\ Refreshing(g)' => /\ flow'[g].of \in OAuthStates
                                             /\ flow'[g].version > 0
                                             /\ flow'[g].version <= credential'[flow'[g].of].version
                        /\ flow'[g].at = "retrieved" =>
                             /\ flow'[g].version <= flow'[g].exchanges
                             /\ flow'[g].exchanges <= credential'[flow'[g].of].version
                        /\ flow'[g].at = "refreshed" =>
                             /\ flow'[g].version < flow'[g].exchanges
                             /\ flow'[g].exchanges <= credential'[flow'[g].of].version + 1
    BY DEF RefreshInv
  <2>2. CASE g = f
    BY <2>2, <1>6 DEF Refreshing
  <2>3. CASE g # f
    <3>1. flow'[g] = flow[g] /\ (Refreshing(g)' <=> Refreshing(g))
      BY <2>3, <1>6 DEF Refreshing
    <3>2. flow[g].version \in 0 .. LastVersion /\ flow[g].exchanges \in 0 .. LastVersion
      BY DEF ConsentInv, ConsentTypeOK
    <3>3. Refreshing(g) => flow[g].of \in OAuthStates /\ flow[g].version > 0
      BY DEF ConsentInv, RefreshInv
    <3>4. Refreshing(g) => flow[g].version <= credential'[flow[g].of].version
      BY <3>2, <3>3, <1>7, ConsentAssumption DEF ConsentInv, RefreshInv
    <3>5. flow[g].at = "retrieved" => /\ flow[g].version <= flow[g].exchanges
                                      /\ flow[g].exchanges <= credential'[flow[g].of].version
      BY <3>2, <3>3, <1>7, ConsentAssumption DEF ConsentInv, RefreshInv, Refreshing
    <3>6. flow[g].at = "refreshed" => /\ flow[g].version < flow[g].exchanges
                                      /\ flow[g].exchanges <= credential'[flow[g].of].version + 1
      BY <3>2, <3>3, <1>7, ConsentAssumption DEF ConsentInv, RefreshInv, Refreshing
    <3>7. QED
      BY <3>1, <3>3, <3>4, <3>5, <3>6
  <2>4. QED
    BY <2>2, <2>3
<1>14. QED
  BY <1>8, <1>9, <1>10, <1>11, <1>12, <1>13 DEF ConsentInv

\* Nothing was stored for the code yet, so what it is exchanged for is the first version.
LEMMA StoreExchangedKeeps ==
  ASSUME ConsentInv, NEW f \in Flows, StoreExchanged(f)
  PROVE  ConsentInv'
<1> DEFINE s == flow[f].of
           r == [flow[f] EXCEPT !.at = "stored"]
<1>1. HoldsCode(f) /\ flow[f].at = "exchanged" /\ flow' = [flow EXCEPT ![f] = r]
      /\ NextVersion(s, flow[f].exchanges) /\ UNCHANGED <<oauthState, consent>>
  BY DEF StoreExchanged, Reaches, HoldsCode
<1>2. /\ s \in OAuthStates /\ oauthState[s] = "consumed"
      /\ credential[s].version = 0 /\ flow[f].exchanges = 1
  BY <1>1 DEF ConsentInv, CallbackInv
<1>3. flow[f].exchanges = credential[s].version + 1
  BY <1>2
<1>4. r \in FlowRecords /\ r.at = "stored" /\ r.of = s
  <2>1. "stored" \in FlowPlaces
    BY DEF FlowPlaces
  <2>2. r \in FlowRecords
    BY <2>1, FlowIsRecord, Moved
  <2>3. QED
    BY <2>2, FlowIsRecord DEF FlowRecords
<1>5. \A g \in Flows \ {f} : HoldsCode(g) => flow[g].of # s
  BY <1>1 DEF ConsentInv, CodeHeldOnce
<1> HIDE DEF r, s
<1>6. NextVersion(s, credential[s].version + 1)
  BY <1>1, <1>3
<1>7. QED
  BY <1>1, <1>2, <1>4, <1>5, <1>6, StoreKeeps

\* The version is still the one read, so the tokens refreshed are those of that version:
\* older ones would not have fitted the version read, newer ones would have changed it.
LEMMA StoreRefreshedKeeps ==
  ASSUME ConsentInv, NEW f \in Flows, StoreRefreshed(f)
  PROVE  ConsentInv'
<1> DEFINE s == flow[f].of
<1>1. /\ flow[f].at = "refreshed" /\ flow' = [flow EXCEPT ![f] = NoFlow]
      /\ credential[s].version = flow[f].version
      /\ NextVersion(s, flow[f].exchanges) /\ UNCHANGED <<oauthState, consent>>
  BY DEF StoreRefreshed, Reaches, VersionKept
<1>2. /\ s \in OAuthStates /\ flow[f].version > 0
      /\ flow[f].version < flow[f].exchanges /\ flow[f].exchanges <= credential[s].version + 1
  BY <1>1 DEF ConsentInv, RefreshInv, Refreshing
<1>3. flow[f].exchanges = credential[s].version + 1
  <2>1. flow[f].exchanges \in 0 .. LastVersion /\ credential[s].version \in 0 .. LastVersion
    BY <1>2 DEF ConsentInv, ConsentTypeOK
  <2>2. QED
    BY <1>1, <1>2, <2>1, ConsentAssumption
<1>4. credential[s].version > 0
  BY <1>1, <1>2
<1>5. oauthState[s] = "consumed"
  BY <1>2, <1>4 DEF ConsentInv, StoredAfterConsumed
<1>6. \A g \in Flows \ {f} : HoldsCode(g) => flow[g].of # s
  BY <1>4 DEF ConsentInv, CallbackInv
<1>7. NoFlow \in FlowRecords /\ NoFlow.at = "idle"
  BY FlowIsRecord DEF NoFlow
<1> HIDE DEF s
<1>8. NextVersion(s, credential[s].version + 1)
  BY <1>1, <1>3 DEF s
<1>9. QED
  BY <1>1, <1>2, <1>5, <1>6, <1>7, <1>8, StoreKeeps

LEMMA ConsentStep == ConsentInv /\ [ConsentNext]_consentVars => ConsentInv'
<1>1. SUFFICES ASSUME ConsentInv, [ConsentNext]_consentVars PROVE ConsentInv'
  OBVIOUS
<1>2. CASE UNCHANGED consentVars
  BY <1>1, <1>2 DEF consentVars, ConsentInv, ConsentTypeOK, TokensDescend, StoredAfterConsumed,
     ConsentNamesStored, CallbackInv, CodeHeldOnce, RefreshInv, HoldsCode, Refreshing
<1>3. ASSUME NEW f \in Flows, CallbackStep(f)
      PROVE  ConsentInv'
  BY <1>1, <1>3, ResolveOwnerKeeps, ConsumeStateKeeps, ExchangeCodeKeeps, StoreExchangedKeeps,
     GrantConsentKeeps DEF CallbackStep
<1>4. ASSUME NEW f \in Flows, RefreshStep(f)
      PROVE  ConsentInv'
  BY <1>1, <1>4, TokenRefusedKeeps, ReadVersionKeeps, RetrieveCredentialKeeps,
     ExchangeRefreshTokenKeeps, StoreRefreshedKeeps DEF RefreshStep
<1>5. ASSUME NEW f \in Flows, FlowEnds(f)
      PROVE  ConsentInv'
  BY <1>1, <1>5, EndKeeps DEF FlowEnds
<1>6. QED
  BY <1>1, <1>2, <1>3, <1>4, <1>5, OwnerKeeps DEF ConsentNext

-----------------------------------------------------------------------------
(* What follows for every behaviour. *)

\* Between its transactions every callback and every refresh may rely on what the
\* invariant says of it (email-oauth.ts:98-161).
THEOREM ConsentInvariant == ConsentSpec => []ConsentInv
  BY ConsentInitially, ConsentStep, PTL DEF ConsentSpec

\* Every version of a credential holds tokens obtained with those of the version before
\* it (email-oauth.ts:98-161, durable-credentials.ts).
THEOREM CredentialsDescend == ConsentSpec => []TokensDescend
<1>1. ConsentInv => TokensDescend
  BY DEF ConsentInv
<1>2. QED
  BY <1>1, ConsentInvariant, PTL

\* The credential an active consent names has been stored: a consent is granted by the
\* callback after the credential, and by the owner only with one that is there
\* (email-oauth.ts:93, email-connections.ts:43-64).
THEOREM ConsentsNameCredentials == ConsentSpec => []ConsentNamesStored
<1>1. ConsentInv => ConsentNamesStored
  BY DEF ConsentInv
<1>2. QED
  BY <1>1, ConsentInvariant, PTL

-----------------------------------------------------------------------------
(* Synchronisation. *)

LEMMA Smallest ==
  ASSUME NEW T, T \subseteq Nat, T # {}
  PROVE  \E x \in T : \A y \in T : x <= y
<1> DEFINE R == OpToRel(<, Nat)
<1>1. IsWellFoundedOn(R, Nat)
  BY NatLessThanWellFounded
<1>2. PICK x \in T : \A y \in T : ~(<<y, x>> \in R)
  <2> HIDE DEF R
  <2>1. QED
    BY <1>1, WFMin
<1>3. \A y \in T : ~(y < x)
  BY <1>2 DEF OpToRel
<1>4. QED
  BY <1>3

LEMMA Greatest ==
  ASSUME NEW n \in Nat, NEW T, T \subseteq 0 .. n, T # {}
  PROVE  \E x \in T : \A y \in T : y <= x
<1> DEFINE D == {k \in 0 .. n : n - k \in T}
<1>1. D \subseteq Nat /\ D # {}
  <2>1. PICK t \in T : TRUE
    OBVIOUS
  <2>2. t \in 0 .. n /\ n - t \in 0 .. n /\ n - (n - t) = t
    BY <2>1
  <2>3. QED
    BY <2>1, <2>2
<1>2. PICK k \in D : \A j \in D : k <= j
  BY <1>1, Smallest
<1>3. \A y \in T : y <= n - k
  <2>1. ASSUME NEW y \in T PROVE y <= n - k
    <3>1. y \in 0 .. n /\ n - y \in 0 .. n /\ n - (n - y) = y /\ k \in 0 .. n
      BY <1>2
    <3>2. k <= n - y
      BY <1>2, <3>1
    <3>3. QED
      BY <3>1, <3>2
  <2>2. QED
    BY <2>1
<1>4. QED
  BY <1>2, <1>3

CallRecords == [at : {"none", "queued", "listing", "storing"},
                attempts : 0..JobAttempts, from : 0..LastMessage,
                age : 0..SyncInterval, page : SUBSET Messages,
                next : 0..LastMessage, top : 0..LastMessage]

\* The newest message that the scan of a call has to account for.
Upto(r) == IF r.from = Null THEN r.top ELSE r.from - 1

\* A call that stores a page holds or has stored all of it.
Covered(r) ==
  r.at = "storing" /\ r.next # Null =>
    \A m \in r.next .. Upto(r) : m \in r.page \/ outcome[m] # "none"

\* A call knows of no message that has not arrived.
Arrived(r) == r.top <= arrived /\ r.from <= arrived /\ r.next <= arrived

SyncInv ==
  /\ MailboxTypeOK
  /\ NoMessagePassedOver
  /\ connection.cursor <= arrived
  /\ \A c \in Calls : Arrived(call[c]) /\ Covered(call[c])

LEMMA MailboxInitially == MailboxInit => SyncInv
<1>1. SUFFICES ASSUME MailboxInit PROVE SyncInv
  OBVIOUS
<1>2. NoCall \in CallRecords /\ NoCall.at = "none" /\ NoCall.page = {}
      /\ NoCall.top = 0 /\ NoCall.from = 0 /\ NoCall.next = 0
  BY MailboxAssumption DEF NoCall, CallRecords, Null, SyncInterval
<1>3. MailboxTypeOK
  <2>1. connection \in Connections
    BY <1>1, MailboxAssumption DEF MailboxInit, Connections, Null, SyncInterval, ClaimLease
  <2>2. call \in [Calls -> CallRecords] /\ \A c \in Calls : call[c].page \subseteq 1..arrived
    BY <1>1, <1>2 DEF MailboxInit
  <2>3. /\ outcome \in [Messages -> {"none", "mailbox", "elsewhere"}]
        /\ \A m \in Messages : outcome[m] = "mailbox" => m <= arrived
    BY <1>1 DEF MailboxInit
  <2>4. arrived \in 0..LastMessage /\ scanTop \in 0..arrived /\ syncFaults \in 0..MaxSyncFaults
    BY <1>1, MailboxAssumption DEF MailboxInit
  <2>5. QED
    BY <1>1, <2>1, <2>2, <2>3, <2>4 DEF MailboxInit, MailboxTypeOK, CallRecords
<1>4. \A c \in Calls : Arrived(call[c]) /\ Covered(call[c])
  BY <1>1, <1>2 DEF MailboxInit, Covered, Arrived, Null
<1>5. NoMessagePassedOver
  BY <1>1 DEF MailboxInit, NoMessagePassedOver
<1>6. QED
  BY <1>1, <1>3, <1>4, <1>5 DEF SyncInv, MailboxInit, Null

\* Once stored a message stays so: what is behind an unmoved cursor, and what a call has
\* covered, remain.
StoresOnly == \A m \in Messages : outcome[m] # "none" => outcome'[m] # "none"

LEMMA BehindCursorStays ==
  ASSUME SyncInv, StoresOnly, connection'.cursor = connection.cursor, scanTop' = scanTop
  PROVE  NoMessagePassedOver'
<1>1. connection.cursor \in 0 .. LastMessage /\ scanTop \in 0 .. LastMessage
  BY MailboxAssumption DEF SyncInv, MailboxTypeOK, Connections
<1>2. QED
  BY <1>1, MailboxAssumption DEF SyncInv, StoresOnly, NoMessagePassedOver, Messages, Null

LEMMA CoveredStays ==
  ASSUME SyncInv, StoresOnly, NEW c \in Calls, NEW r \in CallRecords,
         r.at = "storing" => call[c].at = "storing" /\ r.next = call[c].next
                             /\ r.from = call[c].from /\ r.top = call[c].top
                             /\ r.page = call[c].page
  PROVE  Covered(r)'
<1>1. call[c] \in CallRecords /\ Covered(call[c])
  BY DEF SyncInv, MailboxTypeOK, CallRecords
<1>2. ASSUME call[c].next # Null, NEW m \in call[c].next .. Upto(call[c])
      PROVE  m \in Messages
  BY <1>1, <1>2, MailboxAssumption DEF CallRecords, Messages, Upto, Null
<1>3. QED
  BY <1>1, <1>2 DEF Covered, Upto, StoresOnly

\* What a step that moves one call, and perhaps stores a message, leaves to show.
LEMMA CallMoves ==
  ASSUME SyncInv, NEW c \in Calls, NEW r \in CallRecords, call' = [call EXCEPT ![c] = r],
         UNCHANGED <<arrived, secondHalf, scanTop>>,
         connection' \in Connections, connection'.cursor = connection.cursor,
         keyTaken' \in BOOLEAN, syncFaults' \in 0..MaxSyncFaults,
         outcome' \in [Messages -> {"none", "mailbox", "elsewhere"}],
         StoresOnly, \A m \in Messages : outcome'[m] = "mailbox" => m <= arrived,
         r.page \subseteq 1..arrived, Arrived(r), Covered(r)'
  PROVE  SyncInv'
<1>1. call'[c] = r /\ \A d \in Calls \ {c} : call'[d] = call[d]
  BY DEF SyncInv, MailboxTypeOK
<1>2. MailboxTypeOK'
  <2>1. call' \in [Calls -> CallRecords]
    BY DEF SyncInv, MailboxTypeOK, CallRecords
  <2>2. \A d \in Calls : call'[d].page \subseteq 1..arrived'
    BY <1>1 DEF SyncInv, MailboxTypeOK
  <2>3. QED
    BY <2>1, <2>2 DEF SyncInv, MailboxTypeOK, CallRecords
<1>3. NoMessagePassedOver'
  BY BehindCursorStays
<1>4. ASSUME NEW d \in Calls PROVE Arrived(call[d])' /\ Covered(call[d])'
  <2>1. CASE d = c
    BY <1>1, <2>1 DEF Covered, Upto, Arrived
  <2>2. CASE d # c
    <3>1. call'[d] = call[d] /\ call[d] \in CallRecords
      BY <1>1, <2>2 DEF SyncInv, MailboxTypeOK, CallRecords
    <3>2. Covered(call[d])' /\ Arrived(call[d])
      BY <3>1, CoveredStays DEF SyncInv, Covered, Upto
    <3>3. QED
      BY <3>1, <3>2 DEF Arrived
  <2>3. QED
    BY <2>1, <2>2
<1>5. QED
  BY <1>2, <1>3, <1>4 DEF SyncInv

LEMMA ArriveKeeps == SyncInv /\ Arrive => SyncInv'
<1>1. SUFFICES ASSUME SyncInv, Arrive PROVE SyncInv'
  OBVIOUS
<1>2. /\ arrived \in 0..LastMessage /\ arrived' \in 0..LastMessage /\ arrived' = arrived + 1
      /\ UNCHANGED <<outcome, connection, keyTaken, secondHalf, call, scanTop, syncFaults>>
  BY <1>1, MailboxAssumption DEF SyncInv, MailboxTypeOK, Arrive
<1>3. MailboxTypeOK'
  <2>1. \A m \in Messages : outcome[m] = "mailbox" => m <= arrived'
    BY <1>1, <1>2 DEF SyncInv, MailboxTypeOK, Messages
  <2>2. \A c \in Calls : call[c].page \subseteq 1..arrived'
    <3>1. 1..arrived \subseteq 1..arrived'
      BY <1>2
    <3>2. QED
      BY <1>1, <3>1 DEF SyncInv, MailboxTypeOK
  <2>3. scanTop \in 0..arrived'
    BY <1>1, <1>2 DEF SyncInv, MailboxTypeOK
  <2>4. QED
    BY <1>1, <1>2, <2>1, <2>2, <2>3 DEF SyncInv, MailboxTypeOK
<1>4. NoMessagePassedOver'
  BY <1>1, <1>2 DEF SyncInv, NoMessagePassedOver
<1>5. \A c \in Calls : Arrived(call[c])' /\ Covered(call[c])'
  <2>1. ASSUME NEW c \in Calls PROVE Arrived(call[c])' /\ Covered(call[c])'
    <3>1. call[c] \in CallRecords /\ Arrived(call[c]) /\ Covered(call[c])
      BY <1>1 DEF SyncInv, MailboxTypeOK, CallRecords
    <3>2. Arrived(call[c])'
      BY <1>2, <3>1, MailboxAssumption DEF CallRecords, Arrived
    <3>3. QED
      BY <1>2, <3>1, <3>2 DEF Covered, Upto
  <2>2. QED
    BY <1>2, <2>1
<1>6. connection'.cursor <= arrived'
  BY <1>1, <1>2, MailboxAssumption DEF SyncInv, MailboxTypeOK, Connections
<1>7. QED
  BY <1>3, <1>4, <1>5, <1>6 DEF SyncInv

\* The clock makes calls older, and moves none.
LEMMA TickKeeps == SyncInv /\ MailboxTick => SyncInv'
<1>1. SUFFICES ASSUME SyncInv, MailboxTick PROVE SyncInv'
  OBVIOUS
<1> DEFINE older(c) == IF call[c].at \in {"listing", "storing"} THEN Older(call[c].age, SyncInterval)
                       ELSE call[c].age
<1>2. \A c \in Calls : call[c] \in CallRecords /\ older(c) \in 0..SyncInterval
  BY <1>1 DEF SyncInv, MailboxTypeOK, CallRecords, Older, SyncInterval
<1>3. call' = [c \in Calls |-> [call[c] EXCEPT !.age = older(c)]]
  BY <1>1 DEF MailboxTick
<1>4. UNCHANGED <<arrived, outcome, scanTop, syncFaults>>
  BY <1>1 DEF MailboxTick
<1> HIDE DEF older
<1>5. \A c \in Calls : /\ call'[c] \in CallRecords
                       /\ call'[c].at = call[c].at /\ call'[c].next = call[c].next
                       /\ call'[c].from = call[c].from /\ call'[c].top = call[c].top
                       /\ call'[c].page = call[c].page
  BY <1>2, <1>3 DEF CallRecords
<1>connected. connection' \in Connections /\ connection'.cursor = connection.cursor
  <2> DEFINE s == Older(connection.syncAge, SyncInterval)
             k == Older(connection.claimAge, ClaimLease)
  <2>1. connection \in Connections
    BY <1>1 DEF SyncInv, MailboxTypeOK
  <2>2. s \in 0..SyncInterval /\ k \in 0..ClaimLease
    BY <2>1 DEF Connections, Older, SyncInterval, ClaimLease
  <2>3. connection' = [connection EXCEPT !.syncAge = s, !.claimAge = k]
    BY <1>1 DEF MailboxTick
  <2> HIDE DEF s, k
  <2>4. QED
    BY <2>1, <2>2, <2>3 DEF Connections
<1>6. MailboxTypeOK'
  <2>1. keyTaken' \in BOOLEAN /\ secondHalf' \in BOOLEAN
    BY <1>1 DEF SyncInv, MailboxTypeOK, MailboxTick, KeyStillTaken
  <2>2. call' \in [Calls -> CallRecords]
    BY <1>3, <1>5
  <2>3. QED
    BY <1>1, <1>connected, <1>4, <1>5, <2>1, <2>2 DEF SyncInv, MailboxTypeOK, CallRecords
<1>7. NoMessagePassedOver'
  BY <1>1, <1>connected, <1>4 DEF SyncInv, NoMessagePassedOver
<1>8. \A c \in Calls : Arrived(call[c])' /\ Covered(call[c])'
  BY <1>1, <1>4, <1>5 DEF SyncInv, Covered, Upto, Arrived
<1>9. QED
  BY <1>1, <1>4, <1>connected, <1>6, <1>7, <1>8 DEF SyncInv

LEMMA OwnerActs ==
  ASSUME SyncInv, (\E active \in BOOLEAN : SetConsent(active)) \/ \E m \in Messages : IngestElsewhere(m)
  PROVE  SyncInv'
<1>1. UNCHANGED <<arrived, keyTaken, secondHalf, call, scanTop, syncFaults>> /\ StoresOnly
  BY DEF SyncInv, MailboxTypeOK, SetConsent, IngestElsewhere, StoresOnly
<1>2. connection' \in Connections /\ connection'.cursor = connection.cursor
  BY DEF SyncInv, MailboxTypeOK, SetConsent, IngestElsewhere, Connections
<1>3. /\ outcome' \in [Messages -> {"none", "mailbox", "elsewhere"}]
      /\ \A m \in Messages : outcome'[m] = "mailbox" => m <= arrived
  BY DEF SyncInv, MailboxTypeOK, SetConsent, IngestElsewhere
<1>4. MailboxTypeOK'
  BY <1>1, <1>2, <1>3 DEF SyncInv, MailboxTypeOK
<1>5. \A c \in Calls : Arrived(call[c])' /\ Covered(call[c])'
  <2>1. ASSUME NEW c \in Calls PROVE Arrived(call[c])' /\ Covered(call[c])'
    <3>1. call[c] \in CallRecords /\ Arrived(call[c])
      BY DEF SyncInv, MailboxTypeOK, CallRecords
    <3>2. QED
      BY <1>1, <3>1, CoveredStays DEF Covered, Upto, Arrived
  <2>2. QED
    BY <2>1
<1>6. QED
  BY <1>1, <1>2, <1>4, <1>5, BehindCursorStays DEF SyncInv

Empty(r) == r.page = {} /\ r.top = 0 /\ r.from = 0 /\ r.next = 0

LEMMA QueuedIsRecord ==
  /\ Queued \in CallRecords /\ Queued.at = "queued" /\ Empty(Queued)
  /\ NoCall \in CallRecords /\ NoCall.at = "none" /\ Empty(NoCall)
  BY MailboxAssumption DEF Queued, NoCall, CallRecords, Null, SyncInterval, Empty

\* A call that is over, or is queued again, holds no page.
LEMMA AttemptedKeeps ==
  ASSUME SyncInv, NEW c \in Calls, call' = Attempted(c),
         UNCHANGED <<arrived, outcome, connection, keyTaken, secondHalf, scanTop>>,
         syncFaults' \in 0..MaxSyncFaults
  PROVE  SyncInv'
<1>1. PICK r \in CallRecords : /\ call' = [call EXCEPT ![c] = r]
                               /\ r.at # "storing" /\ Empty(r)
  <2>1. CASE call[c].attempts + 1 < JobAttempts
    <3> DEFINE n == call[c].attempts + 1
               r == [Queued EXCEPT !.attempts = n]
    <3>1. n \in 0..JobAttempts
      BY <2>1, MailboxAssumption DEF SyncInv, MailboxTypeOK
    <3>2. call' = [call EXCEPT ![c] = r]
      BY <2>1 DEF Attempted
    <3> HIDE DEF n
    <3>3. r \in CallRecords /\ r.at # "storing" /\ Empty(r)
      BY <3>1, QueuedIsRecord DEF CallRecords, Empty
    <3>4. QED
      BY <3>2, <3>3
  <2>2. CASE ~(call[c].attempts + 1 < JobAttempts)
    BY <2>2, QueuedIsRecord DEF Attempted
  <2>3. QED
    BY <2>1, <2>2
<1>2. StoresOnly /\ Covered(r)' /\ r.page \subseteq 1..arrived /\ Arrived(r)
  BY <1>1 DEF StoresOnly, Covered, SyncInv, MailboxTypeOK, Arrived, Empty
<1>3. connection' \in Connections /\ keyTaken' \in BOOLEAN
  BY DEF SyncInv, MailboxTypeOK
<1>4. /\ outcome' \in [Messages -> {"none", "mailbox", "elsewhere"}]
      /\ \A m \in Messages : outcome'[m] = "mailbox" => m <= arrived
  BY DEF SyncInv, MailboxTypeOK
<1>5. QED
  BY <1>1, <1>2, <1>3, <1>4, CallMoves

\* A claim or a request of the owner queues one job; it holds nothing yet.
LEMMA QueueKeeps ==
  ASSUME SyncInv, NEW c \in Calls, ClaimDue(c) \/ RequestSync(c)
  PROVE  SyncInv'
<1>1. /\ call' = [call EXCEPT ![c] = Queued]
      /\ UNCHANGED <<arrived, outcome, secondHalf, scanTop, syncFaults>>
  BY DEF ClaimDue, RequestSync
<1>2. /\ connection' \in Connections /\ connection'.cursor = connection.cursor
      /\ keyTaken' \in BOOLEAN
  <2>1. connection \in Connections /\ keyTaken \in BOOLEAN
    BY DEF SyncInv, MailboxTypeOK
  <2>2. CASE ClaimDue(c)
    BY <2>1, <2>2 DEF ClaimDue, Connections, ClaimLease
  <2>3. CASE RequestSync(c)
    BY <2>1, <2>3 DEF RequestSync
  <2>4. QED
    BY <2>2, <2>3
<1>3. /\ syncFaults' \in 0..MaxSyncFaults /\ StoresOnly
      /\ outcome' \in [Messages -> {"none", "mailbox", "elsewhere"}]
      /\ \A m \in Messages : outcome'[m] = "mailbox" => m <= arrived
  BY <1>1 DEF SyncInv, MailboxTypeOK, StoresOnly
<1>4. Covered(Queued)' /\ Queued.page \subseteq 1..arrived /\ Arrived(Queued)
  BY QueuedIsRecord DEF Covered, SyncInv, MailboxTypeOK, Arrived, Empty
<1>5. QED
  BY <1>1, <1>2, <1>3, <1>4, QueuedIsRecord, CallMoves

LEMMA BeginKeeps ==
  ASSUME SyncInv, NEW c \in Calls, BeginSync(c)
  PROVE  SyncInv'
<1>1. /\ UNCHANGED <<arrived, outcome, connection, keyTaken, secondHalf, scanTop, syncFaults>>
      /\ syncFaults' \in 0..MaxSyncFaults
  BY DEF BeginSync, SyncInv, MailboxTypeOK
<1>2. CASE ~connection.active
  BY <1>1, <1>2, AttemptedKeeps DEF BeginSync
<1>3. CASE connection.active
  <2>1. connection.cursor \in 0..LastMessage /\ call[c].attempts \in 0..JobAttempts
    BY DEF SyncInv, MailboxTypeOK, Connections
  <2>2. [Queued EXCEPT !.at = "listing", !.from = connection.cursor, !.attempts = call[c].attempts]
          \in CallRecords
    BY <2>1, QueuedIsRecord DEF CallRecords
  <2>3. PICK r \in CallRecords :
          r = [Queued EXCEPT !.at = "listing", !.from = connection.cursor,
                             !.attempts = call[c].attempts]
    BY <2>2
  <2>4. call' = [call EXCEPT ![c] = r]
    BY <1>3, <2>3 DEF BeginSync
  <2>5. r.at = "listing" /\ r.page = {} /\ r.top = 0 /\ r.next = 0 /\ r.from = connection.cursor
    BY <2>3, QueuedIsRecord DEF CallRecords, Empty
  <2>6. StoresOnly /\ Covered(r)' /\ r.page \subseteq 1..arrived /\ Arrived(r)
    BY <1>1, <2>5 DEF StoresOnly, Covered, Arrived, SyncInv, MailboxTypeOK
  <2>7. /\ connection' \in Connections /\ keyTaken' \in BOOLEAN
        /\ outcome' \in [Messages -> {"none", "mailbox", "elsewhere"}]
        /\ \A m \in Messages : outcome'[m] = "mailbox" => m <= arrived
    BY <1>1 DEF SyncInv, MailboxTypeOK
  <2>8. QED
    BY <1>1, <2>4, <2>6, <2>7, CallMoves
<1>4. QED
  BY <1>2, <1>3

\* A page is the newest messages of the rest: it has no gap above any of them.
LEMMA PageHasNoGap ==
  ASSUME NEW n \in Nat, NEW low \in {m \in 1..n : Cardinality({k \in 1..n : k > m}) < PageLimit},
         NEW high \in low..n
  PROVE  high \in {m \in 1..n : Cardinality({k \in 1..n : k > m}) < PageLimit}
<1> DEFINE above(m) == {k \in 1..n : k > m}
<1>1. high \in 1..n /\ above(high) \in SUBSET above(low)
  OBVIOUS
<1>2. IsFiniteSet(1..n)
  BY FS_Interval
<1>3. IsFiniteSet(above(low))
  <2>1. above(low) \in SUBSET (1..n)
    OBVIOUS
  <2>2. QED
    BY <1>2, <2>1, FS_Subset
<1>4. Cardinality(above(high)) <= Cardinality(above(low)) /\ IsFiniteSet(above(high))
  BY <1>1, <1>3, FS_Subset
<1>5. Cardinality(above(low)) < PageLimit
  OBVIOUS
<1>6. Cardinality(above(high)) \in Nat /\ Cardinality(above(low)) \in Nat
  BY <1>3, <1>4, FS_CardinalityType
<1>7. Cardinality(above(high)) < PageLimit
  BY <1>4, <1>5, <1>6, MailboxAssumption
<1>8. QED
  BY <1>1, <1>7

\* The cursor behind a page is its oldest message, unless nothing is left behind it.
LEMMA CursorIsOldest ==
  ASSUME NEW page \in SUBSET Messages
  PROVE  /\ NextCursor(page) \in 0..LastMessage
         /\ NextCursor(page) # Null => NextCursor(page) \in page
<1>1. CASE page = {} \/ Behind(page) = {}
  BY <1>1, MailboxAssumption DEF NextCursor, Null
<1>2. CASE ~(page = {} \/ Behind(page) = {})
  <2>1. page \subseteq Nat /\ page # {}
    BY <1>2, MailboxAssumption DEF Messages
  <2>2. \E m \in page : \A k \in page : m <= k
    BY <2>1, Smallest
  <2>3. NextCursor(page) \in page
    BY <1>2, <2>2 DEF NextCursor
  <2>4. page \subseteq 0..LastMessage
    BY MailboxAssumption DEF Messages
  <2>5. QED
    BY <2>3, <2>4
<1>3. QED
  BY <1>1, <1>2

\* A page that is refused ends the attempt.
LEMMA RefusedPageKeeps ==
  ASSUME SyncInv, NEW c \in Calls, ListPage(c), PageRefused(call[c].from)
  PROVE  SyncInv'
<1>1. call' = Attempted(c) /\ UNCHANGED <<arrived, outcome, connection, keyTaken, secondHalf, scanTop>>
  BY DEF ListPage
<1>2. syncFaults' \in 0..MaxSyncFaults
  BY DEF ListPage, SyncInv, MailboxTypeOK
<1>3. QED
  BY <1>1, <1>2, AttemptedKeeps

LEMMA ListKeeps ==
  ASSUME SyncInv, NEW c \in Calls, ListPage(c), ~PageRefused(call[c].from)
  PROVE  SyncInv'
<1> DEFINE from == call[c].from
           n == IF from = Null THEN arrived ELSE from - 1
           page == Listed(from)
           next == NextCursor(page)
           top == IF from = Null THEN arrived ELSE call[c].top
<1>1. /\ call' = [call EXCEPT ![c] = [call[c] EXCEPT !.at = "storing", !.page = page,
                                                     !.next = next, !.top = top]]
      /\ UNCHANGED <<arrived, outcome, connection, keyTaken, secondHalf, scanTop, syncFaults>>
  BY DEF ListPage
<1>2. /\ call[c] \in CallRecords /\ from \in 0..LastMessage /\ arrived \in 0..LastMessage
      /\ call[c].top \in 0..LastMessage /\ call[c].top <= arrived /\ from <= arrived
  BY DEF SyncInv, MailboxTypeOK, CallRecords, Arrived
<1>3. n \in 0..LastMessage /\ top \in 0..LastMessage /\ top <= arrived
  BY <1>2, MailboxAssumption DEF Null
<1>4. page = {m \in 1..n : Cardinality({k \in 1..n : k > m}) < PageLimit}
  BY DEF Listed
<1>5. page \in SUBSET Messages
  BY <1>3, <1>4, MailboxAssumption DEF Messages
<1>6. page \subseteq 1..arrived
  <2>1. n <= arrived
    BY <1>2, MailboxAssumption DEF Null
  <2>2. QED
    BY <1>2, <1>3, <1>4, <2>1
<1>7. next \in 0..LastMessage /\ (next # Null => next \in page)
  BY <1>5, CursorIsOldest
<1> HIDE DEF page, next
<1>8. ASSUME next # Null, NEW m \in next..n PROVE m \in page
  <2>1. n \in Nat
    BY <1>3, MailboxAssumption
  <2>2. next \in {k \in 1..n : Cardinality({j \in 1..n : j > k}) < PageLimit}
    BY <1>4, <1>7, <1>8
  <2> HIDE DEF n
  <2>3. m \in {k \in 1..n : Cardinality({j \in 1..n : j > k}) < PageLimit}
    BY <1>8, <2>1, <2>2, PageHasNoGap
  <2>4. QED
    BY <1>4, <2>3
<1> HIDE DEF top
<1>9. [call[c] EXCEPT !.at = "storing", !.page = page, !.next = next, !.top = top] \in CallRecords
  BY <1>2, <1>3, <1>5, <1>7 DEF CallRecords
<1>10. PICK r \in CallRecords :
         r = [call[c] EXCEPT !.at = "storing", !.page = page, !.next = next, !.top = top]
  BY <1>9
<1>11. r.page = page /\ r.next = next /\ r.top = top /\ r.from = from
  BY <1>2, <1>10 DEF CallRecords
<1>12. r.page \subseteq 1..arrived /\ Arrived(r)
  <2>1. next <= arrived
    BY <1>2, <1>6, <1>7 DEF Null
  <2>2. QED
    BY <1>2, <1>3, <1>6, <1>11, <2>1 DEF Arrived
<1>13. Covered(r)'
  <2>1. Upto(r) = n
    BY <1>2, <1>11 DEF Upto, Null, top
  <2>2. QED
    BY <1>8, <1>11, <2>1 DEF Covered, Upto
<1>14. /\ StoresOnly /\ connection' \in Connections /\ keyTaken' \in BOOLEAN
       /\ syncFaults' \in 0..MaxSyncFaults
       /\ outcome' \in [Messages -> {"none", "mailbox", "elsewhere"}]
       /\ \A m \in Messages : outcome'[m] = "mailbox" => m <= arrived
  BY <1>1 DEF SyncInv, MailboxTypeOK, StoresOnly
<1>15. call' = [call EXCEPT ![c] = r]
  BY <1>1, <1>10
<1>16. QED
  BY <1>1, <1>12, <1>13, <1>14, <1>15, CallMoves

LEMMA StoreMessageKeeps ==
  ASSUME SyncInv, NEW c \in Calls, StoreMessage(c)
  PROVE  SyncInv'
<1> DEFINE page == call[c].page
           m == Newest(page)
<1>1. /\ call[c] \in CallRecords /\ page \subseteq 1..arrived /\ page \subseteq 0..LastMessage
      /\ page # {}
  BY MailboxAssumption DEF SyncInv, MailboxTypeOK, CallRecords, Messages, StoreMessage
<1>2. \E x \in page : \A y \in page : y <= x
  BY <1>1, Greatest, MailboxAssumption
<1>3. m \in page
  BY <1>2 DEF Newest
<1> HIDE DEF m
<1>4. /\ UNCHANGED <<arrived, connection, keyTaken, secondHalf, scanTop, syncFaults>>
      /\ syncFaults' \in 0..MaxSyncFaults /\ keyTaken' \in BOOLEAN /\ connection' \in Connections
  BY DEF StoreMessage, SyncInv, MailboxTypeOK
<1>5. CASE Declined(m)
  <2>1. call' = Attempted(c) /\ UNCHANGED outcome
    BY <1>5 DEF StoreMessage, m
  <2>2. QED
    BY <1>4, <2>1, AttemptedKeeps
<1>6. CASE ~Declined(m)
  <2>1. /\ call' = [call EXCEPT ![c] = [call[c] EXCEPT !.page = page \ {m}]]
        /\ outcome' = [outcome EXCEPT ![m] = "mailbox"]
    BY <1>6 DEF StoreMessage, m
  <2>2. [call[c] EXCEPT !.page = page \ {m}] \in CallRecords
    BY <1>1 DEF CallRecords
  <2>3. PICK r \in CallRecords : r = [call[c] EXCEPT !.page = page \ {m}]
    BY <2>2
  <2>4. /\ r.page = page \ {m} /\ r.next = call[c].next /\ r.top = call[c].top
        /\ r.from = call[c].from /\ r.at = call[c].at
    BY <1>1, <2>3 DEF CallRecords
  <2>5. m \in Messages /\ m \in 1..arrived
    BY <1>1, <1>3 DEF CallRecords
  <2>6. /\ StoresOnly /\ outcome'[m] = "mailbox"
        /\ outcome' \in [Messages -> {"none", "mailbox", "elsewhere"}]
        /\ \A k \in Messages : outcome'[k] = "mailbox" => k <= arrived
    BY <2>1, <2>5 DEF SyncInv, MailboxTypeOK, StoresOnly
  <2>7. Arrived(r) /\ r.page \subseteq 1..arrived
    BY <1>1, <2>4 DEF SyncInv, Arrived
  <2>8. Covered(r)'
    <3>1. Covered(call[c])
      BY DEF SyncInv
    <3>2. ASSUME call[c].next # Null, NEW k \in call[c].next .. Upto(call[c])
          PROVE  k \in Messages
      BY <1>1, <3>2, MailboxAssumption DEF CallRecords, Messages, Upto, Null
    <3>3. QED
      BY <2>4, <2>6, <3>1, <3>2 DEF Covered, Upto, StoresOnly
  <2>9. call' = [call EXCEPT ![c] = r]
    BY <2>1, <2>3
  <2>10. QED
    BY <1>4, <2>6, <2>7, <2>8, <2>9, CallMoves
<1>7. QED
  BY <1>5, <1>6

\* The page is stored, and the cursor is where the call found it: what the call covered
\* and what was behind the cursor meet.
LEMMA AdvanceKeeps ==
  ASSUME SyncInv, NEW c \in Calls, AdvanceCursor(c)
  PROVE  SyncInv'
<1>1. CASE ~CursorUnmoved(c)
  <2>1. /\ call' = Attempted(c)
        /\ UNCHANGED <<arrived, outcome, connection, keyTaken, secondHalf, scanTop, syncFaults>>
    BY <1>1 DEF AdvanceCursor
  <2>2. syncFaults' \in 0..MaxSyncFaults
    BY <2>1 DEF SyncInv, MailboxTypeOK
  <2>3. QED
    BY <2>1, <2>2, AttemptedKeeps
<1>2. CASE CursorUnmoved(c)
  <2> DEFINE from == call[c].from
             next == call[c].next
             age == call[c].age
  <2>1. /\ connection' = [connection EXCEPT !.cursor = next, !.syncAge = age, !.claimAge = ClaimLease]
        /\ call' = [call EXCEPT ![c] = NoCall]
        /\ scanTop' = IF from = Null THEN call[c].top ELSE scanTop
        /\ UNCHANGED <<arrived, outcome, keyTaken, secondHalf, syncFaults>>
        /\ call[c].at = "storing" /\ call[c].page = {}
    BY <1>2 DEF AdvanceCursor
  <2>2. connection.cursor = from
    BY <1>2 DEF CursorUnmoved
  <2>3. /\ call[c] \in CallRecords /\ Covered(call[c]) /\ Arrived(call[c])
        /\ connection \in Connections /\ scanTop \in 0..arrived /\ arrived \in 0..LastMessage
    BY DEF SyncInv, MailboxTypeOK, CallRecords
  <2>4. /\ from \in 0..LastMessage /\ next \in 0..LastMessage /\ age \in 0..SyncInterval
        /\ call[c].top \in 0..LastMessage
    BY <2>3 DEF CallRecords
  <2>5. connection' \in Connections /\ connection'.cursor = next
    <3>1. connection' = [connection EXCEPT !.cursor = next, !.syncAge = age, !.claimAge = ClaimLease]
      BY <2>1
    <3>2. connection \in Connections /\ next \in 0..LastMessage /\ age \in 0..SyncInterval
      BY <2>3, <2>4
    <3>3. ClaimLease \in 0..ClaimLease
      BY DEF ClaimLease
    <3> HIDE DEF next, age
    <3>4. ASSUME NEW p \in Connections, NEW n \in 0..LastMessage, NEW a \in 0..SyncInterval
          PROVE  LET q == [p EXCEPT !.cursor = n, !.syncAge = a, !.claimAge = ClaimLease]
                 IN  q \in Connections /\ q.cursor = n
      BY <3>3 DEF Connections
    <3>5. QED
      BY <3>1, <3>2, <3>4
  <2>6. scanTop' \in 0..arrived /\ connection'.cursor <= arrived
    BY <2>1, <2>3, <2>4, <2>5 DEF Arrived
  <2>7. NoMessagePassedOver'
    <3>1. ASSUME next # Null, NEW m \in next..scanTop' PROVE outcome[m] # "none"
      <4>1. CASE m <= Upto(call[c])
        <5>1. m \in next..Upto(call[c])
          BY <3>1, <4>1, <2>4, <2>6 DEF Upto
        <5>2. QED
          BY <2>1, <2>3, <3>1, <5>1 DEF Covered
      <4>2. CASE ~(m <= Upto(call[c]))
        <5>1. from # Null /\ m \in from..scanTop
          BY <2>1, <2>3, <2>4, <2>6, <3>1, <4>2, MailboxAssumption DEF Upto, Null
        <5>2. QED
          BY <2>2, <5>1 DEF SyncInv, NoMessagePassedOver
      <4>3. QED
        BY <4>1, <4>2
    <3>2. QED
      BY <2>1, <2>5, <3>1 DEF NoMessagePassedOver
  <2>8. ASSUME NEW d \in Calls PROVE call'[d] \in CallRecords /\ Arrived(call[d])' /\ Covered(call[d])'
                                      /\ call'[d].page \subseteq 1..arrived
    <3>1. CASE d = c
      <4>1. call'[d] = NoCall
        BY <2>1, <3>1 DEF SyncInv, MailboxTypeOK
      <4>2. QED
        BY <2>1, <2>3, <4>1, QueuedIsRecord DEF Arrived, Covered, Empty
    <3>2. CASE d # c
      <4>1. call'[d] = call[d] /\ call[d] \in CallRecords /\ call[d].page \subseteq 1..arrived
        BY <2>1, <3>2 DEF SyncInv, MailboxTypeOK, CallRecords
      <4>2. Arrived(call[d]) /\ Covered(call[d])
        BY DEF SyncInv
      <4>3. QED
        BY <2>1, <4>1, <4>2 DEF Arrived, Covered, Upto
    <3>3. QED
      BY <3>1, <3>2
  <2>9. MailboxTypeOK'
    <3>1. call' \in [Calls -> CallRecords]
      BY <2>1, <2>8 DEF SyncInv, MailboxTypeOK
    <3>2. QED
      BY <2>1, <2>5, <2>6, <2>8, <3>1 DEF SyncInv, MailboxTypeOK, CallRecords
  <2>10. QED
    BY <2>1, <2>6, <2>7, <2>8, <2>9 DEF SyncInv
<1>3. QED
  BY <1>1, <1>2

LEMMA FailureKeeps ==
  ASSUME SyncInv, NEW c \in Calls, SyncFails(c)
  PROVE  SyncInv'
<1>1. /\ call' = Attempted(c)
      /\ UNCHANGED <<arrived, outcome, connection, keyTaken, secondHalf, scanTop>>
      /\ syncFaults' \in 0..MaxSyncFaults
  BY MailboxAssumption DEF SyncFails, SyncInv, MailboxTypeOK
<1>2. QED
  BY <1>1, AttemptedKeeps

LEMMA MailboxStep == SyncInv /\ [MailboxNext]_mailboxVars => SyncInv'
<1>1. SUFFICES ASSUME SyncInv, [MailboxNext]_mailboxVars PROVE SyncInv'
  OBVIOUS
<1>2. CASE UNCHANGED mailboxVars
  BY <1>1, <1>2 DEF mailboxVars, SyncInv, MailboxTypeOK, NoMessagePassedOver, Arrived, Covered, Upto
<1>3. CASE Arrive \/ MailboxTick
  BY <1>1, <1>3, ArriveKeeps, TickKeeps
<1>4. CASE (\E active \in BOOLEAN : SetConsent(active)) \/ \E m \in Messages : IngestElsewhere(m)
  BY <1>1, <1>4, OwnerActs
<1>5. CASE \E c \in Calls : ClaimDue(c) \/ RequestSync(c) \/ SyncFails(c)
  BY <1>1, <1>5, QueueKeeps, FailureKeeps
<1>6. CASE \E c \in Calls : SyncStep(c)
  BY <1>1, <1>6, BeginKeeps, RefusedPageKeeps, ListKeeps, StoreMessageKeeps, AdvanceKeeps DEF SyncStep
<1>7. QED
  BY <1>1, <1>2, <1>3, <1>4, <1>5, <1>6 DEF MailboxNext

\* The inductive invariant of the sync, with the types of its tables.
THEOREM SyncInvariant == MailboxSpec => []SyncInv
  BY MailboxInitially, MailboxStep, PTL DEF MailboxSpec

\* Everything from a cursor in the middle of the mailbox up to the newest message of its
\* scan is stored, whatever overlapping calls, retries and crashes did (email-sync.ts:74-92).
THEOREM CursorsPassNoMessageOver == MailboxSpec => []NoMessagePassedOver
<1>1. SyncInv => NoMessagePassedOver
  BY DEF SyncInv
<1>2. QED
  BY <1>1, SyncInvariant, PTL

=============================================================================
