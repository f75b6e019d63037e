--------------------------- MODULE MailboxConsent ---------------------------
(***************************************************************************)
(* How a mailbox is connected and stays readable: the OAuth flow of an     *)
(* owner (email-oauth-state.ts, email-oauth.ts), the credential it stores  *)
(* (durable-credentials.ts), the consent that names the credential         *)
(* (email-connections.ts), and the refreshes of syncs whose access token   *)
(* has expired (email-connectors.ts).                                      *)
(*                                                                         *)
(* A callback and a refresh are chains of transactions with a call of the  *)
(* provider in between; they may fail, or their process die, between any   *)
(* two.  Of the tokens a credential holds only the number of exchanges     *)
(* they come from is kept.                                                 *)
(***************************************************************************)
EXTENDS Naturals

CONSTANTS OAuthStates,   \* authorizations the owner may start for one account
          Flows,         \* callbacks and refreshes under way
          NoState,
          LastVersion    \* bound on the versions of a credential

ASSUME ConsentAssumption == NoState \notin OAuthStates /\ LastVersion \in Nat \ {0}

VARIABLES
  oauthState,  \* [OAuthStates -> email_oauth_states row]
  credential,  \* [OAuthStates -> credential_records row the state's code was exchanged for]
  consent,     \* status and credentialRef of the email_connections row
  flow         \* [Flows -> what a callback or refresh holds in memory]

consentVars == <<oauthState, credential, consent, flow>>

NoCredential == [version |-> 0, exchanges |-> 0]
NoFlow == [at |-> "idle", of |-> NoState, version |-> 0, exchanges |-> 0]

ConsentTypeOK ==
  /\ oauthState \in [OAuthStates -> {"none", "open", "consumed", "expired"}]
  /\ credential \in [OAuthStates -> [version : 0 .. LastVersion, exchanges : 0 .. LastVersion]]
  /\ consent \in [status : {"none", "ACTIVE", "REVOKED"}, ref : OAuthStates \cup {NoState}]
  /\ flow \in [Flows -> [at : {"idle", "owned", "consumed", "exchanged", "stored",
                               "unauthorized", "read", "retrieved", "refreshed"},
                         of : OAuthStates \cup {NoState},
                         version : 0 .. LastVersion, exchanges : 0 .. LastVersion]]

ConsentInit ==
  /\ oauthState = [s \in OAuthStates |-> "none"]
  /\ credential = [s \in OAuthStates |-> NoCredential]
  /\ consent = [status |-> "none", ref |-> NoState]
  /\ flow = [f \in Flows |-> NoFlow]

Reaches(f, from, record) == flow[f].at = from /\ flow' = [flow EXCEPT ![f] = record]

-----------------------------------------------------------------------------
(* The owner, and the ten minutes a state lives. *)

StartAuthorization(s) ==
  /\ oauthState[s] = "none"
  /\ oauthState' = [oauthState EXCEPT ![s] = "open"]
  /\ UNCHANGED <<credential, consent, flow>>

StateExpires(s) ==
  /\ oauthState[s] = "open"
  /\ oauthState' = [oauthState EXCEPT ![s] = "expired"]
  /\ UNCHANGED <<credential, consent, flow>>

\* grantEmailConsent, an upsert; a reference left out keeps the one that is there.
Granted(ref) == consent' = [status |-> "ACTIVE", ref |-> IF ref = NoState THEN consent.ref ELSE ref]

\* POST /, with a credential of the owner's or with none.
OwnerGrants(ref) ==
  /\ ref # NoState => credential[ref] # NoCredential
  /\ Granted(ref)
  /\ UNCHANGED <<oauthState, credential, flow>>

\* revokeEmailConsent: the credential itself is kept.
OwnerRevokes ==
  /\ consent.status = "ACTIVE"
  /\ consent' = [status |-> "REVOKED", ref |-> NoState]
  /\ UNCHANGED <<oauthState, credential, flow>>

-----------------------------------------------------------------------------
(* GET /oauth/callback; a browser may send it twice. *)

ResolveOwner(f, s) ==
  /\ oauthState[s] = "open"
  /\ Reaches(f, "idle", [NoFlow EXCEPT !.at = "owned", !.of = s])
  /\ UNCHANGED <<oauthState, credential, consent>>

\* The state is read and marked in one transaction, if it is still open.
Consumable(s) == oauthState[s] = "open"

ConsumeState(f) ==
  /\ Reaches(f, "owned", [flow[f] EXCEPT !.at = "consumed"])
  /\ Consumable(flow[f].of)
  /\ oauthState' = [oauthState EXCEPT ![flow[f].of] = "consumed"]
  /\ UNCHANGED <<credential, consent>>

ExchangeCode(f) ==
  /\ Reaches(f, "consumed", [flow[f] EXCEPT !.at = "exchanged", !.exchanges = 1])
  /\ UNCHANGED <<oauthState, credential, consent>>

\* The row of name s gets its next version.
NextVersion(s, exchanges) ==
  /\ credential[s].version < LastVersion
  /\ credential' = [credential EXCEPT ![s] = [version |-> @.version + 1, exchanges |-> exchanges]]

\* storeDurableCredential without an expected version.
StoreExchanged(f) ==
  /\ Reaches(f, "exchanged", [flow[f] EXCEPT !.at = "stored"])
  /\ NextVersion(flow[f].of, flow[f].exchanges)
  /\ UNCHANGED <<oauthState, consent>>

GrantConsent(f) ==
  /\ Reaches(f, "stored", NoFlow)
  /\ Granted(flow[f].of)
  /\ UNCHANGED <<oauthState, credential>>

-----------------------------------------------------------------------------
(* A sync whose access token the provider refuses. *)

\* accessTokenFor found a token, and the provider answered 401: one refresh.
TokenRefused(f) ==
  /\ consent.status = "ACTIVE" /\ consent.ref # NoState
  /\ Reaches(f, "idle", [NoFlow EXCEPT !.at = "unauthorized"])
  /\ UNCHANGED <<oauthState, credential, consent>>

\* refreshEmailOAuthCredential reads which credential the consent names and its version, ...
ReadVersion(f) ==
  /\ consent.status = "ACTIVE" /\ consent.ref # NoState
  /\ Reaches(f, "unauthorized",
             [NoFlow EXCEPT !.at = "read", !.of = consent.ref, !.version = credential[consent.ref].version])
  /\ UNCHANGED <<oauthState, credential, consent>>

\* ... then, in another transaction, its tokens, ...
RetrieveCredential(f) ==
  /\ Reaches(f, "read", [flow[f] EXCEPT !.at = "retrieved", !.exchanges = credential[flow[f].of].exchanges])
  /\ UNCHANGED <<oauthState, credential, consent>>

\* ... has the provider renew them, ...
ExchangeRefreshToken(f) ==
  /\ Reaches(f, "retrieved", [flow[f] EXCEPT !.at = "refreshed", !.exchanges = @ + 1])
  /\ flow[f].exchanges < LastVersion
  /\ UNCHANGED <<oauthState, credential, consent>>

\* Variant: expectedVersion is not passed on.
VersionIgnored(f) == TRUE

\* storeDurableCredential with the version read.
VersionKept(f) == credential[flow[f].of].version = flow[f].version

\* ... and stores what it got if nobody has stored since.
StoreRefreshed(f) ==
  /\ Reaches(f, "refreshed", NoFlow)
  /\ VersionKept(f)
  /\ NextVersion(flow[f].of, flow[f].exchanges)
  /\ UNCHANGED <<oauthState, consent>>

\* A check refuses, the provider or the database fails, or the process dies.
FlowEnds(f) ==
  /\ flow[f].at # "idle"
  /\ flow' = [flow EXCEPT ![f] = NoFlow]
  /\ UNCHANGED <<oauthState, credential, consent>>

-----------------------------------------------------------------------------
CallbackStep(f) ==
  \/ \E s \in OAuthStates : ResolveOwner(f, s)
  \/ ConsumeState(f) \/ ExchangeCode(f) \/ StoreExchanged(f) \/ GrantConsent(f)

RefreshStep(f) ==
  \/ TokenRefused(f) \/ ReadVersion(f) \/ RetrieveCredential(f)
  \/ ExchangeRefreshToken(f) \/ StoreRefreshed(f)

ConsentNext ==
  \/ \E s \in OAuthStates : StartAuthorization(s) \/ StateExpires(s)
  \/ OwnerRevokes \/ \E ref \in OAuthStates \cup {NoState} : OwnerGrants(ref)
  \/ \E f \in Flows : CallbackStep(f) \/ RefreshStep(f) \/ FlowEnds(f)

ConsentSpec == ConsentInit /\ [][ConsentNext]_consentVars

-----------------------------------------------------------------------------
\* Every version of a credential holds tokens obtained with those of the version before it:
\* no refresh replaces newer tokens by ones it got for older, and no callback replaces
\* refreshed tokens by those of a code exchanged before, however callbacks sent twice,
\* refreshes of several syncs and failures interleave (email-oauth.ts:98-161).
TokensDescend ==
  \A s \in OAuthStates : credential[s].version = credential[s].exchanges

=============================================================================
