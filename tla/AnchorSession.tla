---------------------------- MODULE AnchorSession ----------------------------
(***************************************************************************)
(* Authentication with an anchor: SEP-1 discovery, the SEP-10 challenge,   *)
(* its signature and the token (lib/stellar/sep1.ts, sep10.ts, auth.ts),   *)
(* as scripts/verify-sep10.ts runs them.  The script asks for neither a    *)
(* memo nor a client domain; requestSep10Token serves callers that do.     *)
(*                                                                         *)
(* Simplifications: the signature of a challenge and the rules the SDK     *)
(* checks on it are one fact; so are the segments and the claims' shapes   *)
(* of a token.  The body of a transaction is its hash.                     *)
(***************************************************************************)
EXTENDS UpstreamHttp

CONSTANTS
  ClockSkew,    \* CLOCK_SKEW_MS
  MaxTokenTime  \* bound: clock ticks and times in tokens

ASSUME TokenTimeAssumption == ClockSkew \in Nat /\ MaxTokenTime \in Nat

VARIABLES session, tokenClock

sessionVars == <<exchange, session, tokenClock>>

TokenTime == 0 .. MaxTokenTime

-------------------------------------------------------------------------------
\* SEP-1

EndpointChecks == [i \in 1 .. 6 |->
  <<<<"TRANSFER_SERVER", "TRANSFER_SERVER_SEP0024", "WEB_AUTH_ENDPOINT", "KYC_SERVER",
      "DIRECT_PAYMENT_SERVER", "ANCHOR_QUOTE_SERVER">>[i], "INVALID_DATA">>]

AssetChecks == <<
  <<"currencies",        "INVALID_DATA">>,
  <<"currency",          "INVALID_DATA">>,
  <<"code",              "MISSING_REQUIRED_DATA">>,
  <<"issuer",            "INVALID_DATA">>,
  <<"status",            "INVALID_DATA">>,
  <<"is_asset_anchored", "INVALID_DATA">>,
  <<"anchor_asset_type", "INVALID_DATA">>,
  <<"anchor_asset",      "INVALID_DATA">> >>

TomlChecks == <<
  <<"syntax",             "INVALID_TOML">>,
  <<"table",              "INVALID_DATA">>,
  <<"NETWORK_PASSPHRASE", "MISSING_REQUIRED_DATA">>,
  <<"DOCUMENTATION",      "MISSING_REQUIRED_DATA">>,
  <<"ORG_NAME",           "MISSING_REQUIRED_DATA">>,
  <<"ORG_URL",            "INVALID_DATA">> >>
    \o EndpointChecks \o << <<"SIGNING_KEY", "INVALID_DATA">> >> \o AssetChecks

\* A document without defects and what this flow reads of it.  An endpoint that
\* is not an https URL of a canonical host is the endpoint's defect.
Tomls ==
  [defects : WithADefect(TomlChecks), network : {"testnet"}, key : {"valid"}, webAuth : {GoodUrl}]
  \cup [defects : {{}}, network : {"testnet", "public"}, key : {"none", "malformed", "valid"},
        webAuth : {url \in Url : OptionalHttpsUrl(url)}]
  \cup [defects : {{}}, network : {"testnet"}, key : {"valid"}, webAuth : {NoUrl}]


ParseSep1Toml(toml) == FirstFailure(TomlChecks, toml.defects)

-------------------------------------------------------------------------------
\* SEP-10

\* normalizeConfig on what the document gave; the rest of the configuration is
\* the script's own.
NormalizeConfig(toml) ==
  CASE ~NormalizeEndpoint(toml.webAuth) -> "INVALID_ENDPOINT"
    [] NormalizeEndpoint(toml.webAuth) /\ toml.key = "malformed" -> "INVALID_CONFIGURATION"
    [] OTHER -> "ok"

\* Whether each operation of a name has the right source and value.
Operations == {<<>>, <<TRUE>>, <<FALSE>>, <<TRUE, TRUE>>}

Transactions == [wellFormed : BOOLEAN, passphrase : {"absent", "same", "other"},
                 identity : BOOLEAN, webAuth : Operations, client : Operations,
                 hash : {"h1", "h2"}]

MatchesWebAuthDomainOperation(tx) == tx.webAuth = <<TRUE>>
MatchesClientDomainOperation(tx) ==
  tx.client = IF session.clientDomain THEN <<TRUE>> ELSE <<>>

ParseSep10ChallengeResponse(tx) == tx.wellFormed /\ tx.passphrase # "other"
ValidateSep10Challenge(tx) ==
  /\ tx.identity
  /\ MatchesWebAuthDomainOperation(tx)
  /\ MatchesClientDomainOperation(tx)

ValidateSignedChallengeAlone(tx, original) == tx.wellFormed /\ ValidateSep10Challenge(tx)
ValidateSignedChallenge(tx, original) ==
  tx.wellFormed /\ ValidateSep10Challenge(tx) /\ tx.hash = original

-------------------------------------------------------------------------------
\* The token

Claims == [shape : BOOLEAN, subject : {"account", "account:memo", "other"},
           issuer : BOOLEAN, clientDomain : {"absent", "same", "other"},
           issuedAt : TokenTime, expiresAt : TokenTime]

ExpectedSubject == IF session.memo THEN "account:memo" ELSE "account"

ValidateStellarAuthToken(claims, now) ==
  IF claims.issuedAt >= claims.expiresAt \/ claims.issuedAt > now + ClockSkew THEN "INVALID_TOKEN"
  ELSE IF claims.expiresAt <= now THEN "TOKEN_EXPIRED" ELSE "ok"

\* The client_domain claim is looked at only when one was asked for.
ParseStellarAuthToken(claims, now) ==
  IF ~claims.shape \/ claims.subject # ExpectedSubject \/ ~claims.issuer THEN "INVALID_TOKEN"
  ELSE IF session.clientDomain /\ claims.clientDomain # "same" THEN "INVALID_CLIENT_DOMAIN"
  ELSE ValidateStellarAuthToken(claims, now)

-------------------------------------------------------------------------------
\* The flow

SessionInit ==
  /\ exchange = NoExchange
  /\ session \in [pc : {"idle"}, memo : BOOLEAN, clientDomain : BOOLEAN, issued : {"none"},
                  posted : {"none"}, subject : {"none"}, expiresAt : {0}, handedAt : {0},
                  code : {"ok"}]
  /\ tokenClock = 0

Fail(phase, code) == session' = [session EXCEPT !.pc = phase, !.code = code]
Received(pc) == session.pc = pc /\ exchange.stage = "data"
Stop == exchange' = NoExchange
GoOn(pc, client) == Request(client, 200) /\ session' = [session EXCEPT !.pc = pc]

FetchSep1Toml ==
  /\ session.pc = "idle"
  /\ GoOn("discovery", "sep1")
  /\ UNCHANGED tokenClock

\* A phase of the result: the one the failure belongs to.
Discovered(toml) ==
  /\ Received("discovery")
  /\ LET unsafe == toml.network # "testnet" \/ toml.webAuth = NoUrl \/ toml.key = "none"
     IN  CASE ParseSep1Toml(toml) # "ok" ->
                Stop /\ Fail("sep1-discovery", ParseSep1Toml(toml))
           [] ParseSep1Toml(toml) = "ok" /\ unsafe ->
                Stop /\ Fail("sep10-configuration", "UNSAFE_REFERENCE_CONFIGURATION")
           [] ParseSep1Toml(toml) = "ok" /\ ~unsafe ->
                IF NormalizeConfig(toml) = "ok" THEN GoOn("challenge", "sep10")
                ELSE Stop /\ Fail("sep10-configuration", NormalizeConfig(toml))
  /\ UNCHANGED tokenClock

\* acquireStellarAuthToken hides what failed.
ProviderFails == Stop /\ Fail("sep10-authentication", "PROVIDER_FAILURE")

Challenged(tx) ==
  /\ Received("challenge")
  /\ IF ParseSep10ChallengeResponse(tx) /\ ValidateSep10Challenge(tx)
     THEN Stop /\ session' = [session EXCEPT !.pc = "signing", !.issued = tx.hash]
     ELSE ProviderFails
  /\ UNCHANGED tokenClock

\* The signer is the caller's and may return anything.
Signed(tx) ==
  /\ session.pc = "signing"
  /\ IF ValidateSignedChallenge(tx, session.issued)
     THEN Request("sep10", 200) /\ session' = [session EXCEPT !.pc = "exchange", !.posted = tx.hash]
     ELSE ProviderFails
  /\ UNCHANGED tokenClock

SignerThrows == session.pc = "signing" /\ ProviderFails /\ UNCHANGED tokenClock

TokenReceived(claims) ==
  /\ Received("exchange")
  /\ IF ParseStellarAuthToken(claims, tokenClock) = "ok"
     THEN Stop /\ session' = [session EXCEPT !.pc = "acquired", !.subject = claims.subject,
                                             !.expiresAt = claims.expiresAt]
     ELSE ProviderFails
  /\ UNCHANGED tokenClock

\* acquireStellarAuthToken validates what its provider returned once more.
Acquired ==
  /\ session.pc = "acquired"
  /\ IF tokenClock < session.expiresAt
     THEN session' = [session EXCEPT !.pc = "complete", !.handedAt = tokenClock]
     ELSE Fail("sep10-authentication", "TOKEN_EXPIRED")
  /\ UNCHANGED <<exchange, tokenClock>>

RequestFails ==
  /\ exchange.stage = "failed"
  /\ IF session.pc = "discovery" THEN Stop /\ Fail("sep1-discovery", exchange.code) ELSE ProviderFails
  /\ UNCHANGED tokenClock

Pending == session.pc \in {"idle", "discovery", "challenge", "signing", "exchange", "acquired"}

SessionTick ==
  /\ Pending /\ tokenClock < MaxTokenTime
  /\ tokenClock' = tokenClock + 1
  /\ UNCHANGED <<exchange, session>>

SessionNext ==
  \/ FetchSep1Toml
  \/ \E toml \in Tomls : Discovered(toml)
  \/ \E tx \in Transactions : Challenged(tx) \/ Signed(tx)
  \/ SignerThrows
  \/ \E claims \in Claims : TokenReceived(claims)
  \/ Acquired
  \/ RequestFails
  \/ ExchangeNext /\ UNCHANGED <<session, tokenClock>>
  \/ SessionTick

SessionSpec == SessionInit /\ [][SessionNext]_sessionVars

-------------------------------------------------------------------------------

\* A completed authentication hangs together across its three requests and the
\* signer (sep10.ts:353, auth.ts:45): what was posted is what the server issued,
\* the token is for whom it was asked for, and it had not expired when it was
\* handed over.
AuthenticationIsBound ==
  session.pc = "complete" =>
    /\ session.posted = session.issued /\ session.issued # "none"
    /\ session.subject = ExpectedSubject
    /\ session.handedAt < session.expiresAt
===============================================================================
