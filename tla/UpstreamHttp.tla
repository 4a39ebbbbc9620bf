----------------------------- MODULE UpstreamHttp -----------------------------
(***************************************************************************)
(* One outbound request of the SEP clients: the egress policy in front of  *)
(* it (lib/stellar/outboundEgress.ts, hostnameCanonicalization.ts) and the *)
(* order in which fetchSep1Toml and the two requestJson functions judge    *)
(* what comes back (sep1.ts, sep10.ts, sep38.ts).                          *)
(*                                                                         *)
(* The timer of a request runs from its start.  Name resolution has a      *)
(* timer of its own and does not listen to that one, so the request may be *)
(* aborted while it still resolves.                                        *)
(*                                                                         *)
(* Simplifications: a hostname or a response is the set of its defects; an *)
(* address is the range it lies in.                                        *)
(***************************************************************************)
EXTENDS Naturals, Checks

CONSTANT MaxAnswers \* bound: addresses in a name server's answer

VARIABLE exchange

-------------------------------------------------------------------------------
\* Hostnames

HostnameChecks == <<
  <<"blank",          "INVALID_HOSTNAME">>,
  <<"only_dots",      "INVALID_HOSTNAME">>,
  <<"empty_label",    "DISALLOWED_CHARACTERS">>,
  <<"whitespace",     "DISALLOWED_CHARACTERS">>,
  <<"malformed_idn",  "MALFORMED_IDN">>,
  <<"mixed_scripts",  "AMBIGUOUS_UNICODE">>,
  <<"too_long",       "INVALID_LENGTH">>,
  <<"single_label",   "INVALID_HOSTNAME">>,
  <<"long_label",     "LABEL_TOO_LONG">>,
  <<"not_ldh",        "DISALLOWED_CHARACTERS">>,
  <<"bad_tld",        "INVALID_HOSTNAME">> >>

CanonicalizeHostname(host) == FirstFailure(HostnameChecks, host)
IsValidHomeDomain(host) == CanonicalizeHostname(host) = "ok" /\ "pattern" \notin host

\* A URL: its scheme, its host, and a port, user, query or fragment beside them.
Url == [https : BOOLEAN, host : {{}} \cup {{d} : d \in Defects(HostnameChecks) \cup {"pattern"}},
        extra : BOOLEAN]
GoodUrl == [https |-> TRUE, host |-> {}, extra |-> FALSE]
NoUrl == [https |-> FALSE, host |-> {}, extra |-> FALSE]

\* What stellar.toml may name, and what the clients then accept.
OptionalHttpsUrl(url) == url.https /\ CanonicalizeHostname(url.host) = "ok"
NormalizeEndpoint(url) == url.https /\ ~url.extra /\ IsValidHomeDomain(url.host)

-------------------------------------------------------------------------------
\* The egress policy

AddressKinds == {"public4", "private4", "public6", "private6", "translated6",
                 "mapped_public4", "mapped_private4", "malformed"}

IsPublicAddress(address) == address \in {"public4", "public6", "mapped_public4"}

ApproveResolvedAddresses(answers) ==
  LET disallowed == {a \in answers : ~IsPublicAddress(a)}
  IN  IF answers = {} THEN "NO_ADDRESSES"
      ELSE IF "malformed" \in answers \/ disallowed = answers THEN "DISALLOWED_ADDRESS"
      ELSE IF disallowed = {} THEN "ok" ELSE "MIXED_ADDRESSES"

\* Both families are asked; one that fails leaves the answers of the other.
Lookups == [timedOut : BOOLEAN,
            answers : {a \in SUBSET AddressKinds : Cardinality(a) <= MaxAnswers}]

ResolveAddresses(lookup) ==
  IF lookup.timedOut THEN "DNS_TIMEOUT" ELSE IF lookup.answers = {} THEN "DNS_FAILURE" ELSE "ok"

CreateEgressFetch(url, lookup) ==
  IF ~url.https \/ CanonicalizeHostname(url.host) # "ok" THEN "UNSUPPORTED_RUNTIME"
  ELSE IF ResolveAddresses(lookup) # "ok" THEN ResolveAddresses(lookup)
  ELSE ApproveResolvedAddresses(lookup.answers)

-------------------------------------------------------------------------------
\* Responses

BodyChecks == <<
  <<"content_type",    "INVALID_CONTENT_TYPE">>,
  <<"declared_length", "RESPONSE_TOO_LARGE">>,
  <<"length",          "RESPONSE_TOO_LARGE">>,
  <<"json",            "INVALID_JSON">> >>
TomlBodyChecks == SubSeq(BodyChecks, 2, 3)

Responses == [status : {200, 201, 302, 404, 503}, defects : WithADefect(BodyChecks)]

\* A TOML client never sees the redirect its options forbid: the transport
\* follows none, and a 3xx is an answer that is not ok.
ReadToml(response) ==
  IF response.status \in 200 .. 299 THEN FirstFailure(TomlBodyChecks, response.defects)
                                    ELSE "HTTP_FAILURE"

ReadJson(response, expected) ==
  IF response.status \in 300 .. 399 THEN "REDIRECT"
  ELSE IF response.status # expected THEN "HTTP_FAILURE"
  ELSE FirstFailure(BodyChecks, response.defects)

\* The declared length is judged before the body is read; here both are one.
Read(response) ==
  IF exchange.client = "sep1" THEN ReadToml(response)
                              ELSE ReadJson(response, exchange.expected)

-------------------------------------------------------------------------------
\* The exchange

Stages == {"idle", "resolving", "waiting", "data", "failed"}
NoExchange == [stage |-> "idle", client |-> "none", expected |-> 0,
               aborted |-> FALSE, code |-> "ok"]

\* To be called by an action of a client.
Request(client, expected) ==
  exchange' = [stage |-> "resolving", client |-> client, expected |-> expected,
               aborted |-> FALSE, code |-> "ok"]

FailWith(code) == [exchange EXCEPT !.stage = "failed", !.code = code]

DialAnyway(approval) ==
  IF approval # "ok" THEN FailWith("EGRESS_POLICY") ELSE [exchange EXCEPT !.stage = "waiting"]
\* A request under an aborted signal ends at once, once the policy let it pass.
Dial(approval) ==
  CASE approval # "ok" -> FailWith("EGRESS_POLICY")
    [] approval = "ok" /\ exchange.aborted -> FailWith("TIMEOUT")
    [] OTHER -> [exchange EXCEPT !.stage = "waiting"]

Resolve(lookup) ==
  /\ exchange.stage = "resolving"
  /\ exchange' = Dial(CreateEgressFetch(GoodUrl, lookup))

Respond(response) ==
  /\ exchange.stage = "waiting"
  /\ exchange' = IF Read(response) = "ok" THEN [exchange EXCEPT !.stage = "data"]
                                          ELSE FailWith(Read(response))

Break ==
  /\ exchange.stage = "waiting"
  /\ exchange' = FailWith("NETWORK_FAILURE")

TimerFires ==
  /\ exchange.stage \in {"resolving", "waiting"} /\ ~exchange.aborted
  /\ exchange' = IF exchange.stage = "waiting"
                 THEN [FailWith("TIMEOUT") EXCEPT !.aborted = TRUE]
                 ELSE [exchange EXCEPT !.aborted = TRUE]

ExchangeNext ==
  \/ \E lookup \in Lookups : Resolve(lookup)
  \/ \E response \in Responses : Respond(response)
  \/ Break
  \/ TimerFires

-------------------------------------------------------------------------------

\* A request that was given up yields no data, even when it was given up while
\* its name was still being resolved and the answer came afterwards
\* (sep1.ts:203, sep10.ts:453, sep38.ts:645).
NoAnswerAfterTimeout == exchange.stage = "data" => ~exchange.aborted
===============================================================================
