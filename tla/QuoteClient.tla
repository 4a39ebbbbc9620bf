----------------------------- MODULE QuoteClient -----------------------------
(***************************************************************************)
(* The SEP-38 client (lib/stellar/sep38.ts): the discovery of what a quote *)
(* server can do, which asks for its assets and then for the prices of     *)
(* each of them and survives the failure of any, the preparation of a rate *)
(* candidate (lib/rates/liveRateSource.ts), and firm quotes.               *)
(*                                                                         *)
(* Simplifications: a document or a request is the set of its defects and  *)
(* the assets and methods it names.  Prices, amounts and fees are only     *)
(* well formed or not.                                                     *)
(***************************************************************************)
EXTENDS UpstreamHttp

CONSTANT QuoteAssets \* asset identifiers

VARIABLE quote

quoteVars == <<exchange, quote>>

-------------------------------------------------------------------------------
\* Identifiers and requests

EscapeChecks == << <<"separator", "INVALID_ASSET">>, <<"escape", "INVALID_ASSET">> >>
IssuerChecks == <<
  <<"issuer_text",     "INVALID_ASSET">>,
  <<"issuer_base32",   "INVALID_ASSET">>,
  <<"issuer_version",  "INVALID_ASSET">>,
  <<"issuer_checksum", "INVALID_ASSET">> >>

\* parseSep38AssetIdentifier: whatever is wrong with an asset, its code is one.
AssetIdentifierChecks ==
  << <<"scheme", "INVALID_ASSET">>, <<"iso4217_code", "INVALID_ASSET">> >> \o EscapeChecks
    \o << <<"asset_code", "INVALID_ASSET">> >> \o IssuerChecks

OptionalFieldChecks == <<
  <<"sell_method_text", "INVALID_REQUEST">>,
  <<"buy_method_text",  "INVALID_REQUEST">>,
  <<"country_code",     "INVALID_REQUEST">> >>

PricesRequestChecks ==
  << <<"direction", "INVALID_REQUEST">>, <<"incomplete", "INVALID_REQUEST">> >>
    \o AssetIdentifierChecks \o << <<"amount", "INVALID_REQUEST">> >> \o OptionalFieldChecks

QuoteRequestChecks ==
  AssetIdentifierChecks \o <<
    <<"same_asset",   "INVALID_REQUEST">>,
    <<"amounts",      "INVALID_REQUEST">>,
    <<"amount",       "INVALID_REQUEST">>,
    <<"context",      "INVALID_REQUEST">>,
    <<"both_methods", "INVALID_REQUEST">> >>
FirmRequestChecks == QuoteRequestChecks \o << <<"expire_after", "INVALID_REQUEST">> >>

ValidatePricesRequest(defects) == FirstFailure(PricesRequestChecks, defects)
ValidateQuoteRequest(defects, firm) ==
  FirstFailure((IF firm THEN FirmRequestChecks ELSE QuoteRequestChecks) \o OptionalFieldChecks,
               defects)

\* validateText, of the id of a firm quote: it is neither blank nor of two lines.
QuoteIds == {"single_line", "other"}

\* buildSep38FirmQuoteRequest sends the sell amount or else the buy amount.
Authentications == {"token", "blank"}
RequireAuthentication(authentication) ==
  IF authentication = "token" THEN "ok" ELSE "AUTHENTICATION_REQUIRED"

-------------------------------------------------------------------------------
\* Documents

Data(names) == [i \in DOMAIN names |-> <<names[i], "INVALID_DATA">>]
NamedAsset == << <<"asset_text", "INVALID_DATA">> >> \o AssetIdentifierChecks

DeliveryMethodChecks == Data(<<"methods", "method", "method_name", "method_description">>)
CountryCodeChecks == Data(<<"countries", "country_text", "country">>)
FeeChecks == Data(<<"fee", "fee_details", "fee_detail", "fee_name", "fee_description",
                    "fee_amount", "fee_total">>)

InfoChecks == Data(<<"record", "assets", "entry">>) \o NamedAsset
                \o CountryCodeChecks \o DeliveryMethodChecks
PricesChecks == Data(<<"record", "pairs", "entry">>) \o NamedAsset
                  \o Data(<<"price", "decimals">>)
PriceChecks == Data(<<"record">>) \o NamedAsset
                 \o Data(<<"total_price", "price", "sell_amount", "buy_amount">>) \o FeeChecks
                 \o Data(<<"sell_method_text", "buy_method_text">>)
FirmQuoteChecks == Data(<<"record", "id", "expires_at", "expires_at_time", "total_price", "price">>)
                     \o NamedAsset
                     \o Data(<<"sell_amount", "sell_method_text", "buy_amount", "buy_method_text">>)
                     \o FeeChecks

\* Entries say a thing of an asset; two that name the same asset must agree.
Entries == SUBSET (QuoteAssets \X {"this", "that"})
Conflicting(entries) == \E a, b \in entries : a[1] = b[1] /\ a[2] # b[2]

Documents(checks) == [defects : {{}}, entries : Entries]
                       \cup [defects : WithADefect(checks), entries : {{}}]

ParseEntries(checks, document) ==
  LET failure == FirstFailure(checks, document.defects)
  IN  IF failure = "ok" /\ Conflicting(document.entries) THEN "INVALID_DATA" ELSE failure

Named(document) == {entry[1] : entry \in document.entries}

\* The answer to a firm quote request names its assets and methods again.
\* Amounts are not compared.
FirmQuotes == [defects : WithADefect(FirmQuoteChecks), assets : BOOLEAN, methods : BOOLEAN]

ParseSep38FirmQuote(document, matches) ==
  LET failure == FirstFailure(FirmQuoteChecks, document.defects)
      matched == ~matches \/ (document.assets /\ document.methods)
  IN  IF failure = "ok" /\ ~matched THEN "INVALID_DATA" ELSE failure

-------------------------------------------------------------------------------
\* The calls

QuoteInit ==
  /\ exchange = NoExchange
  /\ quote = [pc |-> "idle", info |-> {}, left |-> {}, asset |-> "none", priced |-> {},
              pairs |-> {}, failures |-> {}, code |-> "ok"]

Finish(code) == quote' = [quote EXCEPT !.pc = "done", !.code = code]
QuoteAnswered(pc) == quote.pc = pc /\ exchange.stage = "data"
Hang == exchange' = NoExchange

Ask(pc, expected) == Request("sep38", expected) /\ quote' = [quote EXCEPT !.pc = pc]

\* normalizeSep38QuoteServer first, the request next, then the token.
Call(pc, expected, url, verdict) ==
  /\ quote.pc = "idle"
  /\ CASE ~NormalizeEndpoint(url) -> Finish("INVALID_QUOTE_SERVER") /\ UNCHANGED exchange
       [] NormalizeEndpoint(url) /\ verdict # "ok" -> Finish(verdict) /\ UNCHANGED exchange
       [] NormalizeEndpoint(url) /\ verdict = "ok" -> Ask(pc, expected)

GetSep38Info(url) == Call("info", 200, url, "ok")

GetSep38Prices(url, defects) == Call("offer", 200, url, ValidatePricesRequest(defects))

RequestSep38FirmQuote(url, defects, authentication) ==
  LET request == ValidateQuoteRequest(defects, TRUE)
  IN  Call("firm", 201, url, IF request = "ok" THEN RequireAuthentication(authentication) ELSE request)

\* The id of the quote comes before anything else.
GetSep38FirmQuote(id, url, authentication) ==
  IF id = "single_line" THEN Call("stored_firm", 200, url, RequireAuthentication(authentication))
  ELSE quote.pc = "idle" /\ Finish("INVALID_REQUEST") /\ UNCHANGED exchange

InfoArrives(document) ==
  LET parsed == ParseEntries(InfoChecks, document)
  IN  /\ QuoteAnswered("info") /\ Hang
      /\ IF parsed # "ok" THEN Finish(parsed)
         ELSE quote' = [quote EXCEPT !.pc = "next", !.info = Named(document), !.left = Named(document)]

\* discoverSep38Capabilities: the prices of one asset, sold, after the other.
AskForPrices ==
  /\ quote.pc = "next"
  /\ IF quote.left = {} THEN Finish("ok") /\ UNCHANGED exchange
     ELSE \E asset \in quote.left :
            /\ Request("sep38", 200)
            /\ quote' = [quote EXCEPT !.pc = "prices", !.asset = asset, !.left = @ \ {asset}]

RecordPrices(document) ==
  [quote EXCEPT !.pc = "next", !.priced = @ \cup {quote.asset},
                !.pairs = @ \cup ({quote.asset} \X Named(document))]
RecordFailureAndStop(code) ==
  [quote EXCEPT !.pc = "done", !.failures = @ \cup {<<quote.asset, code>>}]
RecordFailure(code) ==
  [quote EXCEPT !.pc = "next", !.failures = @ \cup {<<quote.asset, code>>}]

PricesArrive(document) ==
  LET parsed == ParseEntries(PricesChecks, document)
  IN  /\ QuoteAnswered("prices") /\ Hang
      /\ quote' = IF parsed = "ok" THEN RecordPrices(document) ELSE RecordFailure(parsed)

\* buildReviewedLiveRateCandidates wants the pair it was reviewed for.
OfferArrives(document, wanted) ==
  LET parsed == ParseEntries(PricesChecks, document)
  IN  /\ QuoteAnswered("offer")
      /\ CASE parsed # "ok" -> Hang /\ Finish(parsed)
           [] parsed = "ok" /\ wanted \notin Named(document) -> Hang /\ Finish("PAIR_NOT_ADVERTISED")
           [] parsed = "ok" /\ wanted \in Named(document) -> Ask("price", 200)

PriceArrives(defects) ==
  QuoteAnswered("price") /\ Hang /\ Finish(FirstFailure(PriceChecks, defects))

\* Only the answer to a request is held against it, not a quote read by its id.
FirmQuoteArrives(document) ==
  /\ QuoteAnswered("firm") \/ QuoteAnswered("stored_firm")
  /\ Hang
  /\ Finish(ParseSep38FirmQuote(document, quote.pc = "firm"))

QuoteRequestFails ==
  /\ quote.pc # "done" /\ exchange.stage = "failed" /\ Hang
  /\ IF quote.pc = "prices" THEN quote' = RecordFailure(exchange.code) ELSE Finish(exchange.code)

QuoteNext ==
  \/ \E url \in Url : GetSep38Info(url)
  \/ \E url \in Url, defects \in WithADefect(PricesRequestChecks) : GetSep38Prices(url, defects)
  \/ \E url \in Url, authentication \in Authentications :
       \/ \E id \in QuoteIds : GetSep38FirmQuote(id, url, authentication)
       \/ \E defects \in WithADefect(FirmRequestChecks \o OptionalFieldChecks) :
            RequestSep38FirmQuote(url, defects, authentication)
  \/ \E document \in Documents(InfoChecks) : InfoArrives(document)
  \/ AskForPrices
  \/ \E document \in Documents(PricesChecks) : PricesArrive(document)
  \/ \E document \in Documents(PricesChecks), wanted \in QuoteAssets : OfferArrives(document, wanted)
  \/ \E defects \in WithADefect(PriceChecks) : PriceArrives(defects)
  \/ \E document \in FirmQuotes : FirmQuoteArrives(document)
  \/ QuoteRequestFails
  \/ ExchangeNext /\ UNCHANGED quote

QuoteSpec == QuoteInit /\ [][QuoteNext]_quoteVars

-------------------------------------------------------------------------------

\* What a discovery reports accounts for every asset of the server (sep38.ts:321):
\* it is priced or it has one failure and not both, whichever of the requests
\* failed, and pairs come from priced assets only.
CapabilitiesAccounted ==
  quote.pc = "done" /\ quote.code = "ok" =>
    LET failed == {failure[1] : failure \in quote.failures}
    IN  /\ quote.priced \cup failed = quote.info
        /\ quote.priced \cap failed = {}
        /\ Cardinality(quote.failures) = Cardinality(failed)
        /\ {pair[1] : pair \in quote.pairs} \subseteq quote.priced
===============================================================================
