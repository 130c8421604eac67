---------------------------- MODULE ClientViews ----------------------------
(***************************************************************************)
(* What the application sees over the socket: the conversions between the  *)
(* structs of the wire and the values the client library publishes         *)
(* (SocketTransport.cpp).                                                  *)
(***************************************************************************)
EXTENDS ClientTypes

(***************************************************************************)
(* Readers and cards.                                                      *)
(***************************************************************************)
\* Absent optionals are spelled out, so that a stale value is overwritten.
readerProps(r) ==
  [Name |-> r["name"], HasCard |-> r["hasCard"], Card |-> Else(r, "card"), Model |-> Else(r, "model"),
   Interface |-> Item(Text, readerInterfaceToken[r["iface"].c])]

preAuthToken(method) == IF method \in {"None", "Mrz", "Can"} THEN method ELSE "Unknown9"

cardProps(c) ==
  [Capabilities |-> c["caps"], PreReadAuthMethod |-> Item(Text, preAuthToken(c["preAuth"].c)),
   Reader |-> c["reader"], CardType |-> Else(c, "cardType"), Atr |-> Else(c, "atr")]

mapErrInfo(err) ==
  IF err["code"].k = "enum" THEN mapAgentErrorShortName(syncErrorName(err["code"].c))
  ELSE Axes("None", err["code"].c)

(***************************************************************************)
(* Results.                                                                *)
(***************************************************************************)
\* A text cell in a binary field is taken as its bytes.
AsBytes(i) == Item([k |-> "bytes", w |-> 0], i.c)

toFieldGroup(cells) ==
  [key \in DOMAIN cells |->
     LET cell == cells[key].seq
     IN [labelKey |-> cell[1], labelFallback |-> cell[2], type |-> cell[3],
         value |-> IF cell[3].c # "binary" /\ cell[4].k = "text" THEN cell[4] ELSE Empty,
         detail |-> IF cell[3].c = "binary" THEN AsBytes(cell[4]) ELSE Empty]]

toFieldGroups(result) == [group \in DOMAIN result["fields"].of |-> toFieldGroup(result["fields"].of[group].of)]

certFieldValue(cert, group, field) ==
  LET fields == cert["fields"].of
  IN IF Has(fields, group) THEN IF Has(fields[group].of, field) THEN fields[group].of[field].seq[3] ELSE Empty
     ELSE Empty

securityTokens(cert) ==
  LET fields == cert["fields"].of
  IN IF Has(fields, "security") THEN {fields["security"].of[f].seq[3] : f \in DOMAIN fields["security"].of} ELSE {}

toCertificateInfo(cert) ==
  [id |-> cert["certId"], signingCapable |-> cert["signingCapable"],
   subject |-> certFieldValue(cert, "subject", "cn"), issuer |-> certFieldValue(cert, "issuer", "cn"),
   notBefore |-> certFieldValue(cert, "validity", "notBefore"),
   notAfter |-> certFieldValue(cert, "validity", "notAfter"), trust |-> TrustOf(cert["trustStatus"].c),
   securityStatus |-> securityTokens(cert), keyUsageBits |-> cert["keyUsageBits"], ekus |-> cert["ekus"],
   chainSubjectCns |-> cert["chainSubjectCns"], extra |-> FieldsExtra(cert["fields"].of)]

toCertificateInfos(certs) == [j \in DOMAIN certs.seq |-> toCertificateInfo(certs.seq[j].of)]

credResultToMap(result) == Respelled([result EXCEPT !["outcome"] = Item(Text, credOutcomeToken[@.c])])
credRecordToMap(record) == Respelled(record)

\* dupFd: the descriptor the index names, by its place in the frame.
toPayload(result) ==
  LET s == result.of
      Row(r) == [displayName |-> r["displayName"], artifact |-> r["artifact"].at, meta |-> r["meta"].of,
                 error |-> r["code"]]
  IN CASE result.arm = "Identity" -> [kind |-> "Identity", identity |-> toFieldGroups(s)]
       [] result.arm = "Photo" ->
            [kind |-> "Photo", photos |-> [j \in DOMAIN s["photos"].seq |->
               [key |-> s["photos"].seq[j].of["key"], fd |-> s["photos"].seq[j].of["fd"].at]]]
       [] result.arm = "Certificates" -> [kind |-> "Certificates", certificates |-> toCertificateInfos(s["certs"])]
       [] result.arm = "Sign" ->
            [kind |-> "Sign", signedArtifact |-> s["artifact"].at, signMeta |-> s["meta"].of]
       [] result.arm = "SignBatch" ->
            [kind |-> "BatchSign", batchRows |-> [j \in DOMAIN s["rows"].seq |-> Row(s["rows"].seq[j].of)]]
       [] result.arm = "Credentials" ->
            [kind |-> "Credentials", pinResult |-> PinResultFromVariantMap(credResultToMap(s["result"].of)),
             credentials |-> [j \in DOMAIN s["records"].seq |->
                                RecordFromVariantMap(credRecordToMap(s["records"].seq[j].of))]]

(***************************************************************************)
(* Signing options and configuration values.                               *)
(***************************************************************************)
VisualItem == MapOf(CHOOSE v \in VisualSignatureOpts : TRUE)

toSignOpts(options) ==
  [key \in {"level"} \cup (DOMAIN options \cap {"format", "packaging", "allowExpired", "displayName", "reason",
                                                 "location", "tsaUrl", "visualSignature"}) |->
     CASE ~Has(options, key) -> Item(Text, "auto")
       [] Has(options, key) /\ key = "visualSignature" -> VisualItem
       [] Has(options, key) /\ key = "allowExpired" -> Item(Bool, options[key].c)
       [] OTHER -> options[key]]

\* A row is a list of three cells, or a map with a url; anything else is dropped.
normalizeTslSources(raw) ==
  LET Cells(row) == IF row.k = "map" THEN tslSourceRow(row.of["url"], row.of["lotl"], row.of["eager"]) ELSE row
      IsRow(row) == IF row.k = "map" THEN Has(row.of, "url") ELSE Len(ToList(row)) = 3
      rows == SelectSeq(ToList(raw), IsRow)
  IN ArrayOf([j \in DOMAIN rows |-> Cells(rows[j])])

configValueToVariant(key, value) ==
  CASE key = "TslSources" -> normalizeTslSources(value)
    [] key = "CscaAnchorState" -> MapOf(normalizeCscaAnchorState(value.of))
    [] key = "TsaUrls" -> ArrayOf(ToList(value))
    [] OTHER -> value

configValueToCbor(key, value) ==
  CASE key = "TslSources" -> ArrayOf(SelectSeq(ToList(value), LAMBDA row : Len(ToList(row)) = 3))
    [] key = "TsaUrls" -> ArrayOf(ToList(value))
    [] OTHER -> AsString(value)

\* setConfig: refused before a frame is built, or what the agent answers.
RefusedLocally(key) ==
  IF ~isKnownConfigKey(key) THEN "UnknownConfigKey" ELSE IF ~isSettableConfigKey(key) THEN "ReadOnlyConfig" ELSE "none"
ConfigOutcome(err) == LET sync == mapErrInfo(err).sync IN IF sync = "none" THEN "CommunicationError" ELSE sync
=============================================================================
