---------------------------- MODULE DBusMarshal ----------------------------
(***************************************************************************)
(* What the application sees over D-Bus (Marshal.cpp, ErrorNameMap.cpp and *)
(* the conversions of DBusTransport.cpp).  The agent's D-Bus frontend is   *)
(* not in the repository: it is taken to publish the agent's structs with  *)
(* the types and keys that are read here.                                  *)
(***************************************************************************)
EXTENDS ClientTypes

\* Fault: a name of the bus is looked up as if it were the agent's.
MapByTail(domain, tail) == mapAgentErrorShortName(tail)

\* domain: the agent's prefix, the bus daemon's, or another.
mapDBusErrorName(domain, tail) ==
  CASE domain = "agent" -> mapAgentErrorShortName(tail)
    [] domain = "bus" /\ tail \in {"ServiceUnknown", "NameHasNoOwner"} -> Axes("AgentUnavailable", "None")
    [] domain = "bus" /\ tail \in {"NoReply", "Timeout", "TimedOut"} -> Axes("Timeout", "None")
    [] domain = "bus" /\ tail \in {"AccessDenied", "AuthFailed"} -> Axes("AccessDenied", "None")
    [] domain = "bus" /\ tail \in {"InvalidArgs", "InvalidSignature", "UnknownMethod", "UnknownInterface",
                                   "UnknownObject", "UnknownProperty"} -> Axes("InvalidArguments", "None")
    [] domain = "bus" -> Axes("TransportFailure", "None")
    [] OTHER -> Axes("ProtocolError", "None")

configOutcome(domain, tail) ==
  LET sync == mapDBusErrorName(domain, tail).sync IN IF sync = "none" THEN "CommunicationError" ELSE sync

(***************************************************************************)
(* Results.                                                                *)
(***************************************************************************)
ToByteArray(v) == Item([k |-> "bytes", w |-> 0], v.c)

toFieldGroup(fields) ==
  [key \in DOMAIN fields |->
     LET cell == fields[key].seq
         plain == [labelKey |-> cell[1], labelFallback |-> cell[2], type |-> cell[3], value |-> Empty, detail |-> Empty]
     IN IF cell[3].c = "binary" THEN [plain EXCEPT !.detail = ToByteArray(cell[4])]
        ELSE [plain EXCEPT !.value = Item(Text, cell[4].c)]]

toFieldGroups(fields) == [group \in DOMAIN fields |-> toFieldGroup(fields[group].of)]

\* operator>>: the members that callers want, taken out of the fields.
CertInfoWire(cert) ==
  LET fields == cert["fields"].of
      Cells(group) == IF Has(fields, group) THEN fields[group].of ELSE None
      In(group, key) == IF Has(Cells(group), key) THEN Cells(group)[key].seq[3] ELSE Empty
  IN cert @@ [subjectCn |-> In("subject", "cn"), issuerCn |-> In("issuer", "cn"),
              notBefore |-> In("validity", "notBefore"), notAfter |-> In("validity", "notAfter"),
              securityStatus |-> {Cells("security")[f].seq[3] : f \in DOMAIN Cells("security")}]

toCertificateInfo(wire) ==
  [id |-> wire["certId"], signingCapable |-> wire["signingCapable"], subject |-> wire["subjectCn"],
   issuer |-> wire["issuerCn"], notBefore |-> wire["notBefore"], notAfter |-> wire["notAfter"],
   trust |-> TrustOf(wire["trustStatus"].c), securityStatus |-> wire["securityStatus"],
   keyUsageBits |-> wire["keyUsageBits"], ekus |-> wire["ekus"], chainSubjectCns |-> wire["chainSubjectCns"],
   extra |-> FieldsExtra(wire["fields"].of)]

toCertificateInfos(certs) == [j \in DOMAIN certs |-> toCertificateInfo(CertInfoWire(certs[j].of))]

toPhotoItems(photos) == [j \in DOMAIN photos |-> [key |-> photos[j].of["key"], fd |-> photos[j].of["fd"].at]]

toBatchSignRows(rows) ==
  [j \in DOMAIN rows |->
     LET row == rows[j].of
     IN [displayName |-> row["displayName"], artifact |-> row["artifact"].at, meta |-> row["meta"].of,
         error |-> row["code"]]]

toCredentialList(records) == [j \in DOMAIN records |-> RecordFromVariantMap(records[j])]

\* The credential dictionaries as the agent's frontend writes them.
PublishedResult(r) == [key \in {SnakeCase(f) : f \in DOMAIN r} |->
                         IF key = "outcome" THEN Item(Text, credOutcomeToken[r["outcome"].c])
                         ELSE r[CHOOSE f \in DOMAIN r : SnakeCase(f) = key]]
PublishedRecord(r) == [key \in {SnakeCase(f) : f \in DOMAIN r} |-> r[CHOOSE f \in DOMAIN r : SnakeCase(f) = key]]

\* DBusOperationWatch: one slot for each kind of result.
onResult(result) ==
  LET s == result.of
  IN CASE result.arm = "Identity" -> [kind |-> "Identity", identity |-> toFieldGroups(s["fields"].of)]
       [] result.arm = "Photo" -> [kind |-> "Photo", photos |-> toPhotoItems(s["photos"].seq)]
       [] result.arm = "Certificates" -> [kind |-> "Certificates", certificates |-> toCertificateInfos(s["certs"].seq)]
       [] result.arm = "Sign" -> [kind |-> "Sign", signedArtifact |-> s["artifact"].at, signMeta |-> s["meta"].of]
       [] result.arm = "SignBatch" -> [kind |-> "BatchSign", batchRows |-> toBatchSignRows(s["rows"].seq)]
       [] result.arm = "Credentials" ->
            [kind |-> "Credentials", pinResult |-> PinResultFromVariantMap(PublishedResult(s["result"].of)),
             credentials |-> toCredentialList([j \in DOMAIN s["records"].seq |-> PublishedRecord(s["records"].seq[j].of)])]

(***************************************************************************)
(* Configuration.                                                          *)
(***************************************************************************)
\* wire: a list of sources as a(sbb), or another shape.
demarshalTslSources(wire) ==
  IF wire.k # "array" THEN ArrayOf(<<>>)
  ELSE ArrayOf([j \in DOMAIN wire.seq |->
                  tslSourceRow(wire.seq[j].of["url"], wire.seq[j].of["lotl"], wire.seq[j].of["eager"])])

demarshalConfigValue(key, raw) ==
  CASE key = "TslSources" -> demarshalTslSources(raw)
    [] key = "CscaAnchorState" -> MapOf(normalizeCscaAnchorState(raw.of))
    [] OTHER -> raw

\* How the agent answers a write: the client does not look at the key.
AgentRefusal(key) ==
  IF ~isKnownConfigKey(key) THEN "UnknownConfigKey" ELSE IF ~isSettableConfigKey(key) THEN "ReadOnlyConfig" ELSE "none"

marshalConfigValue(key, value) ==
  CASE key = "TsaUrls" -> ArrayOf(ToList(value))
    [] key = "TslSources" -> ArrayOf(SelectSeq(ToList(value), LAMBDA row : Len(ToList(row)) = 3))
    [] isKnownConfigKey(key) /\ key \notin {"TsaUrls", "TslSources"} -> AsString(value)
    [] OTHER -> value
=============================================================================
