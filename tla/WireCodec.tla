----------------------------- MODULE WireCodec -----------------------------
(***************************************************************************)
(* The agent's end of the socket wire (Messages.cpp): its encoders of      *)
(* replies and events, its decoder of requests, and the encoder of         *)
(* requests that the client uses as well.                                  *)
(***************************************************************************)
EXTENDS WireMessages

(***************************************************************************)
(* Closed vocabularies and their tokens; a token that is not known reads   *)
(* as a default and never fails a decode.                                  *)
(***************************************************************************)
\* The member of the vocabulary whose token this is, or the default.
FromToken(tokens, token, default) ==
  LET named == {e \in DOMAIN tokens : tokens[e] = token}
  IN IF named = {} THEN default ELSE CHOOSE e \in named : TRUE

readerInterfaceToken == [Unknown |-> "unknown", Contact |-> "contact", Contactless |-> "contactless"]
readerInterfaceFromToken(token) == FromToken(readerInterfaceToken, token, "Unknown")

keyTypeToken == [Rsa |-> "RSA", Ec |-> "EC", Other |-> "OTHER"]
keyTypeFromToken(token) == FromToken(keyTypeToken, token, "Other")

credOutcomeToken ==
  [Unspecified |-> "unspecified", Ok |-> "ok", UserCancelled |-> "userCancelled",
   MissingFields |-> "missingFields", InvalidPin |-> "invalidPin", Blocked |-> "blocked",
   PluginError |-> "pluginError", Unsupported |-> "unsupported",
   KeyActivationFailed |-> "keyActivationFailed", CardRemoved |-> "cardRemoved",
   EntryExpired |-> "entryExpired"]

syncErrorName(e) == e

(***************************************************************************)
(* Messages.cpp: encoding the shared structs.                              *)
(***************************************************************************)
encodeVisualSignatureOpts(v) == Put(v, {"page", "x", "y", "width", "height", "text"})

encodeSignOpts(o) ==
  Put(o, {"format", "level", "packaging", "allowExpired", "displayName", "reason", "location", "tsaUrl"})
    @@ IF Has(o, "visualSignature")
       THEN "visualSignature" :> InMap(o["visualSignature"], encodeVisualSignatureOpts) ELSE None

encodeReaderState(r) ==
  Put(r, {"handle", "name", "hasCard", "card", "model"})
    @@ IF Has(r, "model") THEN "interface" :> Item(Text, readerInterfaceToken[r["iface"].c]) ELSE None

encodeCardState(c) == Put(c, {"handle", "reader", "caps", "preAuth", "cardType", "atr"})

encodeCertInfo(ci) ==
  Put(ci, {"certId", "signingCapable", "fields", "keyUsageBits", "ekus", "chainSubjectCns", "trustStatus",
           "alwaysAuthenticate", "keyId", "keyBits", "canDerive"})
    @@ ("keyType" :> Item(Text, keyTypeToken[ci["keyType"].c]))

encodeSignMeta(s) == Put(s, {"format", "level", "tsaUsed", "chainComplete"})

encodeBatchDocument(d) == Put(d, {"name", "fdIndex"})

\* Fault: the row's code is written under the member's name.
RowAsStruct(r) == Put(r, {"displayName", "artifact", "code"}) @@ ("meta" :> InMap(r["meta"], encodeSignMeta))

encodeSignBatchRow(r) ==
  Put(r, {"displayName", "artifact"}) @@ ("meta" :> InMap(r["meta"], encodeSignMeta)) @@ ("errorCode" :> r["code"])

encodeCredResult(r) ==
  Put(r, {"retriesLeft", "blocked"}) @@ ("outcome" :> Item(Text, credOutcomeToken[r["outcome"].c]))

encodeCredRecord(rec) ==
  Put(rec, {"id", "label", "kind", "state", "retriesLeft", "retriesMax", "usesLeft", "usesMax",
            "unblocksLeft", "canChange", "unblockable", "activatable", "keyActivationPending",
            "keyActivatable", "recovery", "blockedGuidanceKey", "blockedGuidanceFallback",
            "keyActivationGuidanceKey", "keyActivationGuidanceFallback"})

encodeIdentityFieldsMap(cells) == cells

EncodedPhoto(p) == Put(p, {"key", "fd"})

encodeOpResult(r) ==
  Kind(r.arm) @@
  CASE r.arm = "Identity" ->
         "fields" :> MapOf([g \in DOMAIN r.of["fields"].of |->
                              InMap(r.of["fields"].of[g], encodeIdentityFieldsMap)])
    [] r.arm = "Photo" -> "photos" :> InArray(r.of["photos"], EncodedPhoto)
    [] r.arm = "Certificates" -> "certs" :> InArray(r.of["certs"], encodeCertInfo)
    [] r.arm = "Sign" -> Put(r.of, {"artifact"}) @@ ("meta" :> InMap(r.of["meta"], encodeSignMeta))
    [] r.arm = "SignBatch" -> "rows" :> InArray(r.of["rows"], encodeSignBatchRow)
    [] r.arm = "Credentials" -> ("result" :> InMap(r.of["result"], encodeCredResult))
                                  @@ ("records" :> InArray(r.of["records"], encodeCredRecord))

encodeCscaAnchorState(a) ==
  Put(a, {"anchors", "issuers", "replayRefusalActive", "signer", "signerPinned", "acceptedAt", "signedAt"})

(***************************************************************************)
(* Messages.cpp: requests, replies and events.                             *)
(***************************************************************************)
\* The wire's tag of a request: the broker's requests have a prefix.
RequestTag(arm) ==
  CASE arm = "PkLogin" -> "Pkcs11.Login" [] arm = "PkLogout" -> "Pkcs11.Logout"
    [] arm = "PkLoginState" -> "Pkcs11.LoginState" [] arm = "PkPublicKey" -> "Pkcs11.PublicKey"
    [] arm = "PkSignRaw" -> "Pkcs11.SignRaw" [] arm = "PkDecrypt" -> "Pkcs11.Decrypt"
    [] arm = "PkDerive" -> "Pkcs11.Derive" [] OTHER -> arm

encodeRequestBody(arm, r) ==
  Tag(RequestTag(arm)) @@
  CASE arm = "Hello" -> Put(r, {"proto"} \cup IF r["wantsEvents"].c = "true" THEN {} ELSE {"wantsEvents"})
    [] arm = "Sign" -> Put(r, {"card", "cert"}) @@ ("in" :> r["inFd"]) @@ ("opts" :> InMap(r["opts"], encodeSignOpts))
    [] arm = "SignBatch" -> Put(r, {"card", "cert"}) @@ ("docs" :> InArray(r["docs"], encodeBatchDocument))
                              @@ ("opts" :> InMap(r["opts"], encodeSignOpts))
    [] OTHER -> Put(r, DOMAIN r)

toCborRequest(m) == encodeRequestBody(m.arm, m.of) @@ ("req" :> Item(UInt(64), "req"))

makeReplyBase == Tag("Reply") @@ ("req" :> Item(UInt(64), "req"))

ErrorMap(e) ==
  Put(e, {"msgKey", "msgFallback"})
    @@ IF e["code"].k = "enum" THEN "name" :> Item(Text, syncErrorName(e["code"].c)) ELSE "code" :> e["code"]

\* The keys an arm adds to the envelope: the arms about cards and certificates,
\* and those of the other services.
CardArm(m) ==
  CASE m.arm = "HelloAck" -> Kind("HelloAck") @@ Put(m.of, {"agentVer", "features"})
    [] m.arm = "OpStarted" -> Put(m.of, {"op"})
    [] m.arm = "State" -> ("readers" :> InArray(m.of["readers"], encodeReaderState))
                            @@ ("cards" :> InArray(m.of["cards"], encodeCardState))
    [] m.arm = "CertList" -> "certs" :> InArray(m.of["certs"], encodeCertInfo)
    [] m.arm = "CertDer" -> Put(m.of, {"der"})
    [] m.arm = "PublicKey" -> ("kty" :> Item(Text, IF Has(m.of, "crv") THEN "EC" ELSE "RSA"))
                                @@ Put(m.of, {"n", "e", "crv", "x", "y"})

ServiceArm(m) ==
  CASE m.arm \in {"Config", "LoginState", "RawSignature", "DerivedSecret", "AppearanceFont"} ->
         Put(m.of, {"entries", "active", "sig", "z", "fd"})
    [] m.arm = "Ack" -> "ok" :> Item(Bool, "true")
    [] m.arm = "Layout" -> Kind("Layout") @@ Put(m.of, {"fontSize", "lineHeight", "lines", "clipped"})

makeReply(m) ==
  makeReplyBase @@
  CASE m.arm \in {"HelloAck", "OpStarted", "State", "CertList", "CertDer", "PublicKey"} -> CardArm(m)
    [] m.arm = "CscaAnchorState" -> Kind("CscaAnchorState") @@ encodeCscaAnchorState(m.of)
    [] m.arm = "SignRecovery" -> "result" :> MapOf(encodeOpResult([arm |-> "Sign", of |-> m.of]))
    [] m.arm = "Error" -> "err" :> InMap(MapOf(m.of), ErrorMap)
    [] OTHER -> ServiceArm(m)

toCborEvent(m) ==
  Tag(m.arm) @@
  CASE m.arm = "ReaderAdded" -> "reader" :> InMap(m.of["reader"], encodeReaderState)
    [] m.arm = "CardAdded" -> "card" :> InMap(m.of["card"], encodeCardState)
    [] m.arm = "OpIdentityGroup" -> Put(m.of, {"op", "groupKey"})
                                      @@ ("fields" :> InMap(m.of["fields"], encodeIdentityFieldsMap))
    [] m.arm = "OpResultReady" -> Put(m.of, {"op"}) @@ ("result" :> MapOf(encodeOpResult(m.of["result"])))
    [] OTHER -> Put(m.of, DOMAIN m.of)

(***************************************************************************)
(* Messages.cpp: the agent reads a request.                                *)
(***************************************************************************)
Parsed(arm, s) == IF s = Malformed THEN Malformed ELSE [arm |-> arm, of |-> s]

parseVisualSignatureOpts(m) ==
  Read(m, [page |-> UInt(64), x |-> Double, y |-> Double, width |-> Double, height |-> Double, text |-> Text], None)

parseSignOpts(m) ==
  Nested(Read(m, [format |-> Text, level |-> Text, packaging |-> Text],
              [allowExpired |-> Bool, displayName |-> Text, reason |-> Text, location |-> Text,
               tsaUrl |-> Text, visualSignature |-> Anything]),
         "visualSignature", LAMBDA i : ReadMap(i, parseVisualSignatureOpts))

parseBatchDocument(i) == ReadMap(i, LAMBDA m : Read(m, [name |-> Text, fdIndex |-> UInt(64)], None))

WithOpts(s) == Nested(s, "opts", LAMBDA i : ReadMap(i, parseSignOpts))

\* The requests about a card: Hello to SignBatch.
parseCardRequest(t, m) ==
  CASE t = "Hello" ->
         LET s == Read(m, [proto |-> UInt(64)], [wantsEvents |-> Bool])
         IN Parsed(t, IF s = Malformed THEN s ELSE s @@ ("wantsEvents" :> Item(Bool, "true")))
    [] t = "GetState" -> Parsed(t, None)
    [] t \in {"ReadIdentity", "GetPhoto", "ReadCertificates", "ReadTokenInfo"} ->
         Parsed(t, Read(m, [card |-> Text], None))
    [] t = "Sign" ->
         LET s == WithOpts(Read(m, [card |-> Text, cert |-> Text, in |-> UInt(64), opts |-> Anything], None))
         IN Parsed(t, IF s = Malformed THEN s ELSE Without(s, "in") @@ ("inFd" :> s["in"]))
    [] t = "SignBatch" ->
         Parsed(t, Nested(WithOpts(Read(m, [card |-> Text, cert |-> Text, docs |-> Array, opts |-> Anything], None)),
                          "docs", LAMBDA i : ReadEach(i, parseBatchDocument)))

parseServiceRequest(t, m) ==
  CASE t = "GetCertDer" -> Parsed(t, Read(m, [reader |-> Text, cert |-> Text], None))
    [] t = "GetConfig" -> Parsed(t, None)
    [] t = "SetConfig" -> Parsed(t, Read(m, [key |-> Text, value |-> Anything], None))
    [] t = "ResetConfig" -> Parsed(t, Read(m, [key |-> Text], None))
    [] t \in {"CancelOp", "GetSignResult"} -> Parsed(t, Read(m, [op |-> UInt(64)], None))

parsePkcs11Request(t, m) ==
  CASE t = "Pkcs11.Login" -> Parsed("PkLogin", Read(m, [reader |-> Text], None))
    [] t = "Pkcs11.Logout" -> Parsed("PkLogout", Read(m, [reader |-> Text], None))
    [] t = "Pkcs11.LoginState" -> Parsed("PkLoginState", Read(m, [reader |-> Text], None))
    [] t = "Pkcs11.PublicKey" -> Parsed("PkPublicKey", Read(m, [reader |-> Text, cert |-> Text], None))
    [] t \in {"Pkcs11.SignRaw", "Pkcs11.Decrypt"} ->
         Parsed(IF t = "Pkcs11.SignRaw" THEN "PkSignRaw" ELSE "PkDecrypt",
                Read(m, [reader |-> Text, cert |-> Text, mech |-> Text, data |-> Bytes(1)], None))
    [] t = "Pkcs11.Derive" -> Parsed("PkDerive", Read(m, [reader |-> Text, cert |-> Text, data |-> Bytes(1)], None))

parseCredentialRequest(t, m) ==
  CASE t \in {"ListCredentials", "ActivateSigningKey"} -> Parsed(t, Read(m, [card |-> Text], None))
    [] t = "ManagePin" ->
         Parsed(t, Read(m, [card |-> Text, pinId |-> Text, verb |-> Text], [activateKey |-> Bool]))
    [] t = "LayoutVisual" ->
         Parsed(t, Read(m, [text |-> Text, x |-> Double, y |-> Double, width |-> Double, height |-> Double], None))
    [] t = "GetAppearanceFont" -> Parsed(t, None)
    [] t = "ImportCscaMasterList" -> Parsed(t, Read(m, [list |-> UInt(64)], None))

CardRequests == {"Hello", "GetState", "ReadIdentity", "GetPhoto", "ReadCertificates", "ReadTokenInfo", "Sign", "SignBatch"}
ServiceRequests == {"GetCertDer", "GetConfig", "SetConfig", "ResetConfig", "CancelOp", "GetSignResult"}
Pkcs11Requests == {"Pkcs11.Login", "Pkcs11.Logout", "Pkcs11.LoginState", "Pkcs11.PublicKey", "Pkcs11.SignRaw",
                   "Pkcs11.Decrypt", "Pkcs11.Derive"}
CredentialRequests == {"ListCredentials", "ManagePin", "ActivateSigningKey", "LayoutVisual", "GetAppearanceFont",
                       "ImportCscaMasterList"}

parseRequest(m) ==
  LET e == Read(m, [req |-> UInt(64), t |-> Text], None)
      t == e["t"].c
  IN IF e = Malformed THEN Malformed
     ELSE CASE t \in CardRequests -> parseCardRequest(t, m)
            [] t \in ServiceRequests -> parseServiceRequest(t, m)
            [] t \in Pkcs11Requests -> parsePkcs11Request(t, m)
            [] t \in CredentialRequests -> parseCredentialRequest(t, m)
            [] OTHER -> Malformed
=============================================================================
