---------------------------- MODULE ClientCodec ----------------------------
(***************************************************************************)
(* The client's end of the socket wire (ClientCodec.cpp): replies and      *)
(* events read back into the structs of Messages.h.  fds is the number of  *)
(* descriptors that came with the frame; an index beyond it is malformed.  *)
(***************************************************************************)
EXTENDS WireCodec

Unknown == [arm |-> "Unknown"]      \* UnknownReply, UnknownEvent

\* The client's table has no entryExpired.
decodeCredOutcome(token) ==
  FromToken([o \in DOMAIN credOutcomeToken \ {"EntryExpired"} |-> credOutcomeToken[o]], token, "Unspecified")

decodeSyncError(name) == IF name \in SyncErrors THEN name ELSE "CommunicationError"

(***************************************************************************)
(* The shared structs.                                                     *)
(***************************************************************************)
decodeReaderState(m) ==
  LET s == Read(m, [handle |-> Text, name |-> Text, hasCard |-> Bool],
                [card |-> Text, model |-> Text, interface |-> Text])
  IN IF s = Malformed THEN s
     ELSE Without(s, "interface")
            @@ ("iface" :> Enum(IF Has(s, "interface") THEN readerInterfaceFromToken(s["interface"].c) ELSE "Unknown"))

\* Fault: a card without capabilities is taken.
CardWithoutCaps(m) ==
  Read(m, [handle |-> Text, reader |-> Text, preAuth |-> UInt(8)], [caps |-> UInt(32), cardType |-> Text, atr |-> Text])

decodeCardState(m) ==
  Read(m, [handle |-> Text, reader |-> Text, caps |-> UInt(32), preAuth |-> UInt(8)],
       [cardType |-> Text, atr |-> Text])

decodeCertField(i) ==
  IF i.k = "array" /\ Len(i.seq) = 3 THEN textArray(i) ELSE Malformed

decodeCertInfo(m) ==
  LET Cells(i) == IF i.k = "map" THEN ReadEntries(i, decodeCertField) ELSE Malformed
      s == Read(m, [certId |-> Text, signingCapable |-> Bool, fields |-> Map, keyUsageBits |-> UInt(32),
                    ekus |-> Array, chainSubjectCns |-> Array, trustStatus |-> UInt(32),
                    alwaysAuthenticate |-> Bool, keyId |-> Bytes(1), keyType |-> Text,
                    keyBits |-> UInt(32), canDerive |-> Bool], None)
  IN IF s = Malformed THEN s
     ELSE IF s["keyId"].w = 0 THEN Malformed
     ELSE Nested(Nested(Nested([s EXCEPT !["keyType"] = Enum(keyTypeFromToken(s["keyType"].c))],
                               "fields", LAMBDA i : ReadEntries(i, Cells)),
                        "ekus", textArray), "chainSubjectCns", textArray)

decodeSignMeta(m) == Read(m, [format |-> Text, level |-> Text, tsaUsed |-> Bool, chainComplete |-> Bool], None)

\* The struct s, whose member f must be the index of one of the frame's fds.
InFrame(s, f, fds) == IF s = Malformed \/ s[f].at >= fds THEN Malformed ELSE s

decodeSignResultFields(m, fds) ==
  LET s == Read(m, [kind |-> Text, artifact |-> UInt(64), meta |-> Map], None)
  IN IF s = Malformed \/ s["kind"].c # "Sign" THEN Malformed
     ELSE Nested(InFrame(Without(s, "kind"), "artifact", fds), "meta", LAMBDA i : ReadMap(i, decodeSignMeta))

decodeSignBatchRow(m, fds) ==
  LET s == Nested(InFrame(Read(m, [displayName |-> Text, artifact |-> UInt(64), meta |-> Map, errorCode |-> UInt(32)], None),
                          "artifact", fds),
                  "meta", LAMBDA i : ReadMap(i, decodeSignMeta))
  IN IF s = Malformed THEN s ELSE Without(s, "errorCode") @@ ("code" :> s["errorCode"])

decodePhotoItem(m, fds) == InFrame(Read(m, [key |-> Text, fd |-> UInt(64)], None), "fd", fds)

decodeIdField(i) ==
  IF /\ i.k = "array" /\ Len(i.seq) = 4
     /\ \A j \in 1..3 : i.seq[j].k = "text"
     /\ i.seq[4].k \in {"text", "bytes"}
  THEN i ELSE Malformed

decodeCredOpResult(m) ==
  LET s == Read(m, [outcome |-> Text, blocked |-> Bool], [retriesLeft |-> UInt(31)])
  IN IF s = Malformed THEN s ELSE [s EXCEPT !["outcome"] = Enum(decodeCredOutcome(s["outcome"].c))]

decodeCredentialRecord(m) ==
  Read(m, [id |-> Text, label |-> Text, kind |-> Text, state |-> Text, canChange |-> Bool,
           unblockable |-> Bool, activatable |-> Bool, keyActivationPending |-> Bool,
           keyActivatable |-> Bool, recovery |-> Text],
       [retriesLeft |-> UInt(31), retriesMax |-> UInt(31), usesLeft |-> UInt(31), usesMax |-> UInt(31),
        unblocksLeft |-> UInt(31), blockedGuidanceKey |-> Text, blockedGuidanceFallback |-> Text,
        keyActivationGuidanceKey |-> Text, keyActivationGuidanceFallback |-> Text])

(***************************************************************************)
(* Replies: the arm is found by the keys that are present.                 *)
(***************************************************************************)
decodeHelloAck(m) == Nested(Read(m, [agentVer |-> Text, features |-> Array], None), "features", textArray)

decodeStateReply(m) ==
  Nested(Nested(Read(m, [readers |-> Array, cards |-> Array], None),
                "readers", LAMBDA i : ReadEach(i, LAMBDA j : ReadMap(j, decodeReaderState))),
         "cards", LAMBDA i : ReadEach(i, LAMBDA j : ReadMap(j, decodeCardState)))

\* CertListReply, and the Certificates arm of a result.
decodeCertListReply(m) ==
  Nested(Read(m, [certs |-> Array], None), "certs", LAMBDA i : ReadEach(i, LAMBDA j : ReadMap(j, decodeCertInfo)))

decodePublicKeyReply(m) ==
  LET kty == Read(m, [kty |-> Text], None)
      ec == Read(m, [crv |-> Text, x |-> Bytes(1), y |-> Bytes(1)], None)
  IN IF kty = Malformed THEN Malformed
     ELSE CASE kty["kty"].c = "RSA" -> Read(m, [n |-> Bytes(1), e |-> Bytes(1)], None)
            [] kty["kty"].c = "EC" ->
                 IF ec = Malformed THEN Malformed
                 ELSE IF \E c \in NistCurves : ec["crv"].c = c.crv /\ {ec["x"].w, ec["y"].w} = {c.fieldBytes}
                 THEN ec ELSE Malformed
            [] OTHER -> Malformed

decodeAckReply(m) ==
  LET s == Read(m, [ok |-> Bool], None)
  IN IF s = Malformed \/ s["ok"].c # "true" THEN Malformed ELSE None

decodeLayoutReply(m) ==
  Nested(Read(m, [fontSize |-> Double, lineHeight |-> Double, lines |-> Array, clipped |-> Bool], None),
         "lines", textArray)

decodeOpStarted(m) == Read(m, [op |-> UInt(64)], None)
decodeCertDerReply(m) == Read(m, [der |-> Bytes(1)], None)
decodeConfigReply(m) == Read(m, [entries |-> Map], None)
decodeLoginStateReply(m) == Read(m, [active |-> Bool], None)
decodeRawSignatureReply(m) == Read(m, [sig |-> Bytes(1)], None)
decodeDerivedSecretReply(m) == Read(m, [z |-> Bytes(1)], None)
decodeAppearanceFontReply(m, fds) == InFrame(Read(m, [fd |-> UInt(64)], None), "fd", fds)

decodeCscaAnchorStateReply(m) ==
  Read(m, [anchors |-> UInt(64), issuers |-> UInt(64), replayRefusalActive |-> Bool],
       [signer |-> Text, signerPinned |-> Bool, acceptedAt |-> Int64, signedAt |-> Int64])

decodeErrInfo(m) ==
  LET s == IF Has(m, "code") THEN Read(m, [code |-> UInt(32)], [msgKey |-> Text, msgFallback |-> Text])
           ELSE Read(m, [name |-> Text], [msgKey |-> Text, msgFallback |-> Text])
  IN IF s = Malformed \/ Has(m, "code") = Has(m, "name") THEN Malformed
     ELSE IF Has(m, "code") THEN s
     ELSE Without(s, "name") @@ ("code" :> Enum(decodeSyncError(s["name"].c)))

decodeIdentityFieldsMap(i) == ReadEntries(i, decodeIdField)

decodeOpResult(m, fds) ==
  LET k == Read(m, [kind |-> Text], None)
      kind == k["kind"].c
      Group(i) == IF i.k = "map" THEN decodeIdentityFieldsMap(i) ELSE Malformed
      s == CASE kind = "Identity" -> Nested(Read(m, [fields |-> Map], None), "fields", LAMBDA i : ReadEntries(i, Group))
             [] kind = "Photo" ->
                  Nested(Read(m, [photos |-> Array], None), "photos",
                         LAMBDA i : ReadEach(i, LAMBDA j : ReadMap(j, LAMBDA p : decodePhotoItem(p, fds))))
             [] kind = "Certificates" -> decodeCertListReply(m)
             [] kind = "Sign" -> decodeSignResultFields(m, fds)
             [] kind = "SignBatch" ->
                  Nested(Read(m, [rows |-> Array], None), "rows",
                         LAMBDA i : ReadEach(i, LAMBDA j : ReadMap(j, LAMBDA r : decodeSignBatchRow(r, fds))))
             [] kind = "Credentials" ->
                  Nested(Nested(Read(m, [result |-> Map, records |-> Array], None),
                                "result", LAMBDA i : ReadMap(i, decodeCredOpResult)),
                         "records", LAMBDA i : ReadEach(i, LAMBDA j : ReadMap(j, decodeCredentialRecord)))
             [] OTHER -> Malformed
  IN IF k = Malformed THEN Malformed
     ELSE IF s = Malformed THEN Malformed ELSE [k |-> "result", arm |-> kind, of |-> s]

\* The arms named by a `kind` key.
KindArm(m) ==
  LET kind == IF m["kind"].k = "text" THEN m["kind"].c ELSE "none"
  IN CASE kind = "HelloAck" -> Parsed(kind, decodeHelloAck(m))
       [] kind = "Layout" -> Parsed(kind, decodeLayoutReply(m))
       [] kind = "CscaAnchorState" -> Parsed(kind, decodeCscaAnchorStateReply(m))
       [] OTHER -> Malformed

\* The arms told by which keys are present, in the order they are tried.
KeyArm(m, fds) ==
  IF Has(m, "op") THEN Parsed("OpStarted", decodeOpStarted(m))
  ELSE IF Has(m, "fd") THEN Parsed("AppearanceFont", decodeAppearanceFontReply(m, fds))
  ELSE IF Has(m, "readers") /\ Has(m, "cards") THEN Parsed("State", decodeStateReply(m))
  ELSE IF Has(m, "certs") THEN Parsed("CertList", decodeCertListReply(m))
  ELSE IF Has(m, "der") THEN Parsed("CertDer", decodeCertDerReply(m))
  ELSE IF Has(m, "kty") THEN Parsed("PublicKey", decodePublicKeyReply(m))
  ELSE IF Has(m, "entries") THEN Parsed("Config", decodeConfigReply(m))
  ELSE IF Has(m, "ok") THEN Parsed("Ack", decodeAckReply(m))
  ELSE IF Has(m, "active") THEN Parsed("LoginState", decodeLoginStateReply(m))
  ELSE IF Has(m, "sig") THEN Parsed("RawSignature", decodeRawSignatureReply(m))
  ELSE IF Has(m, "z") THEN Parsed("DerivedSecret", decodeDerivedSecretReply(m))
  ELSE IF Has(m, "result")
  THEN IF m["result"].k = "map" THEN Parsed("SignRecovery", decodeSignResultFields(m["result"].of, fds)) ELSE Malformed
  ELSE Unknown

parseReply(m, fds) ==
  LET top == Read(m, [t |-> Text, req |-> UInt(64)], None)
  IN IF top = Malformed \/ top["t"].c # "Reply" THEN Malformed
     ELSE IF Has(m, "err")
     THEN IF m["err"].k = "map" THEN Parsed("Error", decodeErrInfo(m["err"].of)) ELSE Malformed
     ELSE IF Has(m, "kind") THEN KindArm(m) ELSE KeyArm(m, fds)

(***************************************************************************)
(* Events: the arm is the tag.                                             *)
(***************************************************************************)
decodeEvent(t, m, fds) ==
  CASE t = "ReaderAdded" -> Nested(Read(m, [reader |-> Map], None), "reader", LAMBDA i : ReadMap(i, decodeReaderState))
    [] t \in {"ReaderRemoved", "CardRemoved"} -> Read(m, [handle |-> Text], None)
    [] t = "CardAdded" -> Nested(Read(m, [card |-> Map], None), "card", LAMBDA i : ReadMap(i, decodeCardState))
    [] t = "PropertyChanged" -> Read(m, [handle |-> Text, iface |-> Text, props |-> Map], None)
    [] t = "ConfigChanged" -> Read(m, [key |-> Text], None)
    [] t = "OpProgress" -> Read(m, [op |-> UInt(64), phase |-> UInt(32)], None)
    [] t = "OpIdentityGroup" ->
         Nested(Read(m, [op |-> UInt(64), groupKey |-> Text, fields |-> Map], None), "fields", decodeIdentityFieldsMap)
    [] t = "OpResultReady" ->
         Nested(Read(m, [op |-> UInt(64), result |-> Map], None), "result", LAMBDA i : decodeOpResult(i.of, fds))
    [] t = "OpFinished" ->
         Read(m, [op |-> UInt(64), status |-> UInt(32), code |-> UInt(32), msgKey |-> Text, msgFallback |-> Text], None)
    [] t = "AgentQuiesced" -> Read(m, [reason |-> UInt(8)], None)

Events == {"ReaderAdded", "ReaderRemoved", "CardAdded", "CardRemoved", "PropertyChanged", "ConfigChanged",
           "OpProgress", "OpIdentityGroup", "OpResultReady", "OpFinished", "AgentQuiesced"}

parseEvent(m, fds) ==
  LET top == Read(m, [t |-> Text], None)
  IN IF top = Malformed THEN Malformed
     ELSE IF top["t"].c \in Events THEN Parsed(top["t"].c, decodeEvent(top["t"].c, m, fds)) ELSE Unknown
=============================================================================
