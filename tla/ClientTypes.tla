---------------------------- MODULE ClientTypes ----------------------------
(***************************************************************************)
(* The parts of the client library that both of its transports, the socket *)
(* and D-Bus, hand their values to: the readers and cards it shows, the    *)
(* classification of errors, certificates' fields, credential records,     *)
(* signing options and configuration values.                               *)
(***************************************************************************)
EXTENDS ClientCodec

Empty == Item(Text, "")
Else(s, f) == IF Has(s, f) THEN s[f] ELSE Empty

(***************************************************************************)
(* Readers and cards.                                                      *)
(***************************************************************************)
\* AgentReader: props over what is cached.
ApplyReaderProps(cached, props) ==
  [key \in DOMAIN cached |->
     CASE ~Has(props, key) -> cached[key]
       [] key = "Interface" /\ Has(props, key) -> Enum(readerInterfaceFromToken(props[key].c))
       [] OTHER -> props[key]]

ApplyCardProps(cached, props) == [key \in DOMAIN cached |-> IF Has(props, key) THEN props[key] ELSE cached[key]]

preReadAuthFromToken(token) ==
  IF token = "" THEN "None" ELSE IF token \in {"None", "Mrz", "Can"} THEN token ELSE "nullopt"
preReadUnlockRequired(token) == preReadAuthFromToken(token) # "None"

(***************************************************************************)
(* Errors: how the call went, the agent's error code, and its error name.  *)
(***************************************************************************)
Axes(call, code) == [call |-> call, code |-> code, sync |-> "none"]

classifyAgentErrorShortName(name) ==
  CASE name = "UnknownCard" -> Axes("None", "UnsupportedCard")
    [] name \in {"KeyNotFound", "AuthFailed", "RateLimited"} -> Axes("None", name)
    [] name \in {"UnsupportedOnThisCard", "NotSupported"} -> Axes("None", "CapabilityMissing")
    [] name = "InputTooLarge" -> Axes("None", "InvalidDocument")
    [] name \in {"InvalidRequest", "UnknownCredential", "UnsupportedSignatureParameter", "UnknownConfigKey",
                 "ReadOnlyConfig", "InvalidConfigValue", "MasterListReplayed"} -> Axes("InvalidArguments", "None")
    [] name \in {"NotAuthorized", "UserNotLoggedIn"} -> Axes("AccessDenied", "None")
    [] name = "UnsupportedProtocol" -> Axes("ProtocolError", "None")
    [] OTHER -> Axes("None", "CommunicationError")

mapAgentErrorShortName(name) == [classifyAgentErrorShortName(name) EXCEPT !.sync = decodeSyncError(name)]

localExchangeFailure == Axes("None", "CommunicationError")

(***************************************************************************)
(* Certificates and credential records.                                    *)
(***************************************************************************)
\* The wire's verdict as the application is shown it.
TrustOf(verdict) ==
  CASE verdict = "Trusted" -> "Trusted"
    [] verdict \in {"UntrustedRoot", "BrokenChain", "InvalidCert"} -> "Untrusted"
    [] verdict \in {"Expired", "Revoked"} -> verdict
    [] OTHER -> "Unknown"

\* CertFieldsExtra: the groups that have a cell, or nothing at all.
FieldsExtra(fields) ==
  [group \in {g \in DOMAIN fields : DOMAIN fields[g].of # {}} |->
     [f \in DOMAIN fields[group].of |-> fields[group].of[f].seq]]

Snake ==
  [retriesLeft |-> "retries_left", retriesMax |-> "retries_max", usesLeft |-> "uses_left", usesMax |-> "uses_max",
   unblocksLeft |-> "unblocks_left", canChange |-> "can_change",
   keyActivationPending |-> "key_activation_pending", keyActivatable |-> "key_activatable",
   blockedGuidanceKey |-> "blocked_guidance_key", blockedGuidanceFallback |-> "blocked_guidance_fallback",
   keyActivationGuidanceKey |-> "key_activation_guidance_key",
   keyActivationGuidanceFallback |-> "key_activation_guidance_fallback"]
SnakeCase(f) == IF Has(Snake, f) THEN Snake[f] ELSE f
Respelled(s) == [key \in {SnakeCase(f) : f \in DOMAIN s} |-> s[CHOOSE f \in DOMAIN s : SnakeCase(f) = key]]


kindFrom(t) == FromToken([User |-> "user", Sign |-> "sign", Puk |-> "puk", Can |-> "can"], t, "Unknown")
stateFrom(t) ==
  FromToken([Transport |-> "transport", Operational |-> "operational", NeedsChange |-> "needsChange",
             Blocked |-> "blocked"], t, "Unknown")
recoveryFrom(t) ==
  FromToken([HolderViaPuk |-> "holderViaPuk", IssuerProcess |-> "issuerProcess", None |-> "none"], t, "Unknown")
outcomeFrom(t) == FromToken(credOutcomeToken, t, "Unspecified")
leftover(m, consumed) == Put(m, DOMAIN m \ consumed)

RecordFromVariantMap(m) ==
  LET members == {"id", "label", "kind", "state", "retriesLeft", "retriesMax", "usesLeft", "usesMax",
                  "unblocksLeft", "canChange", "unblockable", "activatable", "keyActivationPending",
                  "keyActivatable", "recovery", "blockedGuidanceKey", "blockedGuidanceFallback",
                  "keyActivationGuidanceKey", "keyActivationGuidanceFallback"}
  IN [f \in {g \in members : Has(m, SnakeCase(g))} |->
        LET i == m[SnakeCase(f)]
        IN CASE f = "kind" -> Enum(kindFrom(i.c)) [] f = "state" -> Enum(stateFrom(i.c))
             [] f = "recovery" -> Enum(recoveryFrom(i.c)) [] OTHER -> i]
       @@ ("extra" :> leftover(m, {SnakeCase(f) : f \in members}))

PinResultFromVariantMap(m) ==
  [outcome |-> Enum(outcomeFrom(m["outcome"].c)), retriesLeft |-> Else(m, "retries_left"),
   blocked |-> m["blocked"], extra |-> leftover(m, {"outcome", "retries_left", "blocked"})]

(***************************************************************************)
(* Signing options: typed members, and a map of further ones.              *)
(***************************************************************************)
\* o.typed: the typed members that are set, "level" unless it is Auto.
signOptionsMap(o) ==
  LET typed == {"format", "packaging"} \cup o.typed
      extra == IF "level" \in o.typed THEN o.extra ELSE o.extra \ {"level"}
  IN [key \in typed \cup extra |-> Item(Text, IF key \in typed THEN "typed" ELSE "extra")]

(***************************************************************************)
(* Configuration.                                                          *)
(***************************************************************************)
SettableKeys == {"DefaultLevel", "DefaultReason", "DefaultLocation", "TsaUrls", "TslSources"}
isSettableConfigKey(key) == key \in SettableKeys
isKnownConfigKey(key) == isSettableConfigKey(key) \/ key \in {"LastTsaUrl", "CscaAnchorState", "TslCacheDir"}

tslSourceRow(url, isLotl, eager) == ArrayOf(<<url, isLotl, eager>>)

\* QVariant: what is not a list, or not a string, reads as an empty one.
ToList(v) == IF v.k = "array" THEN v.seq ELSE <<>>
AsString(v) == IF v.k = "text" THEN v ELSE Empty

AnchorKeys ==
  [anchors |-> UInt(32), issuers |-> UInt(32), replayRefusalActive |-> Bool, signer |-> Text, signerPinned |-> Bool,
   acceptedAt |-> Int64, signedAt |-> Int64]
isKnownCscaAnchorKey(key) == Has(AnchorKeys, key)

\* What is absent stays absent; what is not known is passed on as it is.
normalizeCscaAnchorState(raw) ==
  [key \in DOMAIN raw |-> IF isKnownCscaAnchorKey(key) THEN Item(AnchorKeys[key], raw[key].c) ELSE raw[key]]

Invalid == Item([k |-> "invalid", w |-> 0], "QDateTime()")
cscaAnchorTime(map, key) == IF Has(map, key) THEN map[key] ELSE Invalid

cscaAnchorStateFromMap(map) ==
  [anchors |-> Else(map, "anchors"), issuers |-> Else(map, "issuers"),
   replayRefusalActive |-> Else(map, "replayRefusalActive"), signer |-> Else(map, "signer"),
   signerPinned |-> Else(map, "signerPinned"), acceptedAt |-> cscaAnchorTime(map, "acceptedAt"),
   signedAt |-> cscaAnchorTime(map, "signedAt"), extra |-> leftover(map, DOMAIN AnchorKeys)]
=============================================================================
