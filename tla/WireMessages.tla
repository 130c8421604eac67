---------------------------- MODULE WireMessages ----------------------------
(***************************************************************************)
(* The structs of the socket wire (Messages.h, CredentialWire.h), shared   *)
(* by the agent and its clients, and how one is read from a CBOR map.      *)
(*                                                                         *)
(* A CBOR item is a record with its major type k; w is the width of an     *)
(* integer in bits, or the length of a byte string.  The content of an     *)
(* item is the name of the member it was taken from, so that a value       *)
(* written under one key and read under another is noticed.  A map is a    *)
(* function from keys to items, a struct a function from members to items; *)
(* a member that is absent (nullopt, or an empty string where the code     *)
(* tests for it) is not in its domain.  A decoder answers Malformed where  *)
(* the code answers nullopt or a WireError.                                *)
(***************************************************************************)
EXTENDS Naturals, Sequences, TLC

CONSTANT Outcomes       \* the credential outcomes an operation reports

None == <<>>          \* no members
Malformed == [arm |-> "Malformed"]
Text == [k |-> "text", w |-> 0]
UInt(w) == [k |-> "uint", w |-> w]
Bool == [k |-> "bool", w |-> 0]
Bytes(n) == [k |-> "bytes", w |-> n]
Double == [k |-> "double", w |-> 0]
Int64 == [k |-> "int", w |-> 64]
Anything == [k |-> "any", w |-> 0]
Map == [k |-> "map", w |-> 0]
Array == [k |-> "array", w |-> 0]

Item(t, c) == [k |-> t.k, w |-> t.w, c |-> c]
Enum(e) == [k |-> "enum", w |-> 0, c |-> e]
Index(i) == [k |-> "uint", w |-> 64, at |-> i]
MapOf(m) == [k |-> "map", w |-> 0, of |-> m]
ArrayOf(s) == [k |-> "array", w |-> 0, seq |-> s]

\* KeyType.h: the NIST curves.
NistCurves == {[crv |-> "P-256", fieldBytes |-> 32], [crv |-> "P-384", fieldBytes |-> 48],
               [crv |-> "P-521", fieldBytes |-> 66]}
Null == Item([k |-> "null", w |-> 0], "null")

(***************************************************************************)
(* Writing a map and reading it back: FieldReader and the f... helpers.    *)
(***************************************************************************)
Has(m, key) == key \in DOMAIN m
Put(s, keys) == [key \in keys \cap DOMAIN s |-> s[key]]
Without(s, key) == [f \in DOMAIN s \ {key} |-> s[f]]
Tag(name) == "t" :> Item(Text, name)
Kind(name) == "kind" :> Item(Text, name)
InMap(i, F(_)) == MapOf(F(i.of))
InArray(i, F(_)) == ArrayOf([j \in DOMAIN i.seq |-> InMap(i.seq[j], F)])

Fits(i, t) == t.k \in {"any", i.k} /\ (i.k = "uint" /\ t.k = "uint" => i.w <= t.w)

\* Every member of must and any of may, each of its type; keys the reader does
\* not ask for are left alone.
Read(m, must, may) ==
  IF /\ \A f \in DOMAIN must : Has(m, f) /\ Fits(m[f], must[f])
     /\ \A f \in DOMAIN may \cap DOMAIN m : Fits(m[f], may[f])
  THEN [f \in DOMAIN must \cup (DOMAIN may \cap DOMAIN m) |-> m[f]]
  ELSE Malformed

\* The struct s with its member f, if it has one, decoded by D.
Nested(s, f, D(_)) ==
  IF s = Malformed \/ ~Has(s, f) THEN s
  ELSE LET d == D(s[f]) IN IF d = Malformed THEN Malformed ELSE [s EXCEPT ![f] = d]

ReadMap(i, D(_)) ==
  IF i.k # "map" THEN Malformed ELSE LET d == D(i.of) IN IF d = Malformed THEN Malformed ELSE MapOf(d)
ReadEach(i, D(_)) ==
  LET ds == [j \in DOMAIN i.seq |-> D(i.seq[j])]
  IN IF \E j \in DOMAIN ds : ds[j] = Malformed THEN Malformed ELSE ArrayOf(ds)
ReadEntries(i, D(_)) ==
  LET ds == [key \in DOMAIN i.of |-> D(i.of[key])]
  IN IF \E key \in DOMAIN ds : ds[key] = Malformed THEN Malformed ELSE MapOf(ds)
ReadText(i) == IF i.k = "text" THEN i ELSE Malformed
textArray(i) == ReadEach(i, ReadText)

(***************************************************************************)
(* Messages.h, CredentialWire.h: the structs, as the sets of their values. *)
(***************************************************************************)
Struct(must, may) ==
  {[f \in DOMAIN must \cup X |-> Item((must @@ may)[f], f)] : X \in SUBSET DOMAIN may}
Having(S, member, items) == {s @@ (member :> i) : s \in S, i \in items}
Perhaps(S, member, items) == S \cup Having(S, member, items)
MapsOf(S) == {MapOf(s) : s \in S}
ListsOf(S) == {ArrayOf(<<>>)} \cup {ArrayOf(<<MapOf(s)>>) : s \in S}
Texts(name) == {ArrayOf(<<>>), ArrayOf(<<Item(Text, name)>>)}
Enums(S) == {Enum(e) : e \in S}

VisualSignatureOpts ==
  Struct([page |-> UInt(64), x |-> Double, y |-> Double, width |-> Double,
          height |-> Double, text |-> Text], None)

SignOpts ==
  Perhaps(Struct([format |-> Text, level |-> Text, packaging |-> Text],
                 [allowExpired |-> Bool, displayName |-> Text, reason |-> Text,
                  location |-> Text, tsaUrl |-> Text]),
          "visualSignature", MapsOf(VisualSignatureOpts))

ReaderState ==
  Having(Struct([handle |-> Text, name |-> Text, hasCard |-> Bool], [card |-> Text, model |-> Text]),
         "iface", Enums({"Unknown", "Contact", "Contactless"}))

\* ReaderLabels gives an interface only to a reader it gives a model.
Labelled(r) == Has(r, "model") \/ r["iface"] = Enum("Unknown")

\* "Later" is a pre-read method of a newer agent.
CardState ==
  Having(Struct([handle |-> Text, reader |-> Text, caps |-> UInt(32)], [cardType |-> Text, atr |-> Text]),
         "preAuth", {Item(UInt(8), method) : method \in {"None", "Mrz", "Can", "Later"}})

CertField(value) == ArrayOf(<<Item(Text, "labelKey"), Item(Text, "labelFallback"), Item(Text, value)>>)

\* The groups of a certificate's fields, with one field each.
CertFields ==
  LET Group(field, value) == MapsOf(Perhaps({None}, field, {CertField(value)}))
  IN MapsOf(Perhaps(Perhaps(Perhaps({None}, "subject", Group("cn", "subject")),
                            "validity", Group("notAfter", "notAfter")),
                    "security", Group("expired", "expired")))

Verdicts == {"Trusted", "UntrustedRoot", "BrokenChain", "InvalidCert", "Expired", "Revoked", "OfflineUnverified"}

\* All fields under one verdict, and all verdicts without fields.
CertInfo ==
  LET Of(fields, verdicts) ==
        Having(Having(Having(Having(Having(
          Struct([certId |-> Text, signingCapable |-> Bool, keyUsageBits |-> UInt(32), alwaysAuthenticate |-> Bool,
                  keyId |-> Bytes(1), keyBits |-> UInt(32), canDerive |-> Bool], None),
          "fields", fields), "ekus", Texts("eku")), "chainSubjectCns", Texts("cn")),
          "keyType", Enums({"Rsa", "Ec", "Other"})), "trustStatus", {Item(UInt(32), v) : v \in verdicts})
  IN Of(CertFields, {"UntrustedRoot"}) \cup Of({MapOf(None)}, Verdicts)

SignMeta == Struct([format |-> Text, level |-> Text, tsaUsed |-> Bool, chainComplete |-> Bool], None)

BatchDocument == Having(Struct([name |-> Text], None), "fdIndex", {Index(0), Index(1)})

PublicKey ==
  Struct([n |-> Bytes(256), e |-> Bytes(3)], None)
    \cup UNION {Having(Struct([x |-> Bytes(c.fieldBytes), y |-> Bytes(c.fieldBytes)], None),
                       "crv", {Item(Text, c.crv)}) : c \in NistCurves}

CscaAnchorState ==
  Struct([anchors |-> UInt(64), issuers |-> UInt(64), replayRefusalActive |-> Bool],
         [signer |-> Text, signerPinned |-> Bool, acceptedAt |-> Int64, signedAt |-> Int64])

IdentityField(type, value) ==
  ArrayOf(<<Item(Text, "labelKey"), Item(Text, "labelFallback"), Item(Text, type), Item(value, "value")>>)

IdentityFields ==
  {MapOf(cells) : cells \in Perhaps(Perhaps({None}, "f", {IdentityField("string", Text)}),
                                    "g", {IdentityField("binary", Bytes(1))})}

PhotoItem == Having(Struct([key |-> Text], None), "fd", {Index(0), Index(1)})

SignBatchRow ==
  Having(Having(Struct([displayName |-> Text, code |-> UInt(32)], None),
                "artifact", {Index(0), Index(1)}), "meta", MapsOf(SignMeta))

\* kind, state and recovery are tokens; the second set has those the first has not.
CredentialRecord ==
  LET Flags == [id |-> Text, label |-> Text, canChange |-> Bool, unblockable |-> Bool, activatable |-> Bool,
                keyActivationPending |-> Bool, keyActivatable |-> Bool]
      Of(S, kind, state, recovery) ==
        {s @@ [kind |-> Item(Text, kind), state |-> Item(Text, state), recovery |-> Item(Text, recovery)] : s \in S}
  IN Of(Struct(Flags,
         [retriesLeft |-> UInt(31), retriesMax |-> UInt(31), usesLeft |-> UInt(31),
          usesMax |-> UInt(31), unblocksLeft |-> UInt(31), blockedGuidanceKey |-> Text,
          blockedGuidanceFallback |-> Text, keyActivationGuidanceKey |-> Text,
          keyActivationGuidanceFallback |-> Text]), "user", "operational", "holderViaPuk")
     \cup Of(Struct(Flags, None), "sign", "needsChange", "issuerProcess")
     \cup Of(Struct(Flags, None), "puk", "blocked", "none")
     \cup Of(Struct(Flags, None), "can", "transport", "unknown")

CredentialOpResult ==
  Having(Struct([blocked |-> Bool], [retriesLeft |-> UInt(31)]), "outcome", Enums(Outcomes))

\* Configuration values: the grammar leaves their form to the agent, which may
\* write a source as three cells or as a map.
AnyOf(i) == Item(Anything, i)
TslMap == MapOf([url |-> Item(Text, "url"), lotl |-> Item(Bool, "lotl"), eager |-> Item(Bool, "eager")])
TslCells == ArrayOf(<<Item(Text, "url"), Item(Bool, "lotl"), Item(Bool, "eager")>>)
TslBroken == {ArrayOf(<<Item(Text, "url")>>), MapOf([lotl |-> Item(Bool, "lotl")]), Item(Text, "url")}
TslLists == {ArrayOf(<<>>)} \cup {ArrayOf(<<a, b>>) : a, b \in {TslMap, TslCells} \cup TslBroken}
ConfigEntries ==
  MapsOf({None} \cup {"TslSources" :> AnyOf(v) : v \in TslLists} \cup {"TsaUrls" :> AnyOf(v) : v \in Texts("url")}
         \cup {"CscaAnchorState" :> AnyOf(MapOf(s)) : s \in CscaAnchorState}
         \cup {"DefaultLevel" :> AnyOf(Item(Text, "level"))})

(***************************************************************************)
(* The variants: the alternatives of each, with the values they hold.      *)
(***************************************************************************)
OfCard == Struct([card |-> Text], None)
OfReader == Struct([reader |-> Text], None)
OfCert == Struct([reader |-> Text, cert |-> Text], None)
OfOp == Struct([op |-> UInt(64)], None)

Sign ==
  Having(Having(Struct([card |-> Text, cert |-> Text], None), "inFd", {Index(0)}),
         "opts", MapsOf(SignOpts))

SignBatch ==
  Having(Having(Struct([card |-> Text, cert |-> Text], None), "docs", ListsOf(BatchDocument)),
         "opts", MapsOf(SignOpts))

PkRaw == Struct([reader |-> Text, cert |-> Text, mech |-> Text, data |-> Bytes(1)], None)

PkRequest ==
  [PkLogin |-> OfReader, PkLogout |-> OfReader, PkLoginState |-> OfReader, PkPublicKey |-> OfCert,
   PkSignRaw |-> PkRaw, PkDecrypt |-> PkRaw,
   PkDerive |-> Struct([reader |-> Text, cert |-> Text, data |-> Bytes(1)], None)]

CredentialRequest ==
  [ListCredentials |-> OfCard,
   ManagePin |-> Struct([card |-> Text, pinId |-> Text, verb |-> Text], [activateKey |-> Bool]),
   ActivateSigningKey |-> OfCard,
   LayoutVisual |-> Struct([text |-> Text, x |-> Double, y |-> Double, width |-> Double, height |-> Double], None),
   GetAppearanceFont |-> {None}]

Request ==
  [Hello |-> Having(Struct([proto |-> UInt(64)], None), "wantsEvents", {Item(Bool, "true"), Item(Bool, "false")}),
   GetState |-> {None}, ReadIdentity |-> OfCard, GetPhoto |-> OfCard, ReadCertificates |-> OfCard,
   ReadTokenInfo |-> OfCard, Sign |-> Sign, SignBatch |-> SignBatch, GetCertDer |-> OfCert,
   GetConfig |-> {None}, SetConfig |-> Having(Struct([key |-> Text], None), "value", {AnyOf(Item(Text, "value"))}),
   ResetConfig |-> Struct([key |-> Text], None),
   ImportCscaMasterList |-> Having({None}, "list", {Index(0)}), CancelOp |-> OfOp, GetSignResult |-> OfOp]
    @@ PkRequest @@ CredentialRequest

SyncErrors ==
  {"UnknownCard", "KeyNotFound", "NotAuthorized", "UserNotLoggedIn", "UnknownConfigKey",
   "ReadOnlyConfig", "InvalidConfigValue", "UnsupportedProtocol", "AuthFailed",
   "CommunicationError", "NotSupported", "UnsupportedOnThisCard",
   "UnsupportedSignatureParameter", "InputTooLarge", "RateLimited", "UnknownCredential",
   "InvalidRequest", "NoResult", "MasterListReplayed", "Cancelled"}

\* The variant member `code` is an ErrorCode or a SyncError.
ErrInfo ==
  Having(Struct(None, [msgKey |-> Text, msgFallback |-> Text]),
         "code", {Item(UInt(32), "code")} \cup Enums(SyncErrors))

SignResult == Having(Having({None}, "artifact", {Index(0), Index(1)}), "meta", MapsOf(SignMeta))

\* The reply arms, with the readers the sender may describe.
Reply(readers) ==
  [HelloAck |-> Having(Struct([agentVer |-> Text], None), "features", Texts("feature")),
   OpStarted |-> OfOp,
   State |-> Having(Having({None}, "readers", ListsOf(readers)), "cards", ListsOf(CardState)),
   CertList |-> Having({None}, "certs", ListsOf(CertInfo)),
   CertDer |-> Struct([der |-> Bytes(1)], None), PublicKey |-> PublicKey,
   Config |-> Having({None}, "entries", ConfigEntries),
   Ack |-> {None}, LoginState |-> Struct([active |-> Bool], None),
   RawSignature |-> Struct([sig |-> Bytes(1)], None), DerivedSecret |-> Struct([z |-> Bytes(1)], None),
   Layout |-> Having(Struct([fontSize |-> Double, lineHeight |-> Double, clipped |-> Bool], None),
                     "lines", Texts("line")),
   AppearanceFont |-> Having({None}, "fd", {Index(0)}), CscaAnchorState |-> CscaAnchorState,
   SignRecovery |-> SignResult, Error |-> ErrInfo]

OpResult ==
  [Identity |-> Having({None}, "fields", {MapOf(None)} \cup {MapOf([group |-> g]) : g \in IdentityFields}),
   Photo |-> Having({None}, "photos", ListsOf(PhotoItem)),
   Certificates |-> Having({None}, "certs", ListsOf(CertInfo)),
   Sign |-> SignResult, SignBatch |-> Having({None}, "rows", ListsOf(SignBatchRow)),
   Credentials |->
     Having(Having({None}, "result", MapsOf(CredentialOpResult)), "records", {ArrayOf(<<>>)})
       \cup Having(Having({None}, "result", {MapOf([blocked |-> Item(Bool, "blocked"), outcome |-> Enum("Ok")])}),
                   "records", ListsOf(CredentialRecord))]

OpResults == UNION {{[k |-> "result", arm |-> a, of |-> s] : s \in OpResult[a]} : a \in DOMAIN OpResult}

Event(readers) ==
  [ReaderAdded |-> Having({None}, "reader", MapsOf(readers)),
   ReaderRemoved |-> Struct([handle |-> Text], None),
   CardAdded |-> Having({None}, "card", MapsOf(CardState)),
   CardRemoved |-> Struct([handle |-> Text], None),
   PropertyChanged |-> Having(Struct([handle |-> Text, iface |-> Text], None), "props",
                              {MapOf(None), MapOf([key |-> AnyOf(Item(Text, "value"))])}),
   ConfigChanged |-> Struct([key |-> Text], None),
   OpProgress |-> Struct([op |-> UInt(64), phase |-> UInt(32)], None),
   OpIdentityGroup |-> Having(Struct([op |-> UInt(64), groupKey |-> Text], None), "fields", IdentityFields),
   OpResultReady |-> Having(OfOp, "result", OpResults),
   OpFinished |-> Struct([op |-> UInt(64), status |-> UInt(32), code |-> UInt(32), msgKey |-> Text,
                          msgFallback |-> Text], None),
   AgentQuiesced |-> Struct([reason |-> UInt(8)], None)]

\* The values of a variant.
Values(variant) == UNION {{[arm |-> a, of |-> s] : s \in variant[a]} : a \in DOMAIN variant}
=============================================================================
