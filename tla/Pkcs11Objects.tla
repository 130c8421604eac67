--------------------------- MODULE Pkcs11Objects ---------------------------
(***************************************************************************)
(* What the PKCS#11 module makes of the certificates on a card: the        *)
(* objects and mechanisms of the token (ObjectModel::build over            *)
(* certEntryFrom), the attributes it serves and finds objects by, the uses *)
(* it admits, and the templates of derived keys.  Beside them the agent's  *)
(* own check of a use before any PIN is asked for (preflight of            *)
(* LmRawCrypto), which the module should never send a use to be refused.   *)
(*                                                                         *)
(* A card is [preAuth, certs]; a certificate has an id, a key, what the    *)
(* agent says of it, and the names in its DER.                             *)
(***************************************************************************)
EXTENDS Naturals, Sequences, FiniteSets, SequencesExt

KeyTypes == {"RSA", "EC", "OTHER"}
PreReadAuths == {"None", "Can", "Mrz"}
KeyUsages == {"keyEncipherment", "dataEncipherment", "digitalSignature"}
CurveSizes == {256, 384, 521}

Octets(bits) == (bits + 7) \div 8

-----------------------------------------------------------------------------
(* The token.                                                              *)

\* certEntryFrom: what the module may do with the key; only a key that signs,
\* or an EC key the agent derives with, enters the token.
Derives(cert) == cert.canDerive /\ cert.keyType = "EC"
Enters(cert) == cert.signingCapable \/ Derives(cert)

\* Fault: every RSA key is taken to decrypt.
AnyUsage(cert, preAuth) == cert.keyType = "RSA" /\ preAuth = "None"

canDecrypt(cert, preAuth) ==
    /\ cert.keyType = "RSA" /\ preAuth = "None"
    /\ cert.usage \cap {"keyEncipherment", "dataEncipherment"} # {}

certEntryFrom(cert, preAuth) ==
    [id |-> cert.id, ckaId |-> cert.keyId, keyType |-> cert.keyType, keyBits |-> cert.keyBits,
     label |-> IF cert.cn = <<>> THEN cert.id ELSE cert.cn,
     signingCapable |-> cert.signingCapable,
     canSign |-> cert.signingCapable /\ preAuth \in {"None", "Can"},
     canDecrypt |-> canDecrypt(cert, preAuth),
     canDerive |-> Derives(cert),
     signsHashOnCard |-> cert.keyType = "RSA" /\ preAuth = "Can",
     alwaysAuthenticate |-> cert.alwaysAuthenticate]

Entries(card) ==
    LET enter == SelectSeq(card.certs, Enters)
    IN  [i \in 1..Len(enter) |-> certEntryFrom(enter[i], card.preAuth)]

\* build skips what it could not serve: another kind of key, a key without a
\* size, a curve without a name.
Published(e) ==
    /\ e.keyType \in {"RSA", "EC"}
    /\ e.signingCapable \/ (e.keyType = "EC" /\ e.canDerive)
    /\ e.keyType = "RSA" => e.keyBits # 0
    /\ e.keyType = "EC" => e.keyBits \in CurveSizes

signs(e) == e.signingCapable /\ e.canSign

\* The three objects of an entry share its CKA_ID.
ObjectOf(e, cls) ==
    [cls |-> cls, certId |-> e.id, ckaId |-> e.ckaId, label |-> e.label,
     keyType |-> IF cls = "certificate" THEN "OTHER" ELSE e.keyType,
     keyBits |-> IF cls = "certificate" THEN 0 ELSE e.keyBits,
     sign |-> cls = "private" /\ signs(e),
     decrypt |-> cls = "private" /\ e.keyType = "RSA" /\ e.canDecrypt,
     derive |-> cls = "private" /\ e.keyType = "EC" /\ e.canDerive,
     alwaysAuthenticate |-> cls = "private" /\ e.alwaysAuthenticate]

Objects(card) ==
    FlattenSeq([i \in 1..Len(SelectSeq(Entries(card), Published)) |->
                  LET e == SelectSeq(Entries(card), Published)[i]
                  IN  <<ObjectOf(e, "certificate"), ObjectOf(e, "public"), ObjectOf(e, "private")>>])

\* At most one RSA mechanism per slot, by where the digest is computed.
Mechanisms(card) ==
    LET es == {e \in ToSet(Entries(card)) : Published(e)}
        rsa == {e \in es : e.keyType = "RSA"}
        ec == es \ rsa
    IN  (IF \E e \in rsa : signs(e) /\ e.signsHashOnCard THEN {"SHA256_RSA_PKCS"}
         ELSE IF \E e \in rsa : signs(e) \/ e.canDecrypt THEN {"RSA_PKCS"} ELSE {})
        \cup (IF \E e \in ec : signs(e) THEN {"ECDSA"} ELSE {})
        \cup (IF \E e \in ec : e.canDerive THEN {"ECDH1_DERIVE"} ELSE {})

-----------------------------------------------------------------------------
(* What the module admits.                                                 *)

\* C_SignInit: an advertised mechanism of the key's family, and a key that
\* signs.
C_SignInit(card, mech, obj) ==
    CASE mech \notin {"RSA_PKCS", "SHA256_RSA_PKCS", "ECDSA"} \cap Mechanisms(card) -> "MECHANISM_INVALID"
      [] obj.cls # "private"                                                       -> "KEY_HANDLE_INVALID"
      [] (mech = "ECDSA") # (obj.keyType = "EC")                                   -> "KEY_TYPE_INCONSISTENT"
      [] ~obj.sign                                                                 -> "KEY_FUNCTION_NOT_PERMITTED"
      [] OTHER                                                                     -> "OK"

C_DecryptInit(card, mech, obj) ==
    CASE mech # "RSA_PKCS" \/ mech \notin Mechanisms(card) -> "MECHANISM_INVALID"
      [] obj.cls # "private"                               -> "KEY_HANDLE_INVALID"
      [] obj.keyType # "RSA"                               -> "KEY_TYPE_INCONSISTENT"
      [] ~obj.decrypt                                      -> "KEY_FUNCTION_NOT_PERMITTED"
      [] OTHER                                             -> "OK"

\* C_DeriveKey's checks under the lock, of the mechanism, the key and the
\* length the template asks for; a length of 0 stands for none given.
C_DeriveKey(card, mech, obj, valueLen) ==
    CASE mech # "ECDH1_DERIVE" \/ mech \notin Mechanisms(card) -> "MECHANISM_INVALID"
      [] obj.cls # "private"                                   -> "KEY_HANDLE_INVALID"
      [] obj.keyType # "EC"                                    -> "KEY_TYPE_INCONSISTENT"
      [] ~obj.derive                                           -> "KEY_FUNCTION_NOT_PERMITTED"
      [] valueLen > Octets(obj.keyBits)                         -> "TEMPLATE_INCONSISTENT"
      [] OTHER                                                 -> "OK"

agentSignMechanism(mech) ==
    CASE mech = "ECDSA" -> "EcdsaSign" [] mech = "SHA256_RSA_PKCS" -> "Sha256RsaPkcs1Sign"
      [] OTHER -> "RsaPkcs1Sign"

\* doSign refuses a digest of another length by itself.
SendsSign(mech, len) == mech = "ECDSA" => len \in {32, 48, 64}

-----------------------------------------------------------------------------
(* The agent's preflight, for the certificate the module names.            *)

ecdsaMechanismForDigest(len) == len \in {32, 48, 64}

\* An absent keyUsage permits decryption.
certKeyUsagePermitsDecrypt(cert) ==
    cert.usage = {} \/ cert.usage \cap {"keyEncipherment", "dataEncipherment"} # {}

preflight(card, cert, mechanism, len) ==
    LET k == Octets(cert.keyBits) IN
    CASE mechanism = "RsaPkcs1Sign" ->
            cert.keyType = "RSA" /\ len # 0 /\ len + 11 <= k /\ card.preAuth # "Can"
      [] mechanism = "Sha256RsaPkcs1Sign" ->
            cert.keyType = "RSA" /\ len # 0 /\ card.preAuth = "Can"
      [] mechanism = "EcdsaSign" ->
            cert.keyType = "EC" /\ ecdsaMechanismForDigest(len)
      [] mechanism = "RsaPkcs1Decrypt" ->
            cert.keyType = "RSA" /\ certKeyUsagePermitsDecrypt(cert) /\ len = k
      [] mechanism = "EcdhDerive" ->
            cert.keyType = "EC" /\ cert.canDerive /\ len = 1 + 2 * k

\* deriveRaw passes on a secret of the curve's length only.
deriveRaw(cert) == Octets(cert.keyBits)

-----------------------------------------------------------------------------
(* Attributes, served and searched for.  A template is a function from the *)
(* attributes it names; Absent is the answer CKR_ATTRIBUTE_TYPE_INVALID.   *)

Absent == [rv |-> "ATTRIBUTE_TYPE_INVALID"]
Sensitive == [rv |-> "ATTRIBUTE_SENSITIVE"]
Given(v) == [rv |-> "OK", value |-> v]
OnlyFor(classes, obj, v) == IF obj.cls \in classes THEN Given(v) ELSE Absent
Keys == {"public", "private"}
Names == {"SUBJECT", "ISSUER", "SERIAL_NUMBER"}

\* The fields of the certificate's DER, as they are encoded.
certificateField(cert, type) == cert.names[type]

\* certDerOf: the DER the certificate's id stands for.
certDerOf(card, obj) == CHOOSE c \in ToSet(card.certs) : c.id = obj.certId

KeyTypeOf(obj) == IF obj.keyType = "EC" THEN "EC" ELSE "RSA"

\* The key as the agent reads it off the certificate.
publicKey(card, obj) == [key |-> certDerOf(card, obj).id, bits |-> certDerOf(card, obj).keyBits]

isPointOfKey(obj, key) == obj.keyBits \in CurveSizes /\ key.bits = obj.keyBits

serveAttribute(card, obj, type) ==
    LET ofType(kind, classes, v) == IF obj.keyType = kind THEN OnlyFor(classes, obj, v) ELSE Absent IN
    CASE type = "CLASS"                             -> Given(obj.cls)
      [] type = "ID"                                -> Given(obj.ckaId)
      [] type = "LABEL"                             -> Given(obj.label)
      [] type = "TOKEN"                             -> Given(TRUE)
      [] type = "PRIVATE"                           -> Given(obj.cls = "private")
      [] type = "KEY_TYPE"                          -> OnlyFor(Keys, obj, KeyTypeOf(obj))
      [] type = "CERTIFICATE_TYPE"                  -> OnlyFor({"certificate"}, obj, "X_509")
      [] type = "SIGN"                              -> OnlyFor({"private"}, obj, obj.sign)
      [] type = "DECRYPT"                           -> OnlyFor({"private"}, obj, obj.decrypt)
      [] type = "DERIVE"                            -> OnlyFor(Keys, obj, obj.derive)
      [] type \in {"UNWRAP", "EXTRACTABLE"}         -> OnlyFor({"private"}, obj, FALSE)
      [] type = "SENSITIVE"                         -> OnlyFor({"private"}, obj, TRUE)
      [] type = "ALWAYS_AUTHENTICATE"               -> OnlyFor({"private"}, obj, obj.alwaysAuthenticate)
      [] type = "EC_PARAMS"                         -> IF obj.keyBits \in CurveSizes THEN ofType("EC", Keys, obj.keyBits) ELSE Absent
      [] type = "EC_POINT"                          -> IF obj.cls = "public" /\ isPointOfKey(obj, publicKey(card, obj))
                                                       THEN ofType("EC", {"public"}, publicKey(card, obj)) ELSE Absent
      [] type \in {"MODULUS", "PUBLIC_EXPONENT"}    -> ofType("RSA", Keys, publicKey(card, obj))
      [] type = "MODULUS_BITS"                      -> IF obj.keyBits # 0 THEN ofType("RSA", {"public"}, obj.keyBits) ELSE Absent
      [] type = "VALUE"                             -> OnlyFor({"certificate"}, obj, obj.certId)
      [] type \in Names                             -> OnlyFor({"certificate"}, obj, certificateField(certDerOf(card, obj), type))
      [] OTHER                                      -> Absent

\* findMatches for one attribute of the template: what it does not know it
\* does not ask for.
selects(obj, type, value) ==
    CASE type = "CLASS"    -> value = obj.cls
      [] type = "ID"       -> value = obj.ckaId
      [] type = "TOKEN"    -> value = TRUE
      [] type = "KEY_TYPE" -> obj.cls \in Keys /\ value = KeyTypeOf(obj)
      [] type = "PRIVATE"  -> value = (obj.cls = "private")
      [] OTHER             -> TRUE

\* C_FindObjectsInit then compares a certificate's names as they are served.
C_FindObjectsInit(card, template) ==
    SelectSeq(Objects(card), LAMBDA obj :
        \A type \in DOMAIN template :
            /\ selects(obj, type, template[type])
            /\ type \in Names => serveAttribute(card, obj, type) = Given(template[type]))

-----------------------------------------------------------------------------
(* Derived keys.                                                           *)

\* peerPointFromPublicData: the bare point, or the point in a DER OCTET STRING,
\* told apart by its size; the header has two bytes, or three from 128 on.
HeaderOf(pointLen) == IF pointLen < 128 THEN 2 ELSE 3
peerPointFromPublicData(data, bits) ==
    LET pointLen == 1 + 2 * Octets(bits) IN
    IF bits # 0 /\ (data.size = pointLen \/ (data.size = HeaderOf(pointLen) + pointLen /\ data.der)) THEN pointLen ELSE 0

UsageAttributes == {"ENCRYPT", "DECRYPT", "WRAP", "UNWRAP", "SIGN", "VERIFY", "DERIVE"}

\* parseDerivedKeyTemplate, over values of the right size: what is wrong with
\* one attribute, and with the template as a whole.
AttributeError(type, value) ==
    CASE type = "CLASS" /\ value # "secret"                       -> "TEMPLATE_INCONSISTENT"
      [] type = "KEY_TYPE" /\ value \notin {"GENERIC", "AES"}     -> "TEMPLATE_INCONSISTENT"
      [] type = "VALUE_LEN" /\ value = 0                          -> "ATTRIBUTE_VALUE_INVALID"
      [] type = "TOKEN" /\ value                                  -> "TEMPLATE_INCONSISTENT"
      [] type = "PRIVATE" /\ ~value                               -> "TEMPLATE_INCONSISTENT"
      [] type \in {"LOCAL", "ALWAYS_SENSITIVE", "NEVER_EXTRACTABLE", "VALUE"} -> "ATTRIBUTE_READ_ONLY"
      [] type = "FUTURE"                                          -> "ATTRIBUTE_TYPE_INVALID"
      [] OTHER                                                    -> "OK"

parseDerivedKeyTemplate(t) ==
    LET errors == {AttributeError(type, t[type]) : type \in DOMAIN t} \ {"OK"}
        aes == "KEY_TYPE" \in DOMAIN t /\ t["KEY_TYPE"] = "AES"
    IN  IF errors # {} THEN errors
        ELSE IF aes /\ "VALUE_LEN" \notin DOMAIN t THEN {"TEMPLATE_INCOMPLETE"}
        ELSE IF aes /\ t["VALUE_LEN"] \notin {16, 24, 32} THEN {"ATTRIBUTE_VALUE_INVALID"}
        ELSE {}

\* derivedKeyValue: the secret's last bytes, or all of it.
derivedKeyValue(z, t) ==
    IF "VALUE_LEN" \notin DOMAIN t THEN z ELSE SubSeq(z, Len(z) - t["VALUE_LEN"] + 1, Len(z))

\* What a key has of its template, or by default.
Kept(key, type, default) == Given(IF type \in DOMAIN key.attributes THEN key.attributes[type] ELSE default)

Protection(key) == [sensitive |-> Kept(key, "SENSITIVE", TRUE).value, extractable |-> Kept(key, "EXTRACTABLE", FALSE).value]

serveDerivedKeyAttribute(key, type) ==
    LET p == Protection(key) IN
    CASE type = "CLASS"                              -> Given("secret")
      [] type = "KEY_TYPE"                           -> Kept(key, type, "GENERIC")
      [] type \in {"TOKEN", "LOCAL"}                 -> Given(FALSE)
      [] type = "PRIVATE"                            -> Given(TRUE)
      [] type \in {"SENSITIVE", "ALWAYS_SENSITIVE"}  -> Given(p.sensitive)
      [] type = "EXTRACTABLE"                        -> Given(p.extractable)
      [] type = "NEVER_EXTRACTABLE"                  -> Given(~p.extractable)
      [] type = "VALUE_LEN"                          -> Given(Len(key.value))
      [] type = "VALUE"                              -> IF p.sensitive \/ ~p.extractable THEN Sensitive ELSE Given(key.value)
      [] type \in {"LABEL", "ID"}                    -> Kept(key, type, "")
      [] type \in UsageAttributes                    -> Kept(key, type, FALSE)
      [] OTHER                                       -> Absent

derivedKeyMatches(key, template) ==
    \A type \in DOMAIN template :
        CASE type = "CLASS"           -> template[type] = "secret"
          [] type = "KEY_TYPE"        -> Kept(key, type, "GENERIC") = Given(template[type])
          [] type = "TOKEN"           -> ~template[type]
          [] type = "PRIVATE"         -> template[type]
          [] type \in {"ID", "LABEL"} -> Kept(key, type, "") = Given(template[type])
          [] OTHER                    -> TRUE
=============================================================================
