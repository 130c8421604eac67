---------------------------- MODULE Pkcs11Token ----------------------------
(***************************************************************************)
(* The cards a slot can hold, one after another, and the secret keys an    *)
(* application derives with them: the calls of Pkcs11Objects as the module *)
(* and the agent answer them for the card in the slot.                     *)
(***************************************************************************)
EXTENDS Pkcs11Objects

VARIABLE token      \* the card in the slot, with the last key derived

NoCard == [card |-> [preAuth |-> "None", certs |-> <<>>], derived |-> <<>>]

\* The certificates that can stand at a place of the card.
Certs(i, sizes, usages) ==
    {[id |-> <<"cert", i>>, keyId |-> <<"key", i>>, keyType |-> s[1], keyBits |-> s[2], signingCapable |-> signs_,
      canDerive |-> derives, usage |-> u, alwaysAuthenticate |-> i = 2, cn |-> IF i = 2 THEN <<>> ELSE <<"holder">>,
      names |-> [SUBJECT |-> i, ISSUER |-> 0, SERIAL_NUMBER |-> i]] :
        s \in sizes, signs_ \in BOOLEAN, derives \in BOOLEAN, u \in usages}

Sizes == ({"RSA"} \X {0, 1024, 2048}) \cup ({"EC"} \X {0, 239, 256, 384, 521}) \cup {<<"OTHER", 0>>}
First == Certs(1, Sizes, {{}, {"keyEncipherment"}, {"digitalSignature"}})
Second == Certs(2, {<<"RSA", 2048>>, <<"EC", 256>>, <<"EC", 521>>}, {{"digitalSignature", "dataEncipherment"}, {"digitalSignature"}})
Cards == [preAuth : PreReadAuths, certs : {<<c>> : c \in First} \cup {<<c, d>> : c \in First, d \in Second}]

Attributes ==
    ({"CLASS"} \X {"secret", "private"}) \cup ({"KEY_TYPE"} \X {"GENERIC", "AES", "DES"})
      \cup ({"VALUE_LEN"} \X {0, 1, 16, 20, 32, 33, 66}) \cup ({"LABEL", "ID"} \X {"", "mine"})
      \cup ({"TOKEN", "PRIVATE", "SENSITIVE", "EXTRACTABLE", "DECRYPT"} \X BOOLEAN)
      \cup {<<"LOCAL", TRUE>>, <<"VALUE", "z">>, <<"FUTURE", "z">>}

\* Templates of up to three attributes, each given once.
AsTemplate(S) == [type \in {a[1] : a \in S} |-> (CHOOSE a \in S : a[1] = type)[2]]
Templates == {AsTemplate({a, b, c}) : a, b, c \in Attributes}

\* The secret of a key agreement, a byte per place.
Secret(cert) == [i \in 1..deriveRaw(cert) |-> i]

TokenInit == token = NoCard

InsertCard(c) == token = NoCard /\ token' = [card |-> c, derived |-> <<>>]
RemoveCard == token # NoCard /\ token' = NoCard

\* C_DeriveKey once its checks have passed, with the agent's answer.
DeriveKey(obj, t) ==
    /\ token.derived = <<>>
    /\ C_DeriveKey(token.card, "ECDH1_DERIVE", obj, IF "VALUE_LEN" \in DOMAIN t THEN t["VALUE_LEN"] ELSE 0) = "OK"
    /\ parseDerivedKeyTemplate(t) = {}
    /\ token' = [token EXCEPT !.derived = <<[attributes |-> t, value |-> derivedKeyValue(Secret(certDerOf(token.card, obj)), t)]>>]

\* Keys are derived with the card whose only certificate derives.
PlainCard(bits) ==
    [preAuth |-> "None", certs |-> <<CHOOSE c \in First : c.keyType = "EC" /\ c.keyBits = bits /\ c.canDerive>>]

TokenNext ==
    \/ \E c \in Cards : InsertCard(c)
    \/ RemoveCard
    \/ /\ token.card \in {PlainCard(256), PlainCard(521)}
       /\ \E obj \in ToSet(Objects(token.card)), t \in Templates : DeriveKey(obj, t)

-----------------------------------------------------------------------------
Private == {obj \in ToSet(Objects(token.card)) : obj.cls = "private"}
CertOf(obj) == certDerOf(token.card, obj)

\* A use the module admits is never refused by the agent's preflight for what
\* the key is: whatever the card, a mechanism that C_SignInit, C_DecryptInit
\* or C_DeriveKey lets through with input of the right length passes
\* preflight, so no application is told that a key signs, decrypts or derives
\* and then refused.
AdmittedIsAccepted ==
    \A obj \in Private :
        LET k == Octets(obj.keyBits) IN
        /\ \A mech \in Mechanisms(token.card) : \A len \in {1, 20, 32, 48, 51, 64} :
             C_SignInit(token.card, mech, obj) = "OK" /\ SendsSign(mech, len) =>
                 preflight(token.card, CertOf(obj), agentSignMechanism(mech), len)
        /\ C_DecryptInit(token.card, "RSA_PKCS", obj) = "OK" =>
               preflight(token.card, CertOf(obj), "RsaPkcs1Decrypt", k)
        /\ \A bits \in CurveSizes, der \in BOOLEAN :
             LET pointLen == 1 + 2 * Octets(bits)
                 data == [size |-> IF der THEN HeaderOf(pointLen) + pointLen ELSE pointLen, der |-> der]
                 point == peerPointFromPublicData(data, obj.keyBits)
             IN  /\ obj.keyType = "EC" => (point # 0) = (obj.keyBits = bits)
                 /\ C_DeriveKey(token.card, "ECDH1_DERIVE", obj, 0) = "OK" /\ point # 0 =>
                      preflight(token.card, CertOf(obj), "EcdhDerive", point)

\* What the token says of itself is true of some key: a mechanism is listed
\* exactly when a key can be used with it, and a key that is said to sign,
\* decrypt or derive can, with a mechanism of the list; so a loader that picks
\* a key by its attributes and a mechanism by the list never finds the two at
\* odds (ObjectModel::build against C_SignInit, C_DecryptInit, C_DeriveKey).
CapabilitiesAreUsable ==
    LET usable(obj, mech) ==
            \/ C_SignInit(token.card, mech, obj) = "OK"
            \/ C_DecryptInit(token.card, mech, obj) = "OK"
            \/ C_DeriveKey(token.card, mech, obj, 0) = "OK"
        says(obj, type) == serveAttribute(token.card, obj, type) = Given(TRUE)
        some(Call(_, _, _), obj) == \E mech \in Mechanisms(token.card) : Call(token.card, mech, obj) = "OK"
    IN  /\ \A mech \in Mechanisms(token.card) : \E obj \in Private : usable(obj, mech)
        /\ \A obj \in Private :
             /\ says(obj, "SIGN") <=> some(C_SignInit, obj)
             /\ says(obj, "DECRYPT") <=> some(C_DecryptInit, obj)
             /\ says(obj, "DERIVE") <=> some(LAMBDA c, m, o : C_DeriveKey(c, m, o, 0), obj)

SearchValues ==
    [CLASS |-> {"certificate", "public", "private"}, ID |-> {<<"key", 1>>, <<"key", 2>>}, TOKEN |-> BOOLEAN,
     KEY_TYPE |-> {"RSA", "EC"}, PRIVATE |-> BOOLEAN, SUBJECT |-> {1, 2}, ISSUER |-> {0}, SERIAL_NUMBER |-> {1, 2}]
Searches ==
    UNION {{(a :> v) @@ (b :> w) : v \in SearchValues[a], w \in SearchValues[b]} : a, b \in DOMAIN SearchValues}

\* A search finds the objects whose attributes, as they are served, equal the
\* template, all of them and no other: the two are computed in different
\* places (findMatches and C_FindObjectsInit, serveAttribute), and the loader
\* pairs a certificate with its key by comparing one with the other.
FindsExactly ==
    \A template \in Searches :
        C_FindObjectsInit(token.card, template) =
            SelectSeq(Objects(token.card), LAMBDA obj :
                \A type \in DOMAIN template : serveAttribute(token.card, obj, type) = Given(template[type]))

\* A derived key has what its template asked for, down to the length of its
\* value, a search by that template finds it, and its value is served only
\* when the template said both that it is not sensitive and that it may leave.
DerivedKeyIsAsAsked ==
    \A i \in DOMAIN token.derived :
        LET key == token.derived[i]
            t == key.attributes
        IN  /\ \A type \in DOMAIN t : serveDerivedKeyAttribute(key, type) = Given(t[type])
            /\ derivedKeyMatches(key, t)
            /\ serveDerivedKeyAttribute(key, "VALUE").rv = "OK" <=>
                 /\ "SENSITIVE" \in DOMAIN t /\ ~t["SENSITIVE"]
                 /\ "EXTRACTABLE" \in DOMAIN t /\ t["EXTRACTABLE"]
            /\ key.value # <<>> /\ Last(key.value) = Len(Secret(token.card.certs[1]))

\* The token is as it presents itself: what is advertised is admitted, what is
\* admitted the agent accepts, and objects, derived ones included, are found by
\* what they are served as.
TokenIsAsAdvertised ==
    CapabilitiesAreUsable /\ AdmittedIsAccepted /\ FindsExactly /\ DerivedKeyIsAsAsked

=============================================================================
