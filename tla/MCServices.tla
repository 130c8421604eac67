----------------------------- MODULE MCServices -----------------------------
(***************************************************************************)
(* The services beside the operations, which share no state: framing, the  *)
(* anchors, the configuration, the registry and the policies of attempts.  *)
(* A behaviour is one of one part, so that their states add up.            *)
(***************************************************************************)
EXTENDS AnchorCache, ConfigStore, ObjectRegistry, AttemptPolicies, FrameReassembler

VARIABLE part  \* the part that runs

MCIssuer == [A |-> "a", B |-> "b"]
MCLists ==
    [by : {<<"A">>, <<"B">>, <<"B", "A">>}, date : 0 .. 2, anchors : {{"a"}, {"b"}}, reason : {""}]
        \cup {[by |-> <<"A">>, date |-> 1, anchors |-> {}, reason |-> "NotAMasterList"]}

MCChanges ==
    ({"TsaUrls"} \X {<<>>, <<"tsa 1", "tsa 2">>, <<Bad>>}) \cup ({"TslSources"} \X {<<>>, <<"list 1">>})
        \cup {<<"DefaultReason", Padded>>, <<"DefaultLevel", "b-t">>, <<"DefaultLevel", Bad>>}
Blank == [k \in Range(ConfigKeys) |-> <<>>]
MCAdminFiles ==
    {NoFile, [Blank EXCEPT !["TsaUrls"] = <<Bad, "tsa 1">>, !["DefaultLevel"] = <<"b-t", Bad>>,
                           !["CscaAnchorState"] = <<{<<"later", 1>>}>>, !["TslCacheDir"] = <<"dir">>,
                           !["Pkcs11IdleTimeoutSecs"] = <<"60">>]}

\* Two slots of one unit, serials that end alike, a name without a serial,
\* and one that reads like the label of another.
Name(model, serial, tail, contactless) ==
    [model |-> model, serial |-> serial, tail |-> tail, contactless |-> contactless]
MCNames ==
    {Name(<<"X">>, "s1", "1", FALSE), Name(<<"X">>, "s1", "1", TRUE), Name(<<"X">>, "s2", "1", FALSE),
     Name(<<"X">>, "s3", "3", TRUE), Name(<<"X">>, NoSerial, "", FALSE), Name(<<"X", "1">>, NoSerial, "", FALSE)}

MCBudgets ==
    [maxRetries : {0, 4}, totalBudget : {0, 6, 20}, firstDelay : {0, 1, 3}, maxDelay : {0, 5, 8}, growth : 0 .. 3]

-----------------------------------------------------------------------------
Init ==
    /\ part \in {"anchors", "config", "registry", "limiter", "retries", "frames"}
    /\ AnchorInit /\ ConfigInit /\ RegistryInit /\ AttemptInit /\ FrameInit
    /\ anchors # NoDir => part = "anchors"
    /\ rx.mode = "blocking" => part = "frames"

Next ==
    /\ \/ part = "anchors" /\ AnchorNext
          /\ UNCHANGED <<configVars, registryVars, attemptVars, frameVars>>
       \/ part = "config" /\ ConfigNext
          /\ UNCHANGED <<anchorVars, registryVars, attemptVars, frameVars>>
       \/ part = "registry" /\ RegistryNext
          /\ UNCHANGED <<anchorVars, configVars, attemptVars, frameVars>>
       \/ part = "limiter" /\ LimiterNext
          /\ UNCHANGED <<anchorVars, configVars, registryVars, frameVars>>
       \/ part = "retries" /\ RetryNext
          /\ UNCHANGED <<anchorVars, configVars, registryVars, frameVars>>
       \/ part = "frames" /\ FrameNext
          /\ UNCHANGED <<anchorVars, configVars, registryVars, attemptVars>>
    /\ UNCHANGED part

Spec == Init /\ [][Next]_<<part, anchorVars, configVars, registryVars, attemptVars, frameVars>>
=============================================================================
