-------------------------------- MODULE Wire --------------------------------
(***************************************************************************)
(* The bridge protocol (packages/protocol/src): the rule of every field of *)
(* every message, and the values of one peer that come back in messages of *)
(* the other, beside the handshake.                                        *)
(***************************************************************************)
EXTENDS Handshake

-----------------------------------------------------------------------------
(* Rules.                                                                   *)

\* The rules within rules: arrayValue, exactObject, and the case of a discriminator,
\* which is an object's tag and no field.
RECURSIVE Accepts(_, _)
Accepts(r, v) ==
    CASE r.rule = "list" ->
            /\ v.sort = "list" /\ Len(v.items) \in r.min .. MaxItems
            /\ \A i \in DOMAIN v.items : Accepts(r.of, v.items[i])
            /\ r.distinct => \A i, j \in DOMAIN v.items : i # j => v.items[i] # v.items[j]
      [] r.rule = "object" ->
            Exact(r, v) /\ \A f \in DOMAIN v.fields : Accepts(RuleOf(r, f), v.fields[f])
      [] r.rule = "oneOf" ->
            v.sort = "object" /\ v.tag \in DOMAIN r.cases /\ Accepts(r.cases[v.tag], v)
      [] OTHER -> Plain(r, v)

\* The rule at a path of another: a field, or the case of a discriminator.
RECURSIVE At(_, _)
At(r, path) ==
    IF path = <<>> THEN r
    ELSE At(IF r.rule = "oneOf" THEN r.cases[Head(path)] ELSE RuleOf(r, Head(path)), Tail(path))

Long == Text(0, MaxStringLength, "any")
Identifier == Text(1, 128, "identifier")
Version == Text(5, 128, "version")
Code == Text(1, 64, "code")
Token == Text(16, 4096, "any")
Origin == Text(1, 2048, "origin")
Uri == Text(1, 8192, "uri")
Base64 == Text(0, MaxStringLength, "base64")
Mime == Text(1, 256, "any")
Description == Text(0, MaxDescription, "any")
Capabilities == List(Text(1, 64, "capability"), 0, TRUE)

AppIdentity == Object([id |-> Identifier, name |-> Text(1, 256, "any"), version |-> Version], None)
RuntimeIdentity ==
    Object([id |-> Identifier, instanceId |-> Identifier],
           [userAgent |-> Text(0, 4096, "any"), platform |-> Text(0, 256, "any"),
            language |-> Text(0, 128, "any")])
SessionInfo ==
    Object([id |-> Identifier, resumeToken |-> Token, expiresAt |-> Whole(0, Beyond)], None)
Auth == OneOf([approval |-> Object(None, None),
               pairing |-> Object([token |-> Token], None),
               resume |-> Object([sessionId |-> Identifier, token |-> Token], None)])

Registration ==
    LET Argument == Object([name |-> Identifier], [description |-> Description, required |-> Flag])
    IN  OneOf([
          tool |-> Object([id |-> Identifier, name |-> Identifier, inputSchema |-> JsonObject],
                          [description |-> Description, outputSchema |-> JsonObject,
                           annotations |-> JsonObject]),
          resource |-> Object([id |-> Identifier, name |-> Identifier, uri |-> Uri],
                              [description |-> Description, mimeType |-> Mime,
                               annotations |-> JsonObject]),
          prompt |-> Object([id |-> Identifier, name |-> Identifier],
                            [description |-> Description, arguments |-> List(Argument, 0, TRUE),
                             annotations |-> JsonObject])])

Operation == OneOf([call |-> Object([arguments |-> JsonObject], None),
                    read |-> Object([uri |-> Uri], None),
                    get |-> Object(None, [arguments |-> Texts])])

Contents == OneOf([text |-> Object([uri |-> Uri, text |-> Long], [mimeType |-> Mime]),
                   blob |-> Object([uri |-> Uri, blob |-> Base64], [mimeType |-> Mime])])

Media == Object([data |-> Base64, mimeType |-> Mime], None)
Content == OneOf([text |-> Object([text |-> Long], None), image |-> Media, audio |-> Media,
                  link |-> Object([uri |-> Uri, name |-> Mime],
                                  [description |-> Description, mimeType |-> Mime]),
                  resource |-> Object([resource |-> Contents], None)])

Result == OneOf([
    tool |-> Object([content |-> List(Content, 0, FALSE)],
                    [structuredContent |-> Json, isError |-> Flag]),
    resource |-> Object([contents |-> List(Contents, 0, FALSE)], None),
    prompt |-> Object([messages |-> List(OneOf([user |-> Object([content |-> Content], None),
                                                assistant |-> Object([content |-> Content], None)]),
                                         0, FALSE)],
                      [description |-> Description])])

\* validatePayload, by the type of the message.
InSession == [sessionId |-> Identifier]
\* Slip: an id is taken for a code.
Acknowledges_Short == Object([sessionId |-> Identifier, registrationId |-> Text(1, 64, "identifier")],
                             None)
Acknowledges == Object([sessionId |-> Identifier, registrationId |-> Identifier], None)
Beats == Object([nonce |-> Identifier], InSession)
Payload == OneOf([
    connect |-> Object([supportedVersions |-> List(Version, 1, TRUE), capabilities |-> Capabilities,
                        auth |-> Auth, app |-> AppIdentity, origin |-> Origin,
                        runtime |-> RuntimeIdentity], None),
    approval_required |-> Object([requestId |-> Identifier, origin |-> Origin,
                                  expiresAt |-> Whole(1, MaxSafeInteger)], None),
    welcome |-> Object([selectedVersion |-> Version, capabilities |-> Capabilities,
                        session |-> SessionInfo, limits |-> Limits,
                        heartbeatIntervalMs |-> Whole(1000, MaxTimeout)], None),
    register |-> Object([sessionId |-> Identifier, registration |-> Registration], None),
    registered |-> Acknowledges, unregister |-> Acknowledges, unregistered |-> Acknowledges,
    invoke |-> Object([sessionId |-> Identifier, invocationId |-> Identifier,
                       registrationId |-> Identifier, operation |-> Operation,
                       timeoutMs |-> Whole(1, MaxTimeout)], None),
    result |-> Object([sessionId |-> Identifier, invocationId |-> Identifier, output |-> Result],
                      [durationMs |-> Number(0, MaxTimeout)]),
    error |-> Object([code |-> Code, message |-> Text(1, MaxDescription, "any"), retryable |-> Flag],
                     [sessionId |-> Identifier, invocationId |-> Identifier, details |-> Json]),
    cancel |-> Object([sessionId |-> Identifier, invocationId |-> Identifier],
                      [reason |-> Text(0, 1024, "any")]),
    ping |-> Beats, pong |-> Beats,
    disconnect |-> Object([code |-> Code, canResume |-> Flag],
                          [sessionId |-> Identifier, reason |-> Description])])

\* What the envelope itself is checked for.
Envelope == Object([version |-> Version, id |-> Identifier,
                    timestamp |-> Whole(0, Beyond)], [replyTo |-> Identifier])

-----------------------------------------------------------------------------
(* Values of one peer in messages of the other.                             *)

\* What the second rule is applied to has passed the first: an id echoed, a
\* session's credential presented again, a negotiated version.
Field(path) == At(Payload, path)
Flows ==
    {<<Envelope.required["id"], Envelope.optional["replyTo"]>>,
     <<Field(<<"ping", "nonce">>), Field(<<"pong", "nonce">>)>>,
     <<Field(<<"unregister", "registrationId">>), Field(<<"unregistered", "registrationId">>)>>,
     <<Field(<<"welcome", "session", "id">>), Field(<<"connect", "auth", "resume", "sessionId">>)>>,
     <<Field(<<"welcome", "session", "id">>), Field(<<"register", "sessionId">>)>>,
     <<Field(<<"welcome", "session", "id">>), Field(<<"disconnect", "sessionId">>)>>,
     <<Field(<<"welcome", "session", "resumeToken">>), Field(<<"connect", "auth", "resume", "token">>)>>,
     <<Field(<<"connect", "origin">>), Field(<<"approval_required", "origin">>)>>,
     <<Field(<<"invoke", "invocationId">>), Field(<<"result", "invocationId">>)>>,
     <<Field(<<"invoke", "invocationId">>), Field(<<"error", "invocationId">>)>>,
     <<Field(<<"connect", "supportedVersions">>).of, Field(<<"welcome", "selectedVersion">>)>>,
     <<Field(<<"connect", "supportedVersions">>).of, Envelope.required["version"]>>}
    \cup {<<Field(<<"register", "registration", kind, "id">>), to>> :
            kind \in {"tool", "resource", "prompt"},
            to \in {Field(<<"registered", "registrationId">>), Field(<<"invoke", "registrationId">>)}}
    \cup {<<Field(<<"register", "registration", "resource", "uri">>),
            Field(<<"invoke", "operation", "read", "uri">>)>>,
          \* safeText and redactText, and what stands for an empty message
          <<Text(1, 512, "any"), Field(<<"error", "message">>)>>,
          <<Text(1, 2000, "any"), Field(<<"error", "message">>)>>}

\* The texts about the limits of a rule.
Borders(r) ==
    {[sort |-> "text", length |-> n, forms |-> fs] :
        n \in {r.min, r.min + 1, r.max - 1, r.max, r.max + 1}, fs \in {{}, {r.form}}}

-----------------------------------------------------------------------------
(* A value and where it goes.                                               *)

VARIABLES
    flow,      \* a pair of Flows and
    sample     \* a value at the borders of its rules

wireVars == <<handshakeVars, flow, sample>>

\* Either the meeting or the value varies.
AnyMeeting == CHOOSE s \in Meetings : TRUE
AnyFlow == CHOOSE f \in Flows : TRUE
AnySample == CHOOSE x \in Borders(AnyFlow[1]) : TRUE
WireInit ==
    \/ HandshakeInit /\ flow = AnyFlow /\ sample = AnySample
    \/ Begins(AnyMeeting) /\ flow \in Flows /\ sample \in Borders(flow[1]) \cup Borders(flow[2])

WireNext == HandshakeNext /\ UNCHANGED <<flow, sample>>

-----------------------------------------------------------------------------
(* Properties.                                                              *)

\* A value that one peer has let through is accepted in every message that carries it on.
ValuesCarry == Accepts(flow[1], sample) => Accepts(flow[2], sample)
=============================================================================
