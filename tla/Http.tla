--------------------------------- MODULE Http --------------------------------
(***************************************************************************)
(* What stands before the MCP service on the HTTP transport: the origin      *)
(* guard, outermost, then the one provider of the mode, unless the operator  *)
(* opened the transport.  A header is absent (an empty set), unreadable, or   *)
(* has a value; a bearer token is what it was signed with, how, and in how    *)
(* many seconds it expires (a negative number of them when it has), if ever.  *)
(***************************************************************************)
EXTENDS Integers

Unreadable == <<"not ascii">>
BearerToken(secret, alg, expiry) == [secret |-> secret, alg |-> alg, expiry |-> expiry]
Authorization(scheme, token) == [scheme |-> scheme, token |-> token]
Request(origin, key, authorization) ==
    [origin |-> origin, key |-> key, authorization |-> authorization]

\* No operator's key is unreadable: what is not ASCII equals none.
ApiKeyOk(request, keys) == \E k \in request.key : k # Unreadable /\ k \in keys

\* The seconds the JWT library lets pass after an expiry: its default, kept.
Leeway == 60

\* The scheme to the letter, HS256 whatever the token says, and no expiry that
\* is past by more than the leeway; a token need not have one.
JwtOk(request, secret) ==
    \E a \in request.authorization :
        /\ a.scheme = "Bearer"
        /\ a.token.alg = "HS256"
        /\ a.token.secret \in secret
        /\ \A e \in a.token.expiry : -Leeway <= e

\* No browser, or a page of a listed origin.
OriginOk(request, allowed) == \A o \in request.origin : o # Unreadable /\ o \in allowed

\* No secret is the empty one here: LoadConfig has refused it before.
GuardState(config) == [
    apiKeys |-> config.apiKeys, allowedOrigins |-> config.allowedOrigins,
    jwtSecret |-> IF config.jwtSecret = {} THEN {<<"">>} ELSE config.jwtSecret]
GuardOrigin(state, request, inner) ==
    IF OriginOk(request, state.allowedOrigins) THEN inner ELSE 403
RequireApiKey(state, request, inner) ==
    IF ApiKeyOk(request, state.apiKeys) THEN inner ELSE 401
RequireJwt(state, request, inner) ==
    IF JwtOk(request, state.jwtSecret) THEN inner ELSE 401

\* The status a request ends with; 200: the MCP service has it.
BuildRouter(config, request) ==
    LET state == GuardState(config) IN
    GuardOrigin(state, request,
        IF config.allowInsecure THEN 200
        ELSE CASE config.authMode = "apikey" -> RequireApiKey(state, request, 200)
               [] config.authMode = "jwt" -> RequireJwt(state, request, 200))
=============================================================================
