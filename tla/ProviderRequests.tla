-------------------------- MODULE ProviderRequests --------------------------
(***************************************************************************)
(* One call of a model provider as the adapters make it: request() with    *)
(* its timer, its retries and the caller's signal, on top of a transport   *)
(* that is either direct or the Cloudflare gateway, which may answer a     *)
(* transient failure by sending the same request to the provider directly. *)
(* Every attempt costs money and may generate text, so it matters how      *)
(* often the request is sent, on which route, and what ends the wait.      *)
(***************************************************************************)
EXTENDS Naturals

CONSTANT Setups \* [gateway, fallback, stored, stream : BOOLEAN, retries : Nat]

VARIABLES
    setup,    \* the transport and the options of this call
    at,       \* where the call is
    route,    \* "gateway" or "direct"
    attempt,  \* rounds of the loop of request()
    sent,     \* requests sent by route in this round
    total,    \* requests sent
    linked,   \* whether the caller's signal reaches the request
    caller,   \* "waiting" or "cancelled"
    provider, \* what the provider does: "works" or, after it began to answer, "silent"
    cause     \* what ended the call

vars == <<setup, at, route, attempt, sent, total, linked, caller, provider, cause>>

Init ==
    /\ setup \in Setups
    /\ at = "validate" /\ route = "none" /\ attempt = 0 /\ sent = [gateway |-> 0, direct |-> 0]
    /\ total = 0 /\ linked = FALSE /\ caller = "waiting" /\ provider = "works" /\ cause = "none"

Ends(why) == at' = "ended" /\ cause' = why
Keeps == UNCHANGED <<setup, caller>>

\* Defective variant: the key alias is not looked at.
fallbackAllowedStored == route = "gateway" /\ setup.fallback

\* fallbackAllowed with the explicit setting; a key that Cloudflare keeps cannot
\* be used on the direct route.
fallbackAllowed == route = "gateway" /\ setup.fallback /\ ~setup.stored

-----------------------------------------------------------------------------

\* The caller gives up.  Its signal reaches the request once it is linked: a
\* signal that was aborted before is not noticed by addEventListener.
abort ==
    /\ caller = "waiting" /\ at # "ended" /\ caller' = "cancelled"
    /\ IF linked \/ at = "wait" THEN Ends("cancelled") ELSE UNCHANGED <<at, cause>>
    /\ UNCHANGED <<setup, route, attempt, sent, total, linked, provider>>

Send(by) ==
    /\ at' = "sent" /\ route' = by /\ total' = total + 1
    /\ sent' = [sent EXCEPT ![by] = @ + 1]

\* validateProviderBaseUrl, or the pause before a retry, is over: linkedSignal
\* arms the timer and the request goes out.
fetches ==
    /\ at \in {"validate", "wait"}
    /\ attempt' = attempt + 1 /\ linked' = (caller = "waiting")
    /\ at' = "sent" /\ route' = (IF setup.gateway THEN "gateway" ELSE "direct") /\ total' = total + 1
    /\ sent' = [gateway |-> IF setup.gateway THEN 1 ELSE 0, direct |-> IF setup.gateway THEN 0 ELSE 1]
    /\ UNCHANGED <<provider, cause>> /\ Keeps

attemptsLeft == attempt <= setup.retries

\* The error is returned to the caller, or the loop goes on after a pause, which
\* notices a signal that was aborted before.
Fails(retryable) ==
    IF retryable /\ attemptsLeft
      THEN IF caller = "cancelled" THEN Ends("cancelled") ELSE at' = "wait" /\ UNCHANGED cause
      ELSE Ends("failed")

\* A status that says "later" (408, 429, 5xx): the gateway's is answered by one
\* direct request if that is allowed, any other by a retry.
transientStatus ==
    /\ at = "sent"
    /\ \/ fallbackAllowed /\ Send("direct") /\ UNCHANGED <<attempt, linked, cause>>
       \/ /\ ~fallbackAllowed /\ Fails(TRUE) /\ linked' = FALSE
          /\ UNCHANGED <<route, attempt, sent, total>>
    /\ UNCHANGED provider /\ Keeps

\* The key, the model or the input is refused.
refused ==
    /\ at = "sent" /\ Ends("failed")
    /\ UNCHANGED <<route, attempt, sent, total, linked, provider>> /\ Keeps

\* No connection.  The gateway's fetch turns that into a ProviderError, which
\* the loop of request() does not retry; a direct one is retried.
networkError ==
    /\ at = "sent"
    /\ \/ fallbackAllowed /\ Send("direct") /\ UNCHANGED <<attempt, linked, cause>>
       \/ /\ ~fallbackAllowed /\ Fails(~(setup.gateway /\ route = "gateway")) /\ linked' = FALSE
          /\ UNCHANGED <<route, attempt, sent, total>>
    /\ UNCHANGED provider /\ Keeps

\* The timer of request() fires before the headers: a direct request is retried,
\* one through the gateway, whose error does not say so, fails.
REQUEST_TIMEOUT ==
    /\ at = "sent" /\ Fails(~(setup.gateway /\ route = "gateway")) /\ linked' = FALSE
    /\ UNCHANGED <<route, attempt, sent, total, provider>> /\ Keeps

\* The headers say that the provider began to answer.  A stream's timer is
\* cleared now; the rest of a stream is guarded by the idle timer.
answers ==
    /\ at = "sent" /\ at' = "body"
    /\ UNCHANGED <<route, attempt, sent, total, linked, provider, cause>> /\ Keeps

goesSilent ==
    /\ at = "body" /\ provider = "works" /\ provider' = "silent"
    /\ UNCHANGED <<at, route, attempt, sent, total, linked, cause>> /\ Keeps

completes ==
    /\ at = "body" /\ provider = "works" /\ Ends("completed")
    /\ UNCHANGED <<route, attempt, sent, total, linked, provider>> /\ Keeps

breaks ==
    /\ at = "body" /\ Ends("broken")
    /\ UNCHANGED <<route, attempt, sent, total, linked, provider>> /\ Keeps

\* Nothing arrives: the idle timer of a stream, or the timer that still covers
\* the body of a plain answer, ends the call.
idleTimeout ==
    /\ at = "body" /\ (provider = "silent" \/ ~setup.stream)
    /\ Ends(IF provider = "silent" THEN "silence" ELSE "timeout")
    /\ UNCHANGED <<route, attempt, sent, total, linked, provider>> /\ Keeps

\* The gateway's fetch puts a limit of its own on the whole exchange, the body
\* included; so does its direct fallback.
gatewayTimeout ==
    /\ at = "body" /\ setup.gateway /\ Ends("cut")
    /\ UNCHANGED <<route, attempt, sent, total, linked, provider>> /\ Keeps

Next ==
    \/ abort \/ fetches \/ transientStatus \/ refused \/ networkError \/ REQUEST_TIMEOUT
    \/ answers \/ goesSilent \/ completes \/ breaks \/ idleTimeout \/ gatewayTimeout

Spec == Init /\ [][Next]_vars

-----------------------------------------------------------------------------

\* The request is sent at most once per round on a route, in no more rounds than
\* were asked for, and a key that stays with Cloudflare never goes direct.
SentWithinBounds ==
    /\ attempt <= setup.retries + 1
    /\ sent.gateway <= 1 /\ sent.direct <= 1
    /\ sent.direct > 0 => ~setup.gateway \/ (setup.fallback /\ ~setup.stored)
    /\ total <= (setup.retries + 1) * (IF setup.gateway /\ setup.fallback THEN 2 ELSE 1)

\* "Long generations remain cancellable by the caller and use an idle timeout":
\* a stream that the provider keeps sending is ended by nobody but the caller.
StreamIsNotCut == setup.stream => cause # "cut"

=============================================================================
