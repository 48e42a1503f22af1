------------------------------- MODULE Delivery -------------------------------
(***************************************************************************)
(* One message through the resilient delivery provider: executeWithPolicy   *)
(* hands it to the transport, waits for the answer no longer than the       *)
(* time-out, and retries what mapTransportFailure calls retryable.  The     *)
(* timer does not cancel an attempt: it stays in flight, and the provider   *)
(* may still take the message while the next one is under way, or after     *)
(* the call has returned.                                                   *)
(***************************************************************************)
EXTENDS Integers, Sequences, FiniteSetsExt

CONSTANTS
    Policies,       \* the policies a deployment may configure
    HttpStatuses,   \* the statuses an API refuses a message with
    SmtpReplies,    \* the codes and reply codes an SMTP server refuses one with
    None

\* A PolicyConfig, the channel and whether the telemetry callback may throw.
\* Nothing validates the numbers.
Policy == [channel: {"http", "smtp"}, maxRetries: Int, timeoutMs: Int,
           backoffMs: Seq(Int), sinkThrows: BOOLEAN]

ASSUME PoliciesAssumption == \A p \in Policies : p \in Policy
ASSUME RefusalsAssumption ==
    /\ HttpStatuses \subseteq 300 .. 599
    /\ \A x \in SmtpReplies : x.code \in STRING /\ x.response \in 400 .. 599

VARIABLES
    policy,      \* the one this call runs under
    pc,          \* the await the call has reached
    attempt,     \* attempts begun
    flight,      \* what has become of each attempt's message at the provider
    failure,     \* what each attempt has failed with
    delay,       \* the last backoff
    events,      \* the telemetry
    result       \* what the call has returned

Telemetry == <<events, result>>
vars == <<policy, pc, attempt, flight, failure, delay, Telemetry>>

-----------------------------------------------------------------------------
(* Failures.  A definition named <D>If... is a plausible mistake in D: no      *)
(* action uses it, it is there to see which property would notice.           *)

\* The fields mapTransportFailure looks at; 0 and "" stand for an absent field.
Failure == [type |-> "", status |-> 0, code |-> "", response |-> 0]
HttpFailure(status) == [type |-> "", status |-> status, code |-> "", response |-> 0]
SmtpFailure(code, response) ==
    [type |-> "", status |-> 0, code |-> code, response |-> response]
TimeoutFailure(type) == [type |-> type, status |-> 0, code |-> "", response |-> 0]

TimerFired == TimeoutFailure("timeout")
Uncertain == TimeoutFailure("timeout-after-dispatch")
Refused(channel) ==
    IF channel = "http" THEN {HttpFailure(s) : s \in HttpStatuses}
                        ELSE {SmtpFailure(x.code, x.response) : x \in SmtpReplies}

\* The answer never came: fetch rejects with a TypeError, which has none of the
\* fields, nodemailer with a code of its own.
Lost(channel) ==
    IF channel = "http" THEN {Failure}
    ELSE {SmtpFailure("ECONNECTION", 0), SmtpFailure("ETIMEDOUT", 0)}

\* What a telemetry callback may throw.
SinkErrors == {Failure, SmtpFailure("ETIMEDOUT", 0)}

NetworkErrorCodes ==
    {"ETIMEDOUT", "ECONNECTION", "ECONNRESET", "ECONNREFUSED", "EPIPE",
     "EAI_AGAIN", "ENETUNREACH", "EHOSTUNREACH", "ENOTFOUND"}

DeliveryError(code, retryable) == [code |-> code, retryable |-> retryable]

MapHttpFailure(e) ==
    CASE e.status = 429 -> DeliveryError("DELIVERY_RATE_LIMITED", TRUE)
      [] e.status \in {401, 403} -> DeliveryError("DELIVERY_MISCONFIGURED", FALSE)
      [] e.status \in {400, 404, 422} -> DeliveryError("DELIVERY_UNAVAILABLE", FALSE)
      [] OTHER -> DeliveryError("DELIVERY_UNAVAILABLE", TRUE)

MapSmtpFailure(e) ==
    CASE e.code = "EAUTH" -> DeliveryError("DELIVERY_MISCONFIGURED", FALSE)
      [] e.code \in NetworkErrorCodes -> DeliveryError("DELIVERY_UNAVAILABLE", TRUE)
      [] OTHER -> IF e.response \in 400 .. 499 THEN DeliveryError("DELIVERY_UNAVAILABLE", TRUE)
                                               ELSE DeliveryError("DELIVERY_UNAVAILABLE", FALSE)

IsUncertain(e) == e.type = "timeout-after-dispatch" \/ e.code = "TIMEOUT_AFTER_DISPATCH"
IsTimeoutIfUncertain(e) == e.type \in {"timeout", "timeout-after-dispatch"} \/ e.code = "ETIMEDOUT"
IsTimeout(e) == e.type = "timeout" \/ e.code = "ETIMEDOUT"
IsHttp(e) == e.status # 0

MapTransportFailureIfTimeoutFirst(e) ==
    CASE IsTimeoutIfUncertain(e) -> DeliveryError("DELIVERY_UNAVAILABLE", TRUE)
      [] ~IsTimeoutIfUncertain(e) /\ IsHttp(e) -> MapHttpFailure(e)
      [] OTHER -> MapSmtpFailure(e)
MapTransportFailureIfAlwaysHttp(e) ==
    CASE IsUncertain(e) -> DeliveryError("DELIVERY_UNAVAILABLE", FALSE)
      [] OTHER -> MapHttpFailure(e)
MapTransportFailure(e) ==
    CASE IsUncertain(e) -> DeliveryError("DELIVERY_UNAVAILABLE", FALSE)
      [] ~IsUncertain(e) /\ IsTimeout(e) -> DeliveryError("DELIVERY_UNAVAILABLE", TRUE)
      [] ~IsUncertain(e) /\ ~IsTimeout(e) /\ IsHttp(e) -> MapHttpFailure(e)
      [] OTHER -> MapSmtpFailure(e)

-----------------------------------------------------------------------------
(* The call *)

Waiting == pc = "waiting"

EventIfIndex(phase, outcome) == [phase |-> phase, outcome |-> outcome, attempt |-> attempt - 1]
Event(phase, outcome) == [phase |-> phase, outcome |-> outcome, attempt |-> attempt]

\* emitTelemetryEvent: a callback that throws does so after it was called.
Emit(phase, outcome) == events' = Append(events, Event(phase, outcome))

Return(r) == pc' = "returned" /\ result' = r

\* The next attempt of the loop.
Dispatch ==
    /\ pc = "dispatching" /\ attempt <= policy.maxRetries
    /\ attempt' = attempt + 1
    /\ flight' = [flight EXCEPT ![attempt + 1] = "dispatched"]
    /\ pc' = "waiting"
    /\ UNCHANGED <<policy, failure, delay, Telemetry>>

\* A negative number of retries: the loop is never entered.
NoAttempt ==
    /\ pc = "dispatching" /\ attempt > policy.maxRetries
    /\ Return("failed")
    /\ UNCHANGED <<policy, attempt, flight, failure, delay, events>>

\* The delay after an attempt: the sequence's last one when it is used up.
Backoff == IF policy.backoffMs = <<>> THEN <<0>> ELSE policy.backoffMs
Delay(n) == Backoff[Min({n, Len(Backoff)})]

\* The catch block: the attempt under way has failed with e, after telemetry was
\* told what is in said.  Telemetry is sent outside any try here, so a callback
\* that throws makes the call reject.
Catch(e, said) ==
    LET mapped == MapTransportFailure(e)
        again == mapped.retryable /\ attempt <= policy.maxRetries
    IN
    /\ failure' = [failure EXCEPT ![attempt] = e]
    /\ events' = events \o said \o <<IF again THEN Event("attempt", "retrying")
                                              ELSE Event("final", "failure")>>
    /\ \/ /\ again
          /\ pc' = "sleeping"
          /\ delay' = Delay(attempt)
          /\ UNCHANGED result
       \/ ~again /\ Return("failed") /\ UNCHANGED delay
       \/ policy.sinkThrows /\ Return("rejected") /\ UNCHANGED delay

\* The transport resolves: the provider has taken the message and said so.
Confirm ==
    /\ Waiting /\ flight[attempt] = "accepted"
    /\ flight' = [flight EXCEPT ![attempt] = "confirmed"]
    /\ Return("sent")
    /\ Emit("final", "success")
    /\ UNCHANGED <<policy, attempt, failure, delay>>

\* The same, but the telemetry callback throws, inside the try block.
ConfirmThrows ==
    /\ Waiting /\ flight[attempt] = "accepted" /\ policy.sinkThrows
    /\ flight' = [flight EXCEPT ![attempt] = "confirmed"]
    /\ \E e \in SinkErrors : Catch(e, <<Event("final", "success")>>)
    /\ UNCHANGED <<policy, attempt>>

\* The provider refuses the message.
Refuse ==
    /\ Waiting /\ flight[attempt] = "dispatched"
    /\ flight' = [flight EXCEPT ![attempt] = "refused"]
    /\ \E e \in Refused(policy.channel) : Catch(e, <<>>)
    /\ UNCHANGED <<policy, attempt>>

\* The transport rejects without knowing what has become of the message.
LoseAnswer ==
    /\ Waiting
    /\ \E e \in Lost(policy.channel) \cup {Uncertain} : Catch(e, <<>>)
    /\ UNCHANGED <<policy, attempt, flight>>

\* runWithTimeout: the timer fires first; the attempt goes on.
TimeOutIfOnlyOnce ==
    /\ Waiting /\ policy.timeoutMs > 0 /\ attempt = 1
    /\ Catch(TimerFired, <<>>)
    /\ UNCHANGED <<policy, attempt, flight>>
TimeOutIfResolved ==
    /\ Waiting /\ policy.timeoutMs > 0
    /\ Return("sent")
    /\ Emit("final", "success")
    /\ UNCHANGED <<policy, attempt, flight, failure, delay>>
TimeOut ==
    /\ Waiting /\ policy.timeoutMs > 0
    /\ Catch(TimerFired, <<>>)
    /\ UNCHANGED <<policy, attempt, flight>>

\* sleep is over, and the loop goes round.
Wake ==
    /\ pc = "sleeping"
    /\ pc' = "dispatching"
    /\ UNCHANGED <<policy, attempt, flight, failure, delay, Telemetry>>

\* The provider takes the message of attempt n, be it under way or given up.
Accept(n) ==
    /\ n <= attempt /\ flight[n] = "dispatched"
    /\ flight' = [flight EXCEPT ![n] = "accepted"]
    /\ UNCHANGED <<policy, pc, attempt, failure, delay, Telemetry>>

-----------------------------------------------------------------------------
(* Specification *)

\* The attempts the policy of this call allows.
Attempts == 1 .. (policy.maxRetries + 1)

Init ==
    /\ policy \in Policies
    /\ pc = "dispatching" /\ attempt = 0
    /\ flight = [n \in Attempts |-> "unsent"]
    /\ failure = [n \in Attempts |-> None]
    /\ delay = 0
    /\ events = <<>> /\ result = "none"

Next ==
    \/ Dispatch \/ NoAttempt \/ Wake
    \/ Confirm \/ ConfirmThrows \/ Refuse \/ LoseAnswer \/ TimeOut
    \/ \E n \in Attempts : Accept(n)
    \/ pc = "returned" /\ UNCHANGED vars

Spec == Init /\ [][Next]_vars

\* The event loop runs what is due and timers fire; the provider promises nothing.
FairSpec == Spec /\ WF_vars(Dispatch \/ NoAttempt) /\ WF_vars(Wake) /\ WF_vars(TimeOut)
-----------------------------------------------------------------------------
(* Properties *)

Earlier == 1 .. (attempt - 1)

\* Success is never synthesized (design document, fail-closed): a call that
\* returns it holds the provider's confirmation of its last attempt, and one that
\* returns a failure has no confirmation unless its telemetry callback threw.
SuccessIsConfirmed ==
    /\ result = "sent" => flight[attempt] = "confirmed"
    /\ result = "failed" /\ ~policy.sinkThrows => \A n \in Attempts : flight[n] # "confirmed"

\* Failures that leave open whether the provider has the message.
Doubtful ==
    {TimerFired} \cup Lost(policy.channel) \cup IF policy.sinkThrows THEN SinkErrors ELSE {}

\* The addressee gets the message twice only if an earlier attempt timed out or
\* lost its answer to the network, or telemetry threw: never after a refusal or
\* an outcome the transport itself reports as uncertain.
DuplicatesNeedDoubt ==
    \A n \in Earlier : flight[n] \in {"accepted", "confirmed"} => failure[n] \in Doubtful

\* What the design document lists as retryable: false (its mapping tables).
Permanent ==
    {HttpFailure(s) : s \in {400, 401, 403, 404, 422}}
    \cup {SmtpFailure("EAUTH", 535), SmtpFailure("EENVELOPE", 550)}

\* The pauses a policy names.
Delays ==
    IF policy.backoffMs = <<>> THEN {0}
    ELSE {policy.backoffMs[i] : i \in DOMAIN policy.backoffMs}

\* Nothing is tried again after a permanent failure, no message is tried more
\* often than the policy allows, and between two attempts the call pauses for one
\* of the times the policy names, however many retries it has.
PermanentFailuresEndIt ==
    /\ \A n \in Earlier : failure[n] \notin Permanent
    /\ attempt <= Max({0, policy.maxRetries + 1})
    /\ pc = "sleeping" => delay \in Delays

\* Telemetry tells the story of the call: an attempt event for each attempt that
\* was retried, in order, then one final event that agrees with the result.
TelemetryTellsResult ==
    pc = "returned" /\ attempt > 0 /\ ~policy.sinkThrows =>
       /\ Len(events) = attempt
       /\ \A n \in Earlier :
             events[n] = [phase |-> "attempt", outcome |-> "retrying", attempt |-> n]
       /\ events[attempt] = [phase |-> "final", attempt |-> attempt,
                             outcome |-> IF result = "sent" THEN "success" ELSE "failure"]

\* Every call returns although the provider may never answer, if the policy has
\* a time-out; without one nothing bounds the wait.
EveryCallReturns == policy.timeoutMs > 0 => <>(pc = "returned")

\* Every step of the call uses up some of what the policy grants it, whoever answers
\* and with whatever: what is left of EveryCallReturns is that some step is taken.
StepsLeft ==
    3 * (Max({0, policy.maxRetries + 1}) - attempt)
    + [waiting |-> 3, sleeping |-> 2, dispatching |-> 1, returned |-> 0][pc]

CallAdvances ==
    [][<<pc, attempt>>' # <<pc, attempt>> => StepsLeft' \in Nat /\ StepsLeft' < StepsLeft]_vars

\* Design document: "timeout/network failure => DELIVERY_UNAVAILABLE
\* (retryable: true)": a call gives up on one only when no retry is left.
NetworkFailuresAreRetried ==
    pc = "returned" /\ attempt > 0 /\ ~policy.sinkThrows
    /\ failure[attempt] \in {TimerFired} \cup Lost(policy.channel) => attempt > policy.maxRetries
-----------------------------------------------------------------------------
(* Why it holds *)

\* What an attempt may fail with.
Causes == {TimerFired, Uncertain} \cup Refused(policy.channel) \cup Lost(policy.channel)
          \cup SinkErrors

Events == [phase: {"attempt", "final"}, outcome: {"success", "retrying", "failure"},
           attempt: Nat]

TypeOK ==
    /\ policy \in Policies
    /\ pc \in {"dispatching", "waiting", "sleeping", "returned"}
    /\ attempt \in Nat
    /\ flight \in [Attempts -> {"unsent", "dispatched", "accepted", "confirmed", "refused"}]
    /\ failure \in [Attempts -> Causes \cup {None}]
    /\ delay \in Delays \cup {0}
    /\ events \in Seq(Events)
    /\ result \in {"none", "sent", "failed", "rejected"}

\* Between two attempts there is another to make.
GoesOn == pc \in {"dispatching", "sleeping"}
InPlace ==
    /\ attempt > 0 => attempt \in Attempts
    /\ pc \in {"waiting", "sleeping"} => attempt > 0
    /\ GoesOn /\ attempt > 0 => attempt <= policy.maxRetries
    /\ pc = "sleeping" => delay \in Delays
    /\ pc = "waiting" => flight[attempt] \in {"dispatched", "accepted"}
    /\ pc = "returned" <=> result # "none"

\* The attempts that failed and were, or are to be, followed by another.
Retried(n) == n \in 1 .. attempt /\ (n < attempt \/ GoesOn)

\* An attempt is only retried after a failure that is retryable, and then the
\* message is with the provider only if the failure leaves that open.
RetriesAreDue ==
    \A n \in Attempts : Retried(n) =>
       /\ MapTransportFailure(failure[n]).retryable
       /\ flight[n] # "refused" => failure[n] \in Doubtful

\* A confirmation ends the call unless telemetry throws.
ConfirmationsEndIt ==
    /\ \A n \in Attempts : flight[n] = "unsent" <=> n > attempt
    /\ result = "sent" => attempt > 0 /\ flight[attempt] = "confirmed"
    /\ \A n \in Attempts : flight[n] = "confirmed" =>
          policy.sinkThrows \/ (n = attempt /\ result = "sent")

\* Telemetry has an event of every attempt that is over.
EventsKeepUp ==
    ~policy.sinkThrows =>
       /\ Len(events) = IF pc = "waiting" THEN attempt - 1 ELSE attempt
       /\ \A n \in Attempts :
             /\ Retried(n) =>
                   events[n] = [phase |-> "attempt", outcome |-> "retrying", attempt |-> n]
             /\ n = attempt /\ pc = "returned" =>
                   events[n] = [phase |-> "final", attempt |-> n,
                                outcome |-> IF result = "sent" THEN "success" ELSE "failure"]

\* Inductive.
Coherent ==
    TypeOK /\ InPlace /\ RetriesAreDue /\ ConfirmationsEndIt /\ EventsKeepUp
=============================================================================
