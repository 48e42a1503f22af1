---------------------------- MODULE DeliveryProofs ----------------------------
(***************************************************************************)
(* For every policy, however odd its numbers, and whatever the provider     *)
(* refuses with: a call claims no success without a confirmation, retries   *)
(* only what it may, and tells telemetry what it did.                       *)
(***************************************************************************)
EXTENDS Delivery, SequenceTheorems, TLAPS

LEMMA MinOfTwo ==
  ASSUME NEW a \in Int, NEW b \in Int
  PROVE  Min({a, b}) = IF a <= b THEN a ELSE b
BY DEF Min

LEMMA MaxOfTwo ==
  ASSUME NEW a \in Int, NEW b \in Int
  PROVE  Max({a, b}) = IF a >= b THEN a ELSE b
BY DEF Max

\* The policy of the call has the fields and types of a PolicyConfig.
LEMMA PolicyTypes ==
  ASSUME policy \in Policies
  PROVE  /\ policy.channel \in {"http", "smtp"}
         /\ policy.maxRetries \in Int /\ policy.timeoutMs \in Int
         /\ policy.backoffMs \in Seq(Int) /\ policy.sinkThrows \in BOOLEAN
<1>1. policy \in Policy
  BY PoliciesAssumption
<1> QED
  BY <1>1 DEF Policy

\* A backoff is never read past the end of the sequence, even an empty one.
LEMMA DelayIsListed ==
  ASSUME policy \in Policies, NEW n \in Nat \ {0}
  PROVE  Delay(n) \in Delays
<1>1. policy.backoffMs \in Seq(Int)
  BY PolicyTypes
<1>2. CASE policy.backoffMs = <<>>
  <2>1. Backoff = <<0>> /\ Len(Backoff) = 1
    BY <1>2 DEF Backoff
  <2>2. Min({n, 1}) = 1
    BY MinOfTwo
  <2> QED
    BY <1>2, <2>1, <2>2 DEF Delay, Delays
<1>3. CASE policy.backoffMs # <<>>
  <2> DEFINE b == policy.backoffMs
  <2>1. Len(b) \in Nat \ {0} /\ DOMAIN b = 1 .. Len(b)
    BY <1>1, <1>3, EmptySeq, LenProperties
  <2> HIDE DEF b
  <2>2. Min({n, Len(b)}) \in DOMAIN b
    BY <2>1, MinOfTwo
  <2>3. Delay(n) = b[Min({n, Len(b)})]
    BY <1>3 DEF Delay, Backoff, b
  <2> QED
    BY <1>3, <2>2, <2>3 DEF Delays, b
<1> QED
  BY <1>2, <1>3

\* What mapTransportFailure makes of an uncertain outcome.
LEMMA UncertainIsFinal == ~MapTransportFailure(Uncertain).retryable
BY DEF MapTransportFailure, Uncertain, TimeoutFailure, IsUncertain, DeliveryError

LEMMA NotRetryable == \A c : ~DeliveryError(c, FALSE).retryable
  BY DEF DeliveryError

\* What mapTransportFailure makes of the failures listed as permanent.
LEMMA PermanentIsFinal ==
  ASSUME NEW e \in Permanent
  PROVE  ~MapTransportFailure(e).retryable
<1>1. ASSUME NEW s, s \in {400, 401, 403, 404, 422}, e = HttpFailure(s)
      PROVE  ~MapTransportFailure(e).retryable
  <2>1. e.type = "" /\ e.code = ""
    BY <1>1, Zenon DEF HttpFailure
  <2>2. e.status = s
    BY <1>1, Zenon DEF HttpFailure
  <2>3. ~IsUncertain(e) /\ ~IsTimeout(e)
    BY <2>1, Zenon DEF IsUncertain, IsTimeout
  <2>4. IsHttp(e)
    BY <1>1, <2>2 DEF IsHttp
  <2>5. MapTransportFailure(e) = MapHttpFailure(e)
    BY <2>3, <2>4, Zenon DEF MapTransportFailure
  <2>6. CASE e.status \in {401, 403}
    <3>1. e.status # 429 /\ e.status \notin {400, 404, 422}
      BY <2>6
    <3>2. MapHttpFailure(e) = DeliveryError("DELIVERY_MISCONFIGURED", FALSE)
      BY <2>6, <3>1, ZenonT(60) DEF MapHttpFailure
    <3> QED
      BY <2>5, <3>2, NotRetryable
  <2>7. CASE e.status \in {400, 404, 422}
    <3>1. e.status # 429 /\ e.status \notin {401, 403}
      BY <2>7
    <3>2. MapHttpFailure(e) = DeliveryError("DELIVERY_UNAVAILABLE", FALSE)
      BY <2>7, <3>1, ZenonT(60) DEF MapHttpFailure
    <3> QED
      BY <2>5, <3>2, NotRetryable
  <2> QED
    BY <1>1, <2>2, <2>6, <2>7
<1>2. ASSUME NEW c, NEW r, c \in {"EAUTH", "EENVELOPE"}, r \in 500 .. 599, e = SmtpFailure(c, r)
      PROVE  ~MapTransportFailure(e).retryable
  <2>1. e.type = "" /\ e.status = 0 /\ e.code = c /\ e.response = r
    BY <1>2, Zenon DEF SmtpFailure
  <2>2. ~IsUncertain(e) /\ ~IsTimeout(e) /\ ~IsHttp(e)
    BY <1>2, <2>1, Zenon DEF IsUncertain, IsTimeout, IsHttp
  <2>3. MapTransportFailure(e) = MapSmtpFailure(e)
    BY <2>2, Zenon DEF MapTransportFailure
  <2>4. c \notin NetworkErrorCodes /\ ~(r \in 400 .. 499)
    BY <1>2 DEF NetworkErrorCodes
  <2>5. CASE c = "EAUTH"
    <3>1. MapSmtpFailure(e) = DeliveryError("DELIVERY_MISCONFIGURED", FALSE)
      BY <2>1, <2>4, <2>5, Zenon DEF MapSmtpFailure
    <3> QED
      BY <2>3, <3>1, NotRetryable
  <2>6. CASE c # "EAUTH"
    <3>1. MapSmtpFailure(e) = DeliveryError("DELIVERY_UNAVAILABLE", FALSE)
      BY <2>1, <2>4, <2>6, Zenon DEF MapSmtpFailure
    <3> QED
      BY <2>3, <3>1, NotRetryable
  <2> QED
    BY <2>5, <2>6
<1> QED
  BY <1>1, <1>2 DEF Permanent
-----------------------------------------------------------------------------
(* The catch block *)

\* An event that is added to the telemetry comes last.
LEMMA EventIsAdded ==
  ASSUME events \in Seq(Events), NEW x \in Events, events' = Append(events, x)
  PROVE  /\ events' \in Seq(Events)
         /\ Len(events') = Len(events) + 1
         /\ events'[Len(events) + 1] = x
         /\ \A n \in 1 .. Len(events) : events'[n] = events[n]
<1>1. Len(events) \in Nat
  BY LenProperties
<1> QED
  BY <1>1

LEMMA EventTypes ==
  ASSUME attempt \in Nat, NEW p \in {"attempt", "final"},
         NEW o \in {"success", "retrying", "failure"}
  PROVE  Event(p, o) \in Events
BY DEF Event, Events

\* The sequence of events that the catch block found: telemetry may have been
\* told of a success before.
Told == {<<>>, <<Event("final", "success")>>}

\* What the catch block leaves behind: another attempt only after a failure that
\* is retryable and while one is left, or the end of the call.
LEMMA CatchDecides ==
  ASSUME NEW e, NEW said, Catch(e, said)
  PROVE  \/ /\ pc' = "sleeping" /\ result' = result /\ delay' = Delay(attempt)
            /\ MapTransportFailure(e).retryable /\ attempt <= policy.maxRetries
         \/ /\ pc' = "returned" /\ result' = "failed" /\ delay' = delay
            /\ ~(MapTransportFailure(e).retryable /\ attempt <= policy.maxRetries)
         \/ /\ pc' = "returned" /\ result' = "rejected" /\ delay' = delay
            /\ policy.sinkThrows
BY DEF Catch, Return

\* The one event it adds agrees with that decision.
LEMMA CatchTells ==
  ASSUME TypeOK, NEW e, NEW said \in Told, Catch(e, said)
  PROVE  /\ events' \in Seq(Events)
         /\ said = <<>> =>
               \/ /\ events' = Append(events, Event("attempt", "retrying"))
                  /\ MapTransportFailure(e).retryable /\ attempt <= policy.maxRetries
               \/ /\ events' = Append(events, Event("final", "failure"))
                  /\ ~(MapTransportFailure(e).retryable /\ attempt <= policy.maxRetries)
<1> DEFINE again == MapTransportFailure(e).retryable /\ attempt <= policy.maxRetries
           last == IF again THEN Event("attempt", "retrying") ELSE Event("final", "failure")
<1>1. last \in Events /\ said \in Seq(Events) /\ events \in Seq(Events)
  <2>1. Event("attempt", "retrying") \in Events /\ Event("final", "failure") \in Events
        /\ Event("final", "success") \in Events
    BY EventTypes DEF TypeOK
  <2>2. last \in Events
    BY <2>1
  <2>3. <<Event("final", "success")>> \in Seq(Events) /\ <<>> \in Seq(Events)
    BY <2>1
  <2>4. said \in Seq(Events)
    BY <2>3, Zenon DEF Told
  <2> QED
    BY <2>2, <2>4 DEF TypeOK
<1>2. events' = events \o said \o <<last>>
  BY DEF Catch
<1> HIDE DEF last
<1>3. <<last>> \in Seq(Events)
  BY <1>1
<1>4. events' \in Seq(Events)
  BY <1>1, <1>2, <1>3, ConcatProperties
<1>5. ASSUME said = <<>> PROVE events' = Append(events, last)
  <2>1. events \o said = events
    BY <1>1, <1>5, ConcatEmptySeq
  <2> QED
    BY <1>1, <1>2, <2>1
<1> QED
  BY <1>4, <1>5 DEF last

\* The attempt that failed may be tried again only if it was refused or its
\* failure leaves its outcome open, and counts as confirmed only because
\* telemetry threw.
LEMMA CatchStep ==
  ASSUME Coherent, Waiting, UNCHANGED <<policy, attempt>>,
         NEW e \in Causes, NEW said \in Told, Catch(e, said),
         NEW f \in {"dispatched", "accepted", "confirmed", "refused"},
         flight' = [flight EXCEPT ![attempt] = f],
         MapTransportFailure(e).retryable => f = "refused" \/ e \in Doubtful,
         policy.sinkThrows \/ (f # "confirmed" /\ said = <<>>)
  PROVE  Coherent'
<1> USE DEF Coherent
<1>1. attempt \in Attempts /\ attempt \in Nat /\ attempt > 0
      /\ policy.maxRetries \in Int /\ Attempts' = Attempts /\ Doubtful' = Doubtful
  BY PolicyTypes DEF InPlace, Waiting, Attempts, TypeOK, Doubtful
<1>0. Delays' = Delays
  BY DEF Delays
<1>2. TypeOK'
  <2>1. delay' \in Delays' \cup {0}
    BY <1>0, <1>1, CatchDecides, DelayIsListed DEF TypeOK
  <2>2. failure' \in [Attempts' -> Causes' \cup {None}]
    BY <1>1 DEF TypeOK, Catch, Causes
  <2>3. flight' \in [Attempts' -> {"unsent", "dispatched", "accepted", "confirmed", "refused"}]
    BY <1>1 DEF TypeOK
  <2>4. pc' \in {"sleeping", "returned"} /\ result' \in {"none", "sent", "failed", "rejected"}
    BY CatchDecides DEF TypeOK
  <2> QED
    BY <1>1, <2>1, <2>2, <2>3, <2>4, CatchTells DEF TypeOK
<1>3. InPlace'
  <2>1. pc' = "sleeping" => delay' \in Delays'
    BY <1>0, <1>1, CatchDecides, DelayIsListed DEF TypeOK
  <2> QED
    BY <1>1, <2>1, CatchDecides DEF InPlace, GoesOn, Waiting
<1>4. RetriesAreDue'
  <2> SUFFICES ASSUME NEW n \in Attempts, Retried(n)'
               PROVE  /\ MapTransportFailure(failure'[n]).retryable
                      /\ flight'[n] # "refused" => failure'[n] \in Doubtful
    BY <1>1 DEF RetriesAreDue
  <2>1. CASE n = attempt
    <3>1. MapTransportFailure(e).retryable
      BY <1>1, <2>1, CatchDecides DEF Retried, GoesOn
    <3>2. failure'[n] = e /\ flight'[n] = f
      BY <1>1, <2>1 DEF Catch, TypeOK
    <3> QED
      BY <3>1, <3>2
  <2>2. CASE n # attempt
    <3>1. failure'[n] = failure[n] /\ flight'[n] = flight[n]
      BY <1>1, <2>2 DEF Catch, TypeOK
    <3>2. Retried(n)
      BY <1>1, <2>2 DEF Retried, Attempts
    <3> QED
      BY <3>1, <3>2 DEF RetriesAreDue
  <2> QED
    BY <2>1, <2>2
<1>5. ConfirmationsEndIt'
  BY <1>1, CatchDecides DEF ConfirmationsEndIt, TypeOK, InPlace, Waiting
<1>6. EventsKeepUp'
  <2> SUFFICES ASSUME ~policy.sinkThrows
               PROVE  EventsKeepUp'
    BY DEF EventsKeepUp
  <2>1. said = <<>> /\ Len(events) = attempt - 1
    BY DEF EventsKeepUp, Waiting
  <2> DEFINE again == MapTransportFailure(e).retryable /\ attempt <= policy.maxRetries
             last == IF again THEN Event("attempt", "retrying") ELSE Event("final", "failure")
  <2>2. events' = Append(events, last)
    BY <2>1, CatchTells
  <2>3. last \in Events
    BY <1>1, EventTypes
  <2> HIDE DEF last
  <2>4. /\ Len(events') = attempt
        /\ events'[attempt] = last
        /\ \A n \in 1 .. (attempt - 1) : events'[n] = events[n]
    BY <1>1, <2>1, <2>2, <2>3, EventIsAdded DEF TypeOK
  <2>5. \/ pc' = "sleeping" /\ again
        \/ pc' = "returned" /\ result' = "failed" /\ ~again
    BY CatchDecides
  <2>6. \A n \in 1 .. (attempt - 1) :
           events[n] = [phase |-> "attempt", outcome |-> "retrying", attempt |-> n]
    <3>1. TAKE n \in 1 .. (attempt - 1)
    <3>2. n \in Attempts /\ Retried(n)
      BY <1>1 DEF Retried, Attempts
    <3> QED
      BY <3>2, Zenon DEF EventsKeepUp
  <2>7. CASE again
    <3>1. last = [phase |-> "attempt", outcome |-> "retrying", attempt |-> attempt]
      BY <2>7 DEF last, Event
    <3> QED
      BY <1>1, <2>4, <2>5, <2>6, <2>7, <3>1 DEF EventsKeepUp, Retried
  <2>8. CASE ~again
    <3>1. last = [phase |-> "final", outcome |-> "failure", attempt |-> attempt]
      BY <2>8 DEF last, Event
    <3> QED
      BY <1>1, <2>4, <2>5, <2>6, <2>8, <3>1 DEF EventsKeepUp, Retried, GoesOn
  <2> QED
    BY <2>7, <2>8
<1> QED
  BY <1>2, <1>3, <1>4, <1>5, <1>6
-----------------------------------------------------------------------------
(* The invariant *)

\* Facts that every step uses: the call's policy and the bounds of its attempts.
LEMMA Bounds ==
  ASSUME Coherent
  PROVE  /\ policy.maxRetries \in Int /\ attempt \in Nat
         /\ attempt > 0 => attempt \in Attempts
         /\ UNCHANGED policy => Attempts' = Attempts /\ Delays' = Delays /\ Causes' = Causes
                                /\ Doubtful' = Doubtful
BY PolicyTypes DEF Coherent, TypeOK, InPlace, Attempts, Delays, Causes, Doubtful

LEMMA CoherentInit == Init => Coherent
<1> SUFFICES ASSUME Init PROVE Coherent
  OBVIOUS
<1> USE DEF Init
<1>1. policy.maxRetries \in Int
  BY PolicyTypes
<1>2. TypeOK
  BY EmptySeq DEF TypeOK, Delays
<1>3. InPlace /\ RetriesAreDue /\ ConfirmationsEndIt
  BY <1>1 DEF InPlace, RetriesAreDue, Retried, ConfirmationsEndIt, Attempts
<1>4. EventsKeepUp
  BY <1>1, EmptySeq DEF EventsKeepUp, Retried, Attempts
<1> QED
  BY <1>2, <1>3, <1>4 DEF Coherent

LEMMA DispatchStep ==
  ASSUME Coherent, Dispatch
  PROVE  Coherent'
<1> USE DEF Dispatch, Telemetry
<1>1. attempt + 1 \in Attempts /\ attempt' = attempt + 1 /\ attempt' \in Nat
      /\ Attempts' = Attempts /\ Delays' = Delays /\ Causes' = Causes /\ Doubtful' = Doubtful
  BY Bounds DEF Attempts
<1>2. TypeOK'
  BY <1>1 DEF Coherent, TypeOK
<1>3. InPlace'
  BY <1>1 DEF Coherent, TypeOK, InPlace, GoesOn
<1>4. ASSUME NEW n \in Attempts, Retried(n)' PROVE Retried(n) /\ n # attempt + 1
  BY <1>1, <1>4, Bounds DEF Retried, GoesOn
<1>5. RetriesAreDue'
  BY <1>1, <1>4 DEF Coherent, TypeOK, RetriesAreDue
<1>6. ConfirmationsEndIt'
  BY <1>1, Bounds DEF Coherent, TypeOK, ConfirmationsEndIt, InPlace, Attempts
<1>7. EventsKeepUp'
  BY <1>1, <1>4, Bounds DEF Coherent, EventsKeepUp
<1> QED
  BY <1>2, <1>3, <1>5, <1>6, <1>7 DEF Coherent

LEMMA NoAttemptStep ==
  ASSUME Coherent, NoAttempt
  PROVE  Coherent'
<1> USE DEF NoAttempt, Return
<1>1. attempt = 0 /\ UNCHANGED policy
  BY Bounds DEF Coherent, InPlace, GoesOn
<1>2. TypeOK' /\ InPlace'
  BY <1>1, Bounds DEF Coherent, TypeOK, InPlace, GoesOn
<1>3. RetriesAreDue' /\ ConfirmationsEndIt'
  BY <1>1, Bounds DEF Coherent, RetriesAreDue, Retried, ConfirmationsEndIt
<1>4. EventsKeepUp'
  BY <1>1, Bounds DEF Coherent, EventsKeepUp, Retried, Attempts
<1> QED
  BY <1>2, <1>3, <1>4 DEF Coherent

LEMMA WakeStep ==
  ASSUME Coherent, Wake
  PROVE  Coherent'
<1> USE DEF Wake, Telemetry
<1>1. \A n : Retried(n)' <=> Retried(n)
  BY DEF Retried, GoesOn
<1>2. TypeOK' /\ InPlace'
  BY Bounds DEF Coherent, TypeOK, InPlace, GoesOn
<1>3. RetriesAreDue' /\ ConfirmationsEndIt' /\ EventsKeepUp'
  BY <1>1, Bounds DEF Coherent, RetriesAreDue, ConfirmationsEndIt, EventsKeepUp
<1> QED
  BY <1>2, <1>3 DEF Coherent

LEMMA ConfirmStep ==
  ASSUME Coherent, Confirm
  PROVE  Coherent'
<1> USE DEF Confirm, Waiting, Return
<1>1. attempt \in Attempts /\ attempt > 0 /\ UNCHANGED <<policy, attempt>>
      /\ Attempts' = Attempts /\ Delays' = Delays /\ Causes' = Causes /\ Doubtful' = Doubtful
  BY Bounds DEF Coherent, InPlace
<1>2. Event("final", "success") \in Events /\ events' = Append(events, Event("final", "success"))
  BY EventTypes, Bounds DEF Emit
<1>3. TypeOK'
  BY <1>1, <1>2, EventIsAdded DEF Coherent, TypeOK
<1>4. InPlace'
  BY <1>1, Bounds DEF Coherent, TypeOK, InPlace, GoesOn
<1>5. ASSUME NEW n \in Attempts, Retried(n)' PROVE Retried(n) /\ n \in 1 .. (attempt - 1)
  BY <1>1, <1>5, Bounds DEF Retried, GoesOn
<1>6. RetriesAreDue'
  BY <1>1, <1>5 DEF Coherent, TypeOK, RetriesAreDue
<1>7. ConfirmationsEndIt'
  BY <1>1, Bounds DEF Coherent, TypeOK, ConfirmationsEndIt, InPlace
<1>8. EventsKeepUp'
  <2> SUFFICES ASSUME ~policy.sinkThrows PROVE EventsKeepUp'
    BY <1>1 DEF EventsKeepUp
  <2>1. Len(events) = attempt - 1
    BY DEF Coherent, EventsKeepUp
  <2>2. /\ Len(events') = attempt
        /\ events'[attempt] = Event("final", "success")
        /\ \A n \in 1 .. (attempt - 1) : events'[n] = events[n]
    BY <1>1, <1>2, <2>1, Bounds, EventIsAdded DEF Coherent, TypeOK
  <2> QED
    BY <1>1, <1>5, <2>2 DEF Coherent, EventsKeepUp, Event
<1> QED
  BY <1>3, <1>4, <1>6, <1>7, <1>8 DEF Coherent

LEMMA AcceptStep ==
  ASSUME Coherent, NEW n \in Attempts, Accept(n)
  PROVE  Coherent'
<1> USE DEF Accept, Telemetry
<1>1. \A m : Retried(m)' <=> Retried(m)
  BY DEF Retried, GoesOn
<1>2. TypeOK' /\ InPlace'
  BY Bounds DEF Coherent, TypeOK, InPlace, GoesOn
<1>3. RetriesAreDue' /\ ConfirmationsEndIt' /\ EventsKeepUp'
  BY <1>1, Bounds DEF Coherent, TypeOK, RetriesAreDue, ConfirmationsEndIt, EventsKeepUp
<1> QED
  BY <1>2, <1>3 DEF Coherent

\* A step after which the attempt under way may still be taken: the flight is as
\* before.
LEMMA GivenUp ==
  ASSUME Coherent, Waiting, UNCHANGED <<policy, attempt, flight>>,
         NEW e \in Causes, Catch(e, <<>>),
         MapTransportFailure(e).retryable => e \in Doubtful
  PROVE  Coherent'
<1>1. flight[attempt] \in {"dispatched", "accepted"} /\ attempt \in Attempts
  BY Bounds DEF Coherent, InPlace, Waiting
<1>2. flight' = [flight EXCEPT ![attempt] = flight[attempt]]
  BY <1>1 DEF Coherent, TypeOK
<1> QED
  BY <1>1, <1>2, CatchStep DEF Told

LEMMA CatchingSteps ==
  ASSUME Coherent, ConfirmThrows \/ Refuse \/ LoseAnswer \/ TimeOut
  PROVE  Coherent'
<1>1. CASE ConfirmThrows
  <2>1. PICK e \in SinkErrors : Catch(e, <<Event("final", "success")>>)
    BY <1>1 DEF ConfirmThrows
  <2>2. e \in Causes /\ e \in Doubtful /\ policy.sinkThrows
    BY <1>1 DEF ConfirmThrows, Causes, Doubtful
  <2> QED
    BY <1>1, <2>1, <2>2, CatchStep DEF ConfirmThrows, Told
<1>2. CASE Refuse
  <2>1. PICK e \in Refused(policy.channel) : Catch(e, <<>>)
    BY <1>2 DEF Refuse
  <2> QED
    BY <1>2, <2>1, CatchStep DEF Refuse, Told, Causes
<1>3. CASE LoseAnswer
  <2>1. PICK e \in Lost(policy.channel) \cup {Uncertain} : Catch(e, <<>>)
    BY <1>3 DEF LoseAnswer
  <2>2. e \in Causes /\ (MapTransportFailure(e).retryable => e \in Doubtful)
    BY <2>1, UncertainIsFinal DEF Causes, Doubtful
  <2> QED
    BY <1>3, <2>1, <2>2, GivenUp DEF LoseAnswer
<1>4. CASE TimeOut
  <2>1. TimerFired \in Causes /\ TimerFired \in Doubtful
    BY DEF Causes, Doubtful
  <2> QED
    BY <1>4, <2>1, GivenUp DEF TimeOut
<1> QED
  BY <1>1, <1>2, <1>3, <1>4

\* Every reachable state is Coherent: whatever the policy's numbers, the call is in
\* step with its attempts, retries only what it may, takes no success for granted,
\* and has told telemetry of every attempt that is over.
THEOREM Coherence == Spec => []Coherent
<1>1. Init => Coherent
  BY CoherentInit
<1>2. Coherent /\ [Next]_vars => Coherent'
  <2> SUFFICES ASSUME Coherent, [Next]_vars PROVE Coherent'
    OBVIOUS
  <2>1. CASE UNCHANGED vars
    <3>1. \A n : Retried(n)' <=> Retried(n)
      BY <2>1 DEF vars, Retried, GoesOn
    <3>2. TypeOK' /\ InPlace'
      BY <2>1, Bounds DEF vars, Telemetry, Coherent, TypeOK, InPlace, GoesOn
    <3>3. RetriesAreDue' /\ ConfirmationsEndIt' /\ EventsKeepUp'
      BY <2>1, <3>1, Bounds
         DEF vars, Telemetry, Coherent, RetriesAreDue, ConfirmationsEndIt, EventsKeepUp
    <3> QED
      BY <3>2, <3>3 DEF Coherent
  <2>2. CASE Dispatch \/ NoAttempt \/ Wake \/ Confirm
    BY <2>2, DispatchStep, NoAttemptStep, WakeStep, ConfirmStep
  <2>3. CASE ConfirmThrows \/ Refuse \/ LoseAnswer \/ TimeOut
    BY <2>3, CatchingSteps
  <2>4. CASE \E n \in Attempts : Accept(n)
    BY <2>4, AcceptStep
  <2> QED
    BY <2>1, <2>2, <2>3, <2>4 DEF Next
<1> QED
  BY <1>1, <1>2, PTL DEF Spec

-----------------------------------------------------------------------------
(* What it gives *)

\* Success is never synthesized: a call that returns it has the provider's
\* confirmation of its last attempt, and one that returns a failure has none.
THEOREM NoSuccessIsSynthesized == Spec => []SuccessIsConfirmed
<1>1. Coherent => SuccessIsConfirmed
  BY DEF Coherent, ConfirmationsEndIt, SuccessIsConfirmed
<1> QED
  BY <1>1, Coherence, PTL

\* A second message goes out only after a time-out, an answer lost in the network
\* or a telemetry callback that threw.
THEOREM DuplicatesAreDoubtful == Spec => []DuplicatesNeedDoubt
<1>1. Coherent => DuplicatesNeedDoubt
  <2> SUFFICES ASSUME Coherent, NEW n \in Earlier, flight[n] \in {"accepted", "confirmed"}
               PROVE  failure[n] \in Doubtful
    BY DEF DuplicatesNeedDoubt
  <2>1. n \in Attempts /\ Retried(n)
    BY Bounds DEF Earlier, Retried, Attempts
  <2> QED
    BY <2>1 DEF Coherent, RetriesAreDue
<1> QED
  BY <1>1, Coherence, PTL

\* What the design calls permanent ends the call, and no policy, not even one with
\* a negative number of retries, makes it try more often than it says.
THEOREM PermanentFailuresAreFinal == Spec => []PermanentFailuresEndIt
<1>1. Coherent => PermanentFailuresEndIt
  <2> SUFFICES ASSUME Coherent PROVE PermanentFailuresEndIt
    OBVIOUS
  <2>1. ASSUME NEW n \in Earlier PROVE failure[n] \notin Permanent
    <3>1. n \in Attempts /\ Retried(n)
      BY Bounds DEF Earlier, Retried, Attempts
    <3> QED
      BY <3>1, PermanentIsFinal DEF Coherent, RetriesAreDue
  <2>2. attempt <= Max({0, policy.maxRetries + 1})
    BY Bounds, MaxOfTwo DEF Attempts
  <2> QED
    BY <2>1, <2>2 DEF PermanentFailuresEndIt, Coherent, InPlace
<1> QED
  BY <1>1, Coherence, PTL

\* Telemetry has one event for each attempt that was retried, in order, and then
\* one that says what the call has returned.
THEOREM TelemetryAgrees == Spec => []TelemetryTellsResult
<1>1. Coherent => TelemetryTellsResult
  <2> SUFFICES ASSUME Coherent, pc = "returned", attempt > 0, ~policy.sinkThrows
               PROVE  /\ Len(events) = attempt
                      /\ \A n \in Earlier :
                            events[n] = [phase |-> "attempt", outcome |-> "retrying",
                                         attempt |-> n]
                      /\ events[attempt] = [phase |-> "final", attempt |-> attempt,
                                outcome |-> IF result = "sent" THEN "success" ELSE "failure"]
    BY DEF TelemetryTellsResult
  <2>1. Len(events) = attempt
    BY DEF Coherent, EventsKeepUp
  <2>2. ASSUME NEW n \in Earlier
        PROVE  events[n] = [phase |-> "attempt", outcome |-> "retrying", attempt |-> n]
    <3>1. n \in Attempts /\ Retried(n)
      BY Bounds DEF Earlier, Retried, Attempts
    <3> QED
      BY <3>1 DEF Coherent, EventsKeepUp
  <2>3. attempt \in Attempts
    BY Bounds
  <2> QED
    BY <2>1, <2>2, <2>3 DEF Coherent, EventsKeepUp
<1> QED
  BY <1>1, Coherence, PTL

\* What StepsLeft is at each await of the call.
Most == IF 0 >= policy.maxRetries + 1 THEN 0 ELSE policy.maxRetries + 1
Counted ==
  /\ policy.maxRetries \in Int /\ attempt \in Nat /\ attempt <= Most
  /\ pc = "waiting" => StepsLeft = 3 * (Most - attempt) + 3
  /\ pc = "sleeping" => StepsLeft = 3 * (Most - attempt) + 2
  /\ pc = "dispatching" => StepsLeft = 3 * (Most - attempt) + 1
  /\ pc = "returned" => StepsLeft = 3 * (Most - attempt) + 0

LEMMA StepsLeftOf == Coherent => Counted
<1> SUFFICES ASSUME Coherent PROVE Counted
  OBVIOUS
<1> DEFINE w == [waiting |-> 3, sleeping |-> 2, dispatching |-> 1, returned |-> 0]
<1>1. /\ policy.maxRetries \in Int /\ attempt \in Nat
      /\ attempt > 0 => attempt \in Attempts
      /\ Max({0, policy.maxRetries + 1}) = Most
  BY Bounds, MaxOfTwo DEF Most
<1>2. attempt <= Most
  BY <1>1 DEF Attempts, Most
<1>3. StepsLeft = 3 * (Most - attempt) + w[pc]
  BY <1>1 DEF StepsLeft
<1>4. w["waiting"] = 3 /\ w["sleeping"] = 2 /\ w["dispatching"] = 1 /\ w["returned"] = 0
  OBVIOUS
<1> HIDE DEF w
<1> QED
  BY <1>1, <1>2, <1>3, <1>4 DEF Counted

\* No policy lets the call go round for ever: each of its steps leaves fewer.
THEOREM CallsAdvance == Spec => CallAdvances
<1>1. ASSUME Counted, Counted', [Next]_vars, <<pc, attempt>>' # <<pc, attempt>>
      PROVE  StepsLeft' \in Nat /\ StepsLeft' < StepsLeft
  <2>1. UNCHANGED policy
    BY <1>1 DEF Next, vars, Telemetry, Dispatch, NoAttempt, Wake, Confirm, ConfirmThrows,
       Refuse, LoseAnswer, TimeOut, Accept
  <2>2. \/ pc = "dispatching" /\ pc' = "waiting" /\ attempt' = attempt + 1
        \/ pc = "dispatching" /\ pc' = "returned" /\ attempt' = attempt
        \/ pc = "sleeping" /\ pc' = "dispatching" /\ attempt' = attempt
        \/ pc = "waiting" /\ pc' \in {"sleeping", "returned"} /\ attempt' = attempt
    <3>1. CASE ConfirmThrows \/ Refuse \/ LoseAnswer \/ TimeOut
      <4>1. pc = "waiting" /\ attempt' = attempt
            /\ \E e : \E said : Catch(e, said)
        BY <3>1 DEF ConfirmThrows, Refuse, LoseAnswer, TimeOut, Waiting
      <4> QED
        BY <4>1, CatchDecides
    <3>2. CASE Dispatch \/ NoAttempt \/ Wake \/ Confirm
      BY <3>2 DEF Dispatch, NoAttempt, Wake, Confirm, Waiting, Return
    <3>3. (\E n \in Attempts : Accept(n)) \/ UNCHANGED vars => <<pc, attempt>>' = <<pc, attempt>>
      BY DEF Accept, vars
    <3> QED
      BY <1>1, <3>1, <3>2, <3>3 DEF Next
  <2>3. Most' = Most /\ Most \in Nat
    BY <1>1, <2>1 DEF Most, Counted
  <2> QED
    BY <1>1, <2>2, <2>3 DEF Counted
<1>2. Counted /\ Counted' /\ [Next]_vars =>
         [<<pc, attempt>>' # <<pc, attempt>> => StepsLeft' \in Nat /\ StepsLeft' < StepsLeft]_vars
  BY <1>1
<1> QED
  BY <1>2, Coherence, StepsLeftOf, PTL DEF Spec, CallAdvances
=============================================================================
