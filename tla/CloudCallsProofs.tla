-------------------------- MODULE CloudCallsProofs --------------------------
(***************************************************************************)
(* CloudCalls for any number of calls of any methods: its types, and what  *)
(* a single-use ticket needs of call_with_retry. The argument: a request   *)
(* that consumes a ticket is sent again only if it never left, so a call   *)
(* has at most one request or answer in the world at a time, and none of   *)
(* its own is left to be refused once the ticket is used up for it. Then   *)
(* that calls end: every step takes one of the few a call has, and timers  *)
(* that run make it take them.                                             *)
(***************************************************************************)
EXTENDS CloudCalls, TLAPS

Unsent(k) == \A n \in 0..4 : <<k, n>> \notin requests
Unanswered(k) == \A n \in 0..4 : \A a \in Answer : <<k, n, a>> \notin answers

\* One ticket call: where its one request is, and what has become of it.
TicketInv(k) ==
    /\ pc[k] = "idle" => attempt[k] = 0 /\ Unsent(k) /\ Unanswered(k) /\ taker # k
    /\ \A n \in 0..4 : <<k, n>> \in requests =>
          n = attempt[k] /\ taker # k /\ Unanswered(k)
    /\ \A n \in 0..4 : \A a \in Answer : <<k, n, a>> \in answers =>
          /\ Unsent(k) /\ a # "missing"
          /\ a = "rejected" => taker # k
          /\ a # "rejected" => taker = k
    /\ pc[k] = "failed" => verdict[k] \in Failure
    /\ pc[k] = "failed" /\ verdict[k] = "connect" =>
          Unsent(k) /\ Unanswered(k) /\ taker # k
    /\ verdict[k] \in Answer => pc[k] = "ended"
    /\ verdict[k] = "rejected" => Unsent(k) /\ taker # k
    /\ verdict[k] \in {"accepted", "garbled"} => taker = k
    /\ verdict[k] # "missing"

IInv == TypeOK /\ \A k \in Call : Consumes(k) => TicketInv(k)

\* Every method makes between one and five attempts (cloud_client.py).
LEMMA AttemptsBound == \A k \in Call : Attempts(k) \in 1..5
  BY DEF Attempts

\* A client that has made no call is well typed.
LEMMA TypeInit == Init => TypeOK
  <1>1. \A k \in Call : 0 < Attempts(k)
    BY AttemptsBound
  <1>. QED  BY <1>1 DEF Init, TypeOK

\* Every step of a call or of Cloud keeps the types.
LEMMA TypeStep == TypeOK /\ [Next]_vars => TypeOK'
  <1>. SUFFICES ASSUME TypeOK, [Next]_vars PROVE TypeOK'
    OBVIOUS
  <1>. USE DEF TypeOK
  <1>1. ASSUME NEW k \in Call, Start(k) PROVE TypeOK'
    BY <1>1 DEF Start
  <1>2. ASSUME NEW k \in Call, ConnectFails(k) PROVE TypeOK'
    BY <1>2 DEF ConnectFails, Failure
  <1>3. ASSUME NEW k \in Call, TimesOut(k) PROVE TypeOK'
    BY <1>3 DEF TimesOut, Failure
  <1>4. ASSUME NEW k \in Call, Retry(k) PROVE TypeOK'
    <2>1. attempt[k] + 1 \in 0..4 /\ attempt[k] + 1 < Attempts(k)
      BY <1>4, AttemptsBound DEF Retry, LastAttempt
    <2>. QED  BY <1>4, <2>1 DEF Retry, Attempts
  <1>5. ASSUME NEW k \in Call, GiveUp(k) PROVE TypeOK'
    BY <1>5 DEF GiveUp
  <1>6. ASSUME NEW k \in Call, Receive(k) PROVE TypeOK'
    BY <1>6 DEF Receive
  <1>7. ASSUME NEW k \in Call, NEW n \in 0..4, ServeTicket(k, n) PROVE TypeOK'
    <2>1. {"accepted", "garbled", "rejected"} \subseteq Answer
      BY DEF Answer
    <2>2. UNCHANGED <<pc, attempt, verdict>> /\ requests' \subseteq requests
      BY <1>7 DEF ServeTicket
    <2>3. taker' \in {taker, k}
      BY <1>7 DEF ServeTicket
    <2>4. \E a \in Answer : AnswerTo(k, n, a)
      BY <1>7, <2>1 DEF ServeTicket
    <2>5. answers' \subseteq Call \X (0..4) \X Answer
      BY <2>4 DEF AnswerTo
    <2>. QED  BY <2>2, <2>3, <2>5 DEF Attempts
  <1>8. ASSUME NEW k \in Call, NEW n \in 0..4, Serve(k, n) PROVE TypeOK'
    BY <1>8 DEF Serve, AnswerTo
  <1>9. CASE UNCHANGED vars
    BY <1>9 DEF vars
  <1>. QED
    BY <1>1, <1>2, <1>3, <1>4, <1>5, <1>6, <1>7, <1>8, <1>9 DEF Next, Calling

\* A step that leaves a call's own part of the state alone, and does not use
\* the ticket up for it, leaves the invariant of that call alone.
LEMMA OtherCall ==
    ASSUME NEW k \in Call, TicketInv(k),
           pc'[k] = pc[k], attempt'[k] = attempt[k], verdict'[k] = verdict[k],
           \A n \in 0..4 : <<k, n>> \in requests' <=> <<k, n>> \in requests,
           \A n \in 0..4 : \A a \in Answer :
              <<k, n, a>> \in answers' <=> <<k, n, a>> \in answers,
           taker' = k <=> taker = k
    PROVE  TicketInv(k)'
  BY DEF TicketInv, Unsent, Unanswered

\* Every step of any call keeps what is known of each ticket call.
LEMMA TicketStep == IInv /\ [Next]_vars => (\A k \in Call : Consumes(k) => TicketInv(k))'
  <1>. SUFFICES ASSUME IInv, [Next]_vars, NEW k \in Call, Consumes(k)
                PROVE  TicketInv(k)'
    BY DEF Consumes
  <1>1. TypeOK /\ TicketInv(k)
    BY DEF IInv
  <1>2. ASSUME NEW j \in Call \ {k}, Calling(j) PROVE TicketInv(k)'
    <2>1. pc'[k] = pc[k] /\ attempt'[k] = attempt[k] /\ verdict'[k] = verdict[k]
      BY <1>1, <1>2
      DEF Calling, Start, ConnectFails, TimesOut, Retry, GiveUp, Receive, TypeOK
    <2>2. \A n \in 0..4 : <<k, n>> \in requests' <=> <<k, n>> \in requests
      BY <1>2 DEF Calling, Start, ConnectFails, TimesOut, Retry, GiveUp, Receive
    <2>3. \A n \in 0..4 : \A a \in Answer :
             <<k, n, a>> \in answers' <=> <<k, n, a>> \in answers
      BY <1>2 DEF Calling, Start, ConnectFails, TimesOut, Retry, GiveUp, Receive
    <2>4. taker' = taker
      BY <1>2 DEF Calling, Start, ConnectFails, TimesOut, Retry, GiveUp, Receive
    <2>. QED  BY <1>1, <2>1, <2>2, <2>3, <2>4, OtherCall
  <1>3. ASSUME NEW j \in Call \ {k}, NEW m \in 0..4, ServeTicket(j, m) \/ Serve(j, m)
        PROVE  TicketInv(k)'
    <2>1. UNCHANGED <<pc, attempt, verdict>>
      BY <1>3 DEF ServeTicket, Serve
    <2>2. \A n \in 0..4 : <<k, n>> \in requests' <=> <<k, n>> \in requests
      BY <1>3 DEF ServeTicket, Serve
    <2>3. \A n \in 0..4 : \A a \in Answer :
             <<k, n, a>> \in answers' <=> <<k, n, a>> \in answers
      BY <1>3 DEF ServeTicket, Serve, AnswerTo
    <2>4. taker' = k <=> taker = k
      BY <1>3, CallAssumption DEF ServeTicket, Serve
    <2>. QED  BY <1>1, <2>1, <2>2, <2>3, <2>4, OtherCall
  <1>4. CASE Start(k)
    <2>1. attempt[k] = 0 /\ Unsent(k) /\ Unanswered(k) /\ taker # k
      BY <1>1, <1>4 DEF Start, TicketInv
    <2>2. /\ pc'[k] = "waiting" /\ requests' = requests \cup {<<k, 0>>}
          /\ UNCHANGED <<attempt, verdict, answers, taker>>
      BY <1>1, <1>4 DEF Start, TypeOK
    <2>3. verdict[k] \notin Answer
      BY <1>1, <1>4 DEF Start, TicketInv
    <2>. QED  BY <2>1, <2>2, <2>3 DEF TicketInv, Unsent, Unanswered, Answer
  <1>5. CASE ConnectFails(k)
    BY <1>1, <1>5 DEF ConnectFails, TypeOK, TicketInv, Unsent, Unanswered, Answer, Failure
  <1>6. CASE TimesOut(k)
    BY <1>1, <1>6 DEF TimesOut, TypeOK, TicketInv, Unsent, Unanswered, Answer, Failure
  <1>7. CASE Retry(k)
    <2>1. verdict[k] = "connect" /\ pc[k] = "failed"
      BY <1>7 DEF Retry, Retryable
    <2>2. Unsent(k) /\ Unanswered(k) /\ taker # k
      BY <1>1, <2>1 DEF TicketInv
    <2>3. /\ pc'[k] = "waiting" /\ attempt'[k] = attempt[k] + 1
          /\ requests' = requests \cup {<<k, attempt[k] + 1>>}
          /\ UNCHANGED <<verdict, answers, taker>>
      BY <1>1, <1>7 DEF Retry, TypeOK
    <2>. QED  BY <2>1, <2>2, <2>3 DEF TicketInv, Unsent, Unanswered, Answer
  <1>8. CASE GiveUp(k)
    BY <1>1, <1>8 DEF GiveUp, TypeOK, TicketInv, Unsent, Unanswered, Answer, Failure
  <1>9. CASE Receive(k)
    <2>1. PICK a \in Answer :
             /\ <<k, attempt[k], a>> \in answers
             /\ answers' = answers \ {<<k, attempt[k], a>>}
             /\ verdict' = [verdict EXCEPT ![k] = a]
      BY <1>9 DEF Receive
    <2>2. attempt[k] \in 0..4
      BY <1>1 DEF TypeOK
    <2>3. /\ Unsent(k) /\ a # "missing"
          /\ (a = "rejected" => taker # k) /\ (a # "rejected" => taker = k)
      BY <1>1, <2>1, <2>2 DEF TicketInv
    <2>4. pc'[k] = "ended" /\ verdict'[k] = a /\ UNCHANGED <<attempt, requests, taker>>
      BY <1>1, <1>9, <2>1 DEF Receive, TypeOK
    <2>. QED
      BY <1>1, <2>1, <2>2, <2>3, <2>4 DEF TicketInv, Unsent, Unanswered, Answer
  <1>10. ASSUME NEW n \in 0..4, ServeTicket(k, n) PROVE TicketInv(k)'
    BY <1>1, <1>10 DEF ServeTicket, AnswerTo, TypeOK, TicketInv, Unsent, Unanswered, Answer, Failure
  <1>11. ASSUME NEW n \in 0..4 PROVE ~ Serve(k, n)
    BY DEF Serve
  <1>12. CASE UNCHANGED vars
    BY <1>1, <1>12 DEF vars, TicketInv, Unsent, Unanswered
  <1>. QED
    BY <1>2, <1>3, <1>4, <1>5, <1>6, <1>7, <1>8, <1>9, <1>10, <1>11, <1>12
    DEF Next, Calling

\* The invariant holds before the first call.
LEMMA InvInit == Init => IInv
  <1>1. ASSUME Init, NEW k \in Call PROVE TicketInv(k)
    BY <1>1, CallAssumption DEF Init, TicketInv, Unsent, Unanswered, Answer
  <1>. QED  BY <1>1, TypeInit DEF IInv

\* The inductive invariant holds of every behaviour of the calls.
THEOREM Invariance == Spec => []IInv
  <1>1. IInv /\ [Next]_vars => IInv'
    BY TypeStep, TicketStep DEF IInv
  <1>. QED  BY <1>1, InvInit, PTL DEF Spec

\* Every variable keeps its type, and no call makes more attempts than
\* call_with_retry is given (clients/retry.py).
THEOREM TypeCorrect == Spec => []TypeOK
  <1>1. IInv => TypeOK
    BY DEF IInv
  <1>. QED  BY <1>1, Invariance, PTL

\* No call is refused the ticket it has itself used up.
THEOREM TicketNotLost == Spec => []NeverBeatenByItself
  <1>1. IInv => NeverBeatenByItself
    BY DEF IInv, TicketInv, NeverBeatenByItself
  <1>. QED  BY <1>1, Invariance, PTL

\* Nobody but the call that used the ticket up is handed the target.
THEOREM OneTarget == Spec => []TargetGoesToTaker
  <1>1. IInv => TargetGoesToTaker
    BY DEF IInv, TicketInv, TargetGoesToTaker, ReturnsAnswer, BodyIgnored, Consumes
  <1>. QED  BY <1>1, Invariance, PTL

\* Whatever becomes of its attempts, a method without a harmless default is
\* answered out of Cloud's own answer or not at all.
THEOREM OnlyCloudAnswers == Spec => []NothingInvented
  <1>1. ASSUME NEW k \in Call, MethodOf[k] \in Raising, Replies(k)
        PROVE  verdict[k] \in Answer \ {"rejected"}
    <2>1. MethodOf[k] \notin Defaulting
      BY <1>1 DEF Raising, Defaulting
    <2>2. ReturnsAnswer(k)
      BY <1>1, <2>1 DEF Replies
    <2>. QED  BY <2>2 DEF ReturnsAnswer, Answer
  <1>2. NothingInvented
    BY <1>1 DEF NothingInvented
  <1>. QED  BY <1>2, PTL

\* The steps k has left at most: three to an attempt.
Left(k) ==
    3 * (Attempts(k) - attempt[k]) +
        (CASE pc[k] = "idle" -> 3 [] pc[k] = "waiting" -> 2
           [] pc[k] = "failed" -> 1 [] pc[k] = "ended" -> 0)

\* Every step a call makes uses one of the few it has: no loss, delay, refusal
\* or rival sends it back to where it has been (retry.py:25-32).
CallsWearOut ==
    [][\A k \in Call :
         <<pc[k], attempt[k]>>' # <<pc[k], attempt[k]>> => Left(k)' < Left(k)]_vars

\* One step of a call's own, or of Cloud's: the call keeps its place, or has
\* fewer steps left.
LEMMA WearStep ==
    ASSUME TypeOK, [Next]_vars, NEW k \in Call
    PROVE  <<pc[k], attempt[k]>>' # <<pc[k], attempt[k]>> => Left(k)' < Left(k)
  <1>. DEFINE Wears == <<pc[k], attempt[k]>>' # <<pc[k], attempt[k]>> => Left(k)' < Left(k)
  <1>1. /\ attempt[k] \in Nat /\ Attempts(k) \in Nat /\ Attempts(k)' = Attempts(k)
        /\ pc \in [Call -> {"idle", "waiting", "failed", "ended"}]
        /\ attempt \in [Call -> 0..4]
    BY AttemptsBound DEF TypeOK, Attempts
  <1>2. ASSUME NEW j \in Call, NEW p \in {"idle", "waiting", "failed", "ended"},
               NEW q \in {"idle", "waiting", "failed", "ended"},
               pc[j] = p, pc' = [pc EXCEPT ![j] = q],
               \/ attempt' = attempt
                  /\ <<p, q>> \in {<<"idle", "waiting">>, <<"waiting", "failed">>,
                                    <<"waiting", "ended">>, <<"failed", "ended">>}
               \/ attempt' = [attempt EXCEPT ![j] = @ + 1]
                  /\ <<p, q>> = <<"failed", "waiting">>
        PROVE  Wears
    <2>1. CASE k = j
      BY <1>1, <1>2, <2>1 DEF Left
    <2>2. CASE k # j
      BY <1>1, <1>2, <2>2
    <2>. QED  BY <2>1, <2>2
  <1>3. ASSUME NEW j \in Call, Calling(j) PROVE Wears
    BY <1>2, <1>3 DEF Calling, Start, ConnectFails, TimesOut, Retry, GiveUp, Receive
  <1>4. CASE UNCHANGED <<pc, attempt>>
    BY <1>4
  <1>. QED  BY <1>3, <1>4 DEF Next, ServeTicket, Serve, vars

\* No call goes on for ever by itself: of the 3 * Attempts(k) + 3 steps it has
\* at the start every one it makes takes one away.
THEOREM StepsRunOut == Spec => CallsWearOut
  <1>1. IInv /\ [Next]_vars =>
          [\A k \in Call :
             <<pc[k], attempt[k]>>' # <<pc[k], attempt[k]>> => Left(k)' < Left(k)]_vars
    BY WearStep DEF IInv
  <1>. QED  BY <1>1, Invariance, PTL DEF Spec, CallsWearOut

-----------------------------------------------------------------------------
(* Every call ends. What each state of a call enables is TLC's to check       *)
(* (NeverStuck); from there the argument is the prover's.                     *)

\* k is at a place of its attempt a.
At(k, place, a) == pc[k] = place /\ attempt[k] = a

\* The timer of the attempt k waits for, and the loop that resumes k.
CanGoOn(k) ==
    /\ pc[k] = "waiting" => ENABLED <<TimesOut(k)>>_vars
    /\ pc[k] = "failed" => ENABLED <<Retry(k) \/ GiveUp(k)>>_vars

\* What a behaviour with running timers is to one call.
Going(k) == [](TypeOK /\ CanGoOn(k)) /\ [][Next]_vars /\ Timers(k)

\* Attempt a fails, if it does not end the call; and after a failure there is
\* another attempt, if that is not the end.
AttemptFails(k, a) == At(k, "waiting", a) ~> At(k, "failed", a) \/ Ended(k)
AttemptFollows(k, a) ==
    At(k, "failed", a) ~> (a < 4 /\ At(k, "waiting", a + 1)) \/ Ended(k)

\* An attempt that waits is answered or fails.
LEMMA WaitEnds ==
    ASSUME NEW k \in Call, NEW a \in 0..4
    PROVE  Going(k) => AttemptFails(k, a)
  <1>1. TypeOK /\ At(k, "waiting", a) /\ [Next]_vars =>
          (At(k, "waiting", a) \/ At(k, "failed", a) \/ Ended(k))'
    <2>. SUFFICES ASSUME TypeOK, At(k, "waiting", a), [Next]_vars
                  PROVE  (At(k, "waiting", a) \/ At(k, "failed", a) \/ Ended(k))'
      OBVIOUS
    <2>. USE DEF TypeOK, At, Ended
    <2>1. ASSUME NEW j \in Call, Calling(j)
          PROVE  (At(k, "waiting", a) \/ At(k, "failed", a) \/ Ended(k))'
      BY <2>1 DEF Calling, Start, ConnectFails, TimesOut, Retry, GiveUp, Receive
    <2>2. CASE UNCHANGED <<pc, attempt>>
      BY <2>2
    <2>. QED  BY <2>1, <2>2 DEF Next, ServeTicket, Serve, vars
  <1>2. TypeOK /\ At(k, "waiting", a) /\ <<TimesOut(k)>>_vars => At(k, "failed", a)'
    BY DEF TypeOK, At, TimesOut
  <1>3. CanGoOn(k) /\ At(k, "waiting", a) => ENABLED <<TimesOut(k)>>_vars
    BY DEF CanGoOn, At
  <1>. QED  BY <1>1, <1>2, <1>3, PTL DEF Going, Timers, AttemptFails

\* A failed attempt is followed by another one, or the call gives up; the
\* fifth is the last of any method.
LEMMA FailureEnds ==
    ASSUME NEW k \in Call, NEW a \in 0..4
    PROVE  Going(k) => AttemptFollows(k, a)
  <1>. DEFINE Next1 == (a < 4 /\ At(k, "waiting", a + 1)) \/ Ended(k)
  <1>1. TypeOK /\ At(k, "failed", a) /\ [Next]_vars => At(k, "failed", a)' \/ Next1'
    <2>. SUFFICES ASSUME TypeOK, At(k, "failed", a), [Next]_vars
                  PROVE  At(k, "failed", a)' \/ Next1'
      OBVIOUS
    <2>. USE DEF TypeOK, At, Ended
    <2>1. ASSUME NEW j \in Call, Calling(j) PROVE At(k, "failed", a)' \/ Next1'
      BY <2>1, AttemptsBound
      DEF Calling, Start, ConnectFails, TimesOut, Retry, GiveUp, Receive, LastAttempt
    <2>2. CASE UNCHANGED <<pc, attempt>>
      BY <2>2
    <2>. QED  BY <2>1, <2>2 DEF Next, ServeTicket, Serve, vars
  <1>2. TypeOK /\ At(k, "failed", a) /\ <<Retry(k) \/ GiveUp(k)>>_vars => Next1'
    BY AttemptsBound DEF TypeOK, At, Ended, Retry, GiveUp, LastAttempt
  <1>3. CanGoOn(k) /\ At(k, "failed", a) => ENABLED <<Retry(k) \/ GiveUp(k)>>_vars
    BY DEF CanGoOn, At
  <1>. QED  BY <1>1, <1>2, <1>3, PTL DEF Going, Timers, AttemptFollows

\* From any attempt the call comes to its end.
LEMMA CallEnds ==
    ASSUME NEW k \in Call
    PROVE  Going(k) => (pc[k] = "waiting" ~> Ended(k))
  <1>1. Going(k) => /\ AttemptFails(k, 0) /\ AttemptFollows(k, 0)
                    /\ AttemptFails(k, 1) /\ AttemptFollows(k, 1)
                    /\ AttemptFails(k, 2) /\ AttemptFollows(k, 2)
                    /\ AttemptFails(k, 3) /\ AttemptFollows(k, 3)
                    /\ AttemptFails(k, 4) /\ AttemptFollows(k, 4)
    BY WaitEnds, FailureEnds
  <1>2. TypeOK /\ pc[k] = "waiting" =>
           \/ At(k, "waiting", 0) \/ At(k, "waiting", 1) \/ At(k, "waiting", 2)
           \/ At(k, "waiting", 3) \/ At(k, "waiting", 4)
    BY DEF TypeOK, At
  <1>3. /\ At(k, "waiting", 0 + 1) => At(k, "waiting", 1)
        /\ At(k, "waiting", 1 + 1) => At(k, "waiting", 2)
        /\ At(k, "waiting", 2 + 1) => At(k, "waiting", 3)
        /\ At(k, "waiting", 3 + 1) => At(k, "waiting", 4)
        /\ ~ (4 < 4)
    OBVIOUS
  <1>. QED  BY <1>1, <1>2, <1>3, PTL DEF Going, AttemptFails, AttemptFollows

\* Every call that is made comes to an end, in any number of calls of any
\* methods, if the timers run: what Cloud does is never assumed. The second
\* hypothesis is the invariant NeverStuck.
THEOREM EveryCallEnds == FairSpec /\ []NeverStuck => CallsEnd
  <1>. SUFFICES ASSUME NEW k \in Call
                PROVE  FairSpec /\ []NeverStuck => (pc[k] = "waiting" ~> Ended(k))
    BY DEF CallsEnd
  <1>1. NeverStuck => CanGoOn(k)
    BY DEF NeverStuck, CanGoOn
  <1>2. Fairness => Timers(k)
    BY DEF Fairness
  <1>3. FairSpec /\ []NeverStuck => Going(k)
    BY <1>1, <1>2, TypeCorrect, PTL DEF FairSpec, Spec, Going
  <1>. QED  BY <1>3, CallEnds
==============================================================================
