----------------------------- MODULE CloudCalls -----------------------------
(***************************************************************************)
(* The agent's HTTP calls to Cloud (clients/cloud_client.py), each under   *)
(* call_with_retry (clients/retry.py), and what local_api/service.py makes *)
(* of their outcome for the workload that asked. Any number of calls run   *)
(* at once on the event loop. The network loses and delays: a request may  *)
(* be served after its caller has timed out, its answer may never arrive.  *)
(* Cloud is external; of its state only the single-use terminal ticket is  *)
(* kept, which all calls that consume one compete for.                     *)
(***************************************************************************)
EXTENDS Naturals, FiniteSets

CONSTANTS
    Call,        \* the calls made
    NoCall,      \* taker's value while the ticket is unused
    MethodOf     \* MethodOf[k]: the CloudClient method k calls

\* They answer with something harmless when Cloud does not, ...
Defaulting ==
    {"request_hibernate", "consume_terminal_ticket", "get_save_status",
     "get_tunnel_generation", "report_command_result"}

\* ... and these raise CloudClientError, for want of anything harmless.
Raising ==
    {"get_active_container_ids", "reconcile_device_resources",
     "get_idle_containers", "allocate_snapshot", "report_snapshot_result",
     "get_container", "update_container_kubernetes_id"}

\* These look at the status code of the answer only.
BodyIgnored ==
    {"report_command_result", "reconcile_device_resources",
     "report_snapshot_result", "update_container_kubernetes_id"}

Consumes(k) == MethodOf[k] = "consume_terminal_ticket"

ASSUME CallAssumption ==
    /\ NoCall \notin Call
    /\ MethodOf \in [Call -> Defaulting \cup Raising]

\* 2xx; 404; another status; 2xx with a body that does not parse.
Answer == {"accepted", "missing", "rejected", "garbled"}

\* httpx.ConnectError and ConnectTimeout; any other transport error.
Failure == {"connect", "transport"}

VARIABLES
    pc,          \* pc[k]: "idle", "waiting", "failed" or "ended"
    attempt,     \* attempt[k]: call_with_retry's attempt
    verdict,     \* verdict[k]: the answer or failure k came to last
    requests,    \* <<k, n>>: the n-th request of k, on its way to Cloud
    answers,     \* <<k, n, a>>: the answer to it, on its way back
    taker        \* history: the call for which Cloud used up the ticket

vars == <<pc, attempt, verdict, requests, answers, taker>>

Attempts(k) ==
    CASE MethodOf[k] \in {"get_save_status", "get_tunnel_generation"} -> 1
      [] MethodOf[k] \in {"report_command_result", "report_snapshot_result"} -> 5
      [] OTHER -> 3

TypeOK ==
    /\ pc \in [Call -> {"idle", "waiting", "failed", "ended"}]
    /\ attempt \in [Call -> 0..4]
    /\ \A k \in Call : attempt[k] < Attempts(k)
    /\ verdict \in [Call -> {"none"} \cup Answer \cup Failure]
    /\ requests \subseteq Call \X (0..4)
    /\ answers \subseteq Call \X (0..4) \X Answer
    /\ taker \in Call \cup {NoCall}

Init ==
    /\ pc = [k \in Call |-> "idle"]
    /\ attempt = [k \in Call |-> 0]
    /\ verdict = [k \in Call |-> "none"]
    /\ requests = {}
    /\ answers = {}
    /\ taker = NoCall

-----------------------------------------------------------------------------
(* call_with_retry *)

Start(k) ==
    /\ pc[k] = "idle"
    /\ pc' = [pc EXCEPT ![k] = "waiting"]
    /\ requests' = requests \cup {<<k, 0>>}
    /\ UNCHANGED <<attempt, verdict, answers, taker>>

\* The request has not left: no connection.
ConnectFails(k) ==
    /\ pc[k] = "waiting"
    /\ <<k, attempt[k]>> \in requests
    /\ requests' = requests \ {<<k, attempt[k]>>}
    /\ pc' = [pc EXCEPT ![k] = "failed"]
    /\ verdict' = [verdict EXCEPT ![k] = "connect"]
    /\ UNCHANGED <<attempt, answers, taker>>

\* Mutant: the timeout is one of connecting only, and the answer is waited for.
TimesOutConnecting(k) ==
    /\ pc[k] = "waiting"
    /\ <<k, attempt[k]>> \in requests
    /\ pc' = [pc EXCEPT ![k] = "failed"]
    /\ verdict' = [verdict EXCEPT ![k] = "transport"]
    /\ answers' = {x \in answers : x[1] # k}
    /\ UNCHANGED <<attempt, requests, taker>>

\* Nobody waits for an answer to this attempt any longer: the client's timeout
\* has passed, or the connection is gone.
TimesOut(k) ==
    /\ pc[k] = "waiting"
    /\ pc' = [pc EXCEPT ![k] = "failed"]
    /\ verdict' = [verdict EXCEPT ![k] = "transport"]
    /\ answers' = {x \in answers : x[1] # k}
    /\ UNCHANGED <<attempt, requests, taker>>

\* Mutant: a ticket's request is retried like the idempotent ones.
RetryableAlike(k) == verdict[k] \in {"connect", "transport"}

Retryable(k) ==
    IF Consumes(k) THEN verdict[k] = "connect"
    ELSE verdict[k] \in {"connect", "transport"}

LastAttempt(k) == attempt[k] = Attempts(k) - 1

\* Mutant: one attempt too many.
RetryOnceMore(k) ==
    /\ pc[k] = "failed"
    /\ Retryable(k) /\ attempt[k] < Attempts(k)
    /\ attempt' = [attempt EXCEPT ![k] = @ + 1]
    /\ pc' = [pc EXCEPT ![k] = "waiting"]
    /\ requests' = requests \cup {<<k, attempt[k] + 1>>}
    /\ UNCHANGED <<verdict, answers, taker>>

Retry(k) ==
    /\ pc[k] = "failed"
    /\ Retryable(k) /\ ~ LastAttempt(k)
    /\ attempt' = [attempt EXCEPT ![k] = @ + 1]
    /\ pc' = [pc EXCEPT ![k] = "waiting"]
    /\ requests' = requests \cup {<<k, attempt[k] + 1>>}
    /\ UNCHANGED <<verdict, answers, taker>>

GiveUp(k) ==
    /\ pc[k] = "failed"
    /\ ~ Retryable(k) \/ LastAttempt(k)
    /\ pc' = [pc EXCEPT ![k] = "ended"]
    /\ UNCHANGED <<attempt, verdict, requests, answers, taker>>

Receive(k) ==
    /\ pc[k] = "waiting"
    /\ \E a \in Answer :
          /\ <<k, attempt[k], a>> \in answers
          /\ answers' = answers \ {<<k, attempt[k], a>>}
          /\ verdict' = [verdict EXCEPT ![k] = a]
    /\ pc' = [pc EXCEPT ![k] = "ended"]
    /\ UNCHANGED <<attempt, requests, taker>>

-----------------------------------------------------------------------------
(* Cloud, at whatever time the request gets there *)

\* Cloud's answer to an attempt that nobody waits for any longer finds its
\* connection gone.
AnswerTo(k, n, a) ==
    answers' = IF pc[k] = "waiting" /\ n = attempt[k]
               THEN answers \cup {<<k, n, a>>} ELSE answers

\* A ticket is granted once, and may be refused for reasons of its own.
ServeTicket(k, n) ==
    /\ Consumes(k)
    /\ <<k, n>> \in requests
    /\ requests' = requests \ {<<k, n>>}
    /\ \/ /\ taker = NoCall
          /\ taker' = k
          /\ \E a \in {"accepted", "garbled"} : AnswerTo(k, n, a)
       \/ /\ AnswerTo(k, n, "rejected")
          /\ UNCHANGED taker
    /\ UNCHANGED <<pc, attempt, verdict>>

Serve(k, n) ==
    /\ ~ Consumes(k)
    /\ <<k, n>> \in requests
    /\ requests' = requests \ {<<k, n>>}
    /\ \E a \in Answer : AnswerTo(k, n, a)
    /\ UNCHANGED <<pc, attempt, verdict, taker>>

-----------------------------------------------------------------------------
(* What the caller is told *)

Unparsable(k) == verdict[k] = "garbled" /\ MethodOf[k] \notin BodyIgnored

\* Mutant: the status code of the answer is not looked at.
ReturnsAnyAnswer(k) == verdict[k] \in Answer /\ ~ Unparsable(k)

ReturnsAnswer(k) ==
    \/ verdict[k] = "accepted"
    \/ verdict[k] = "missing" /\ MethodOf[k] = "get_container"
    \/ verdict[k] = "garbled" /\ MethodOf[k] \in BodyIgnored

\* Mutant: no failure reaches the caller (a safe default for every method).
AlwaysReplies(k) == ~ Unparsable(k)

\* Whether the RPC of local_api/service.py returns a message at all, and not
\* UNAVAILABLE (CloudClientError) or an unhandled exception's UNKNOWN.
Replies(k) ==
    ReturnsAnswer(k) \/ (MethodOf[k] \in Defaulting /\ ~ Unparsable(k))

Ended(k) == pc[k] = "ended"

-----------------------------------------------------------------------------

Calling(k) ==
    Start(k) \/ ConnectFails(k) \/ TimesOut(k) \/ Retry(k) \/ GiveUp(k) \/ Receive(k)

Next == \E k \in Call :
    Calling(k) \/ \E n \in 0..4 : ServeTicket(k, n) \/ Serve(k, n)

Spec == Init /\ [][Next]_vars

\* Timers run out and the event loop resumes whoever slept. Cloud need not
\* serve a request, nor its answer arrive.
Timers(k) == WF_vars(TimesOut(k)) /\ WF_vars(Retry(k) \/ GiveUp(k))

Fairness == \A k \in Call : Timers(k)

FairSpec == Spec /\ Fairness

-----------------------------------------------------------------------------
(* Properties *)

\* No call is refused a ticket that it has itself used up: retries, late
\* requests and rival calls included (cloud_client.py:46-51).
NeverBeatenByItself ==
    \A k \in Call : Consumes(k) /\ verdict[k] = "rejected" => taker # k

\* Whoever is handed a terminal's target is the one Cloud used the ticket
\* for: never two, and never on an error's answer (cloud_client.py:109-113).
TargetGoesToTaker ==
    \A k \in Call : Ended(k) /\ Consumes(k) /\ ReturnsAnswer(k) => taker = k

\* A method for which no default is harmless never lets its RPC reply unless
\* Cloud answered it: an unreachable Cloud is not "no active containers"
\* (cloud_client.py:14-21).
NothingInvented ==
    \A k \in Call :
        Ended(k) /\ MethodOf[k] \in Raising /\ Replies(k)
            => verdict[k] \in Answer \ {"rejected"}

\* No call is ever stuck: one that waits can be timed out, whatever has become
\* of its request, and one that failed makes another attempt or gives up
\* (cloud_client.py:57-59, retry.py:29).
NeverStuck ==
    \A k \in Call :
        /\ pc[k] = "waiting" => ENABLED <<TimesOut(k)>>_vars
        /\ pc[k] = "failed" => ENABLED <<Retry(k) \/ GiveUp(k)>>_vars

\* Every call that is made comes to an end, whatever Cloud and the network do
\* with its requests: neither the workload whose RPC waits for it nor the read
\* loop that reports through it waits for ever (cloud_client.py:57-59, retry.py:29).
CallsEnd == \A k \in Call : pc[k] = "waiting" ~> Ended(k)
==============================================================================
