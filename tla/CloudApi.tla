------------------------------- MODULE CloudApi -------------------------------
(***************************************************************************)
(* SolisCloudApiClient: concurrent calls take turns under _request_lock.   *)
(* A call that needs a token logs in first, which is a request of its own; *)
(* a request without an answer is sent again, up to MAX_ATTEMPTS times,    *)
(* with the lock held; a control call whose token looks rejected logs in   *)
(* again and is sent once more.  The spacing of requests counts from the   *)
(* headers of a response, its body is read after.                          *)
(*                                                                         *)
(* A step is the code between two suspensions.                             *)
(***************************************************************************)
EXTENDS Naturals, Sequences, FiniteSets, SequencesExt

CONSTANTS
  Calls,        (* concurrent calls                                          *)
  Controls,     (* those that are control calls; the others read             *)
  MaxAttempts,  (* MAX_ATTEMPTS: 3                                           *)
  MaxCalls,     (* how many calls are made                                   *)
  MaxEvents,    (* how often something happens outside                       *)
  Nobody

ASSUME ApiAssumption ==
  /\ Controls \subseteq Calls /\ Nobody \notin Calls
  /\ {MaxAttempts, MaxCalls, MaxEvents} \subseteq Nat \ {0}

NoToken == 0

VARIABLES
  lock,       (* who holds _request_lock                                     *)
  queue,      (* who waits for it, first come first served                   *)
  token,      (* _token, numbered by the login that brought it               *)
  fresh,      (* the token is younger than TOKEN_LIFETIME                    *)
  slot,       (* MIN_REQUEST_SPACING has passed since _last_request_monotonic *)
  call,       (* call[c]: where a call stands                                *)
  issued,     (* logins the service has answered                             *)
  accepted,   (* tokens the service accepts                                  *)
  up,         (* the service answers                                         *)
  calls, events,
  quiet,      (* history: the spacing has passed since the last request was
                 answered, failed or was cancelled                           *)
  aborted     (* history: one was cancelled unanswered, and it has not passed *)

client == <<lock, queue, token, fresh, slot>>
outside == <<issued, accepted, up>>
vars == <<client, call, outside, calls, events, quiet, aborted>>

\* attempt counts the sends of a request; sent is the token it carries.  History:
\* login, the call had to log in; overtaken, a control called later has been
\* carried out meanwhile; trouble, the service withdrew a token or refused one
\* it had accepted since the call logged in again.
Idle == [pc |-> "idle", stage |-> "main", attempt |-> 0, sent |-> NoToken, again |-> FALSE,
         login |-> FALSE, earlier |-> {}, overtaken |-> FALSE, trouble |-> FALSE]

Init ==
  /\ lock = Nobody /\ queue = <<>>
  /\ token = NoToken /\ fresh = FALSE /\ slot = TRUE
  /\ call = [c \in Calls |-> Idle]
  /\ issued = 0 /\ accepted = {} /\ up = TRUE
  /\ calls = 0 /\ events = 0 /\ quiet = TRUE /\ aborted = FALSE

Event == events < MaxEvents /\ events' = events + 1

Busy(c) == call[c].pc # "idle"
Expired == token = NoToken \/ ~fresh

-----------------------------------------------------------------------------
(* A call queues for a request, and ends.                                  *)

\* async_ensure_token: a login comes first when the token is missing or expired.
Entering(rec, expired) ==
  [rec EXCEPT !.pc = "queued", !.stage = IF expired THEN "login" ELSE "main",
              !.attempt = 0, !.login = @ \/ expired]

Starts(c) ==
  /\ ~Busy(c) /\ calls < MaxCalls /\ calls' = calls + 1
  /\ call' = [call EXCEPT ![c] =
       Entering([Idle EXCEPT !.earlier = {d \in Controls : Busy(d)}], Expired)]
  /\ queue' = Append(queue, c)
  /\ UNCHANGED <<lock, token, fresh, slot, outside, events, quiet, aborted>>

TakesLock(c) ==
  /\ lock = Nobody /\ queue # <<>> /\ c = Head(queue)
  /\ lock' = c /\ queue' = Tail(queue)
  /\ call' = [call EXCEPT ![c].pc = "slot"]
  /\ UNCHANGED <<token, fresh, slot, outside, calls, events, quiet, aborted>>

\* A call ends; the others, as they are in recs, forget it.
Without(c, recs) ==
  [d \in Calls |-> IF d = c THEN Idle ELSE [recs[d] EXCEPT !.earlier = @ \ {c}]]

Returns(c, recs) == lock' = Nobody /\ call' = Without(c, recs) /\ UNCHANGED queue

\* Mutant of SetsTime: a failure does not set it.
AnswerSetsTime == slot' = (slot /\ ~up) /\ quiet' = FALSE

\* The headers of a response, and a failure, set the time of the last request.
SetsTime == slot' = FALSE /\ quiet' = FALSE

\* The token is read when the request is sent.
Sends(c) ==
  /\ call[c].pc = "slot" /\ lock = c /\ slot
  /\ call' = [call EXCEPT ![c].pc = "flight", ![c].attempt = @ + 1,
                          ![c].sent = IF call[c].stage = "login" THEN NoToken ELSE token]
  /\ UNCHANGED <<client, outside, calls, events, quiet, aborted>>

-----------------------------------------------------------------------------
(* Answers: the headers, and the body read with the lock held.             *)

UnderWay(c) == call[c].pc \in {"flight", "body"}
InBody(c, stage) == call[c].pc = "body" /\ call[c].stage = stage
TokenAccepted(c) == call[c].sent \in accepted

Headers(c) ==
  /\ call[c].pc = "flight" /\ up
  /\ call' = [call EXCEPT ![c].pc = "body"]
  /\ SetsTime
  /\ UNCHANGED <<lock, queue, token, fresh, outside, calls, events, aborted>>

\* The service may keep older tokens or accept the newest one only.
LoggedIn(c) ==
  /\ InBody(c, "login") /\ up
  /\ issued' = issued + 1
  /\ accepted' \in {{issued'}, accepted \union {issued'}}
  /\ token' = issued' /\ fresh' = TRUE
  /\ lock' = Nobody /\ queue' = Append(queue, c)
  /\ call' = [call EXCEPT ![c] = Entering(@, FALSE)]
  /\ UNCHANGED <<slot, up, calls, events, quiet, aborted>>

ReadAnswered(c) ==
  /\ InBody(c, "main") /\ c \notin Controls /\ up
  /\ Returns(c, call)
  /\ UNCHANGED <<token, fresh, slot, outside, calls, events, quiet, aborted>>

\* Carried out: controls called before it that are still under way are overtaken.
CarriedOut(c) ==
  [d \in Calls |-> [call[d] EXCEPT !.overtaken = @ \/ d \in call[c].earlier]]

ControlAccepted(c) ==
  /\ InBody(c, "main") /\ c \in Controls /\ up /\ TokenAccepted(c)
  /\ Returns(c, CarriedOut(c))
  /\ UNCHANGED <<token, fresh, slot, outside, calls, events, quiet, aborted>>

\* Mutant of DropsToken: the call is sent again with the token it has.
KeepsToken == UNCHANGED <<token, fresh>>

DropsToken == token' = NoToken /\ fresh' = FALSE

\* A message that looks like a rejected token: the token is dropped, and the call
\* logs in again unless it has already.  The service says so of tokens it does not
\* accept, and now and then of one it does.
TokenRefused(c) ==
  /\ InBody(c, "main") /\ c \in Controls /\ up
  /\ IF TokenAccepted(c) THEN Event ELSE UNCHANGED events
  /\ LET marked == [d \in Calls |-> [call[d] EXCEPT !.trouble = @ \/ (Busy(d) /\ TokenAccepted(c))]]
     IN IF call[c].again
        THEN /\ call' = Without(c, marked) /\ UNCHANGED <<queue, token, fresh>>
        ELSE /\ DropsToken
             /\ queue' = Append(queue, c)
             /\ call' = [marked EXCEPT ![c] =
                  Entering([@ EXCEPT !.again = TRUE, !.trouble = FALSE], Expired')]
  /\ lock' = Nobody
  /\ UNCHANGED <<slot, outside, calls, quiet, aborted>>

MayBeCarriedOut(c) ==
  up /\ UnderWay(c) /\ call[c].stage = "main" /\ c \in Controls /\ TokenAccepted(c)

\* A 4xx status ends the call, and so does a body with an API error code, with
\* another failure message or that is not JSON, which says nothing of a control.
Refused(c) ==
  /\ up /\ Event
  /\ \/ call[c].pc = "flight" /\ Returns(c, call) /\ SetsTime
     \/ /\ call[c].pc = "body" /\ UNCHANGED <<slot, quiet>>
        /\ \/ Returns(c, call)
           \/ MayBeCarriedOut(c) /\ Returns(c, CarriedOut(c))
  /\ UNCHANGED <<token, fresh, outside, calls, aborted>>

\* Mutant of SentAgain: however often it takes.
SentAgainForever(c, seen) ==
  call' = [seen EXCEPT ![c].pc = "backoff", ![c].attempt = 0] /\ UNCHANGED <<lock, queue>>

\* Mutant of SentAgain: the lock is free during the pause.
SentAgainOutOfLock(c, seen) ==
  /\ lock' = Nobody
  /\ IF call[c].attempt < MaxAttempts
     THEN call' = [seen EXCEPT ![c].pc = "queued"] /\ queue' = Append(queue, c)
     ELSE call' = Without(c, seen) /\ UNCHANGED queue

\* The call pauses, or gives up after its last attempt.
SentAgain(c, seen) ==
  IF call[c].attempt < MaxAttempts
  THEN call' = [seen EXCEPT ![c].pc = "backoff"] /\ UNCHANGED <<lock, queue>>
  ELSE Returns(c, seen)

\* A timeout or a transport failure before the headers or in the body, a 5xx, 408
\* or 429 status: the request is sent again after a pause.  A control may have been
\* carried out all the same.
Unanswered(c) ==
  /\ UnderWay(c)
  /\ IF up THEN Event ELSE UNCHANGED events
  /\ \/ SentAgain(c, call)
     \/ MayBeCarriedOut(c) /\ SentAgain(c, CarriedOut(c))
  /\ SetsTime
  /\ UNCHANGED <<token, fresh, outside, calls, aborted>>

\* The pause may be shorter than the spacing: Retry-After of a 429 status sets it.
PauseOver(c) ==
  /\ call[c].pc = "backoff"
  /\ call' = [call EXCEPT ![c].pc = "slot"]
  /\ UNCHANGED <<client, outside, calls, events, quiet, aborted>>

LeavesQueue(c) ==
  IF call[c].pc = "queued"
  THEN \E i \in DOMAIN queue : queue[i] = c /\ queue' = RemoveAt(queue, i)
  ELSE UNCHANGED queue

\* A verify task is cancelled at unload: it leaves the queue or releases the lock,
\* and the time of the last request stays what it was.
Cancelled(c) ==
  /\ Busy(c) /\ c \notin Controls /\ Event
  /\ LeavesQueue(c)
  /\ lock' = IF lock = c THEN Nobody ELSE lock
  /\ call' = Without(c, call)
  /\ quiet' = (quiet /\ call[c].pc # "flight")
  /\ aborted' = (aborted \/ call[c].pc = "flight")
  /\ UNCHANGED <<token, fresh, slot, outside, calls>>

-----------------------------------------------------------------------------
(* Time and the service.                                                   *)

SpacingOver ==
  /\ ~quiet \/ ~slot
  /\ slot' = TRUE /\ quiet' = TRUE /\ aborted' = FALSE
  /\ UNCHANGED <<lock, queue, token, fresh, call, outside, calls, events>>

TokenExpires ==
  /\ fresh /\ fresh' = FALSE /\ Event
  /\ UNCHANGED <<lock, queue, token, slot, call, outside, calls, quiet, aborted>>

TokensWithdrawn ==
  /\ accepted # {} /\ accepted' = {} /\ Event
  /\ call' = [c \in Calls |-> [call[c] EXCEPT !.trouble = Busy(c)]]
  /\ UNCHANGED <<client, issued, up, calls, quiet, aborted>>

ServiceFails ==
  /\ up /\ up' = FALSE /\ Event
  /\ UNCHANGED <<client, call, issued, accepted, calls, quiet, aborted>>

ServiceBack ==
  /\ ~up /\ up' = TRUE
  /\ UNCHANGED <<client, call, issued, accepted, calls, events, quiet, aborted>>

Next ==
  \/ \E c \in Calls :
       \/ Starts(c) \/ TakesLock(c) \/ Sends(c) \/ Headers(c)
       \/ LoggedIn(c) \/ ReadAnswered(c) \/ ControlAccepted(c)
       \/ TokenRefused(c) \/ Refused(c) \/ Unanswered(c) \/ PauseOver(c) \/ Cancelled(c)
  \/ SpacingOver \/ TokenExpires \/ TokensWithdrawn \/ ServiceFails \/ ServiceBack

Spec == Init /\ [][Next]_vars

\* Requests are sent when the lock and the spacing allow it and end, if only by the
\* timeout of aiohttp; pauses and the spacing end.  A service that is down may stay so.
Ends(c) ==
  \/ Headers(c) \/ LoggedIn(c) \/ ReadAnswered(c) \/ ControlAccepted(c)
  \/ TokenRefused(c) \/ Unanswered(c)

Fairness ==
  /\ WF_vars(SpacingOver)
  /\ \A c \in Calls :
       WF_vars(TakesLock(c)) /\ WF_vars(Sends(c)) /\ WF_vars(PauseOver(c)) /\ WF_vars(Ends(c))

FairSpec == Spec /\ Fairness

-----------------------------------------------------------------------------

\* Requests of all calls come one at a time, none before the body of the previous
\* response has been read, and a second or more after the headers of that response
\* came or the request failed, in whatever way, unless it was cancelled before the
\* headers: then the time of the last request is not set.  The time it takes to
\* read the body counts, so the next request may follow it at once.
SpacedUnlessCancelled ==
  [][\A c \in Calls :
       call[c].pc # "flight" /\ call'[c].pc = "flight" =>
         /\ \A d \in Calls : ~UnderWay(d)
         /\ quiet \/ aborted]_vars

\* A control is not overtaken by one that was called later, although it may be
\* sent several times, unless it had to log in.
CallOrderKept == \A c \in Calls : call[c].overtaken => call[c].login

\* The request that follows a second login carries a token the service accepts,
\* unless the service has withdrawn or refused one since, although other calls log
\* in and drop tokens meanwhile.
SecondLoginHelps ==
  \A c \in Calls :
    UnderWay(c) /\ call[c].stage = "main" /\ call[c].again /\ ~call[c].trouble
      => TokenAccepted(c)

\* Every call ends, also while the service does not answer.
EveryCallEnds == \A c \in Calls : Busy(c) ~> ~Busy(c)
=============================================================================
