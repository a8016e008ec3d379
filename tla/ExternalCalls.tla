---------------------------- MODULE ExternalCalls ----------------------------
(***************************************************************************)
(* Calls to the mail and the storage service: ResendMailer and R2Storage   *)
(* put a circuit breaker around retries around a timeout.  Their callers:  *)
(* a mail (forgot-password, the mail health check), an avatar upload with  *)
(* its row, and the storage health check, which uploads and deletes.       *)
(*                                                                         *)
(* The breaker is cockatiel's, the services are outside: a call may be     *)
(* answered, be rejected though it was performed, or be given up by the    *)
(* timeout and be performed later.                                         *)
(***************************************************************************)
EXTENDS Naturals

CONSTANTS
    Requests,
    NoRequest,
    Mixes,      \* what requests may be for, together
    Retries,    \* EMAIL_RETRY_ATTEMPTS, STORAGE_RETRY_ATTEMPTS
    Threshold   \* of ConsecutiveBreaker

Kinds == {"mail", "avatar", "health"}

ASSUME CallsAssumption ==
    /\ NoRequest \notin Requests
    /\ Mixes \subseteq [Requests -> Kinds]
    /\ Retries \in Nat \ {0} /\ Threshold \in Nat \ {0}

Services == {"email", "storage"}
Ops      == {"send", "put", "delete"}

VARIABLES
    breaker,  \* breaker[s]: the circuit breaker of service s
    pc,       \* pc[r]: where r stands
    kind,     \* kind[r]: what r is for
    op,       \* op[r]: the call r makes, or made last
    attempt,  \* attempt[r]: attempts of that call, 0 if it was not admitted
    trial,    \* trial[r]: the call tests a half-open breaker
    waitsFor, \* waitsFor[r]: the request whose test r waits for
    late,     \* late[r][o]: calls of r that timed out and are on their way
    held,     \* what the services hold: objects by key, mails by request
    avatars   \* rows of the avatars table, by their url

vars == <<breaker, pc, kind, op, attempt, trial, waitsFor, late, held, avatars>>

Breaker == [state : {"closed", "open", "halfOpen"},
            count : 0..Threshold,  \* failures in a row; more are as many
            cooled : BOOLEAN,      \* open since halfOpenAfter
            tester : Requests \union {NoRequest}]  \* whose test is awaited

Running == {"trying", "backoff"}
Settled == {"done", "failed", "refused"}

ServiceOf(r) == IF op[r] = "send" THEN "email" ELSE "storage"

\* An upload draws its randomUUID once, before the first attempt: the object is
\* known by its request, as a mail is.
Key(r) == r

Init == /\ breaker = [s \in Services |->
                         [state |-> "closed", count |-> 0, cooled |-> FALSE,
                          tester |-> NoRequest]]
        /\ pc = [r \in Requests |-> "idle"]
        /\ kind \in Mixes
        /\ op = [r \in Requests |-> IF kind[r] = "mail" THEN "send" ELSE "put"]
        /\ attempt = [r \in Requests |-> 0]
        /\ trial = [r \in Requests |-> FALSE]
        /\ waitsFor = [r \in Requests |-> NoRequest]
        /\ late = [r \in Requests |-> [o \in Ops |-> 0]]
        /\ held = {} /\ avatars = {}

Goto(r, label) == pc' = [pc EXCEPT ![r] = label]

\* What performing call o of r does to the services.
Performed(r, o) == IF o = "delete" THEN held \ {Key(r)} ELSE held \union {Key(r)}

-----------------------------------------------------------------------------
(* The circuit breaker *)

\* Mutant of Wake: nobody is woken.
WakeNobody(r, label) == Goto(r, label)

\* Those that waited for the test of r run execute again.
Wake(r, label) ==
    pc' = [q \in Requests |->
              CASE q = r -> label
                [] q # r /\ pc[q] = "waiting" /\ waitsFor[q] = r -> "execute"
                [] OTHER -> pc[q]]

\* breaker.success resets the count, close acts on a half-open breaker only.
OnSuccess(b, tested) ==
    [b EXCEPT !.count = 0,
              !.state = IF tested /\ b.state = "halfOpen" THEN "closed" ELSE @]

\* A failed test opens the breaker, another call does at the threshold; open
\* leaves an open breaker's clock alone.
OnFailure(b, tested) ==
    LET count == IF b.count < Threshold THEN b.count + 1 ELSE Threshold IN
    IF (tested \/ count = Threshold) /\ b.state # "open"
    THEN [b EXCEPT !.state = "open", !.count = count, !.cooled = FALSE]
    ELSE [b EXCEPT !.count = count]

-----------------------------------------------------------------------------
(* What the callers do when the call is over *)

\* The health check deletes what it uploaded, the upload's row is next.
AfterSuccess(r) == CASE op[r] = "put" /\ kind[r] = "avatar" -> "insert"
                     [] op[r] = "put" /\ kind[r] = "health" -> "execute"
                     [] OTHER -> "done"

\* Mutant of AfterFailure: a failed upload gets its row.
AfterFailureWithRow(r, label) ==
    CASE kind[r] = "health" -> "done"
      [] kind[r] = "avatar" -> "insert"
      [] OTHER              -> label

\* The health check reports, the others throw.
AfterFailure(r, label) == IF kind[r] = "health" THEN "done" ELSE label

Succeed(r) ==
    /\ breaker' = [breaker EXCEPT ![ServiceOf(r)] = OnSuccess(@, trial[r])]
    /\ Wake(r, AfterSuccess(r))
    /\ op' = [op EXCEPT ![r] =
          IF @ = "put" /\ kind[r] = "health" THEN "delete" ELSE @]
    /\ trial' = [trial EXCEPT ![r] = FALSE]
    /\ UNCHANGED <<kind, attempt, waitsFor, avatars>>

\* Mutant of AttemptFails: attempt <= retries.
AttemptFailsOnceMore(r) ==
    /\ \/ /\ attempt[r] <= Retries
          /\ Goto(r, "backoff")
          /\ UNCHANGED <<breaker, trial>>
       \/ /\ attempt[r] = Retries + 1
          /\ breaker' = [breaker EXCEPT ![ServiceOf(r)] = OnFailure(@, trial[r])]
          /\ Wake(r, AfterFailure(r, "failed"))
          /\ trial' = [trial EXCEPT ![r] = FALSE]
    /\ UNCHANGED <<kind, op, attempt, waitsFor, avatars>>

\* retryWithBackoff: the last error is thrown, the others are waited out.
AttemptFails(r) ==
    /\ \/ /\ attempt[r] < Retries
          /\ Goto(r, "backoff")
          /\ UNCHANGED <<breaker, trial>>
       \/ /\ attempt[r] = Retries
          /\ breaker' = [breaker EXCEPT ![ServiceOf(r)] = OnFailure(@, trial[r])]
          /\ Wake(r, AfterFailure(r, "failed"))
          /\ trial' = [trial EXCEPT ![r] = FALSE]
    /\ UNCHANGED <<kind, op, attempt, waitsFor, avatars>>

-----------------------------------------------------------------------------
\* An upload that is not an image is refused before anything is called.
Arrive(r) ==
    /\ pc[r] = "idle"
    /\ \/ Goto(r, "execute")
       \/ kind[r] = "avatar" /\ Goto(r, "refused")
    /\ UNCHANGED <<breaker, kind, op, attempt, trial, waitsFor, late, held,
                   avatars>>

\* The first attempt starts within execute.
Admit(r, tests) ==
    /\ Goto(r, "trying")
    /\ attempt' = [attempt EXCEPT ![r] = 1]
    /\ trial' = [trial EXCEPT ![r] = tests]

\* breaker.execute, by the state the breaker is in.
Execute(r) ==
    LET s == ServiceOf(r) IN
    /\ pc[r] = "execute"
    /\ \/ /\ breaker[s].state = "closed"
          /\ Admit(r, FALSE)
          /\ UNCHANGED <<breaker, waitsFor>>
       \/ /\ breaker[s].state = "open" /\ breaker[s].cooled
          /\ Admit(r, TRUE)
          /\ breaker' = [breaker EXCEPT ![s].state = "halfOpen", ![s].tester = r]
          /\ UNCHANGED waitsFor
       \/ /\ breaker[s].state = "halfOpen"
          /\ waitsFor' = [waitsFor EXCEPT ![r] = breaker[s].tester]
          /\ Goto(r, "waiting")
          /\ UNCHANGED <<breaker, attempt, trial>>
       \/ /\ breaker[s].state = "open" /\ ~breaker[s].cooled
          /\ Goto(r, AfterFailure(r, "refused"))
          /\ attempt' = [attempt EXCEPT ![r] = 0]
          /\ UNCHANGED <<breaker, trial, waitsFor>>
    /\ UNCHANGED <<kind, op, late, held, avatars>>

CoolDown(s) ==
    /\ breaker[s].state = "open" /\ ~breaker[s].cooled
    /\ breaker' = [breaker EXCEPT ![s].cooled = TRUE]
    /\ UNCHANGED <<pc, kind, op, attempt, trial, waitsFor, late, held, avatars>>

-----------------------------------------------------------------------------
(* One attempt: the client's call raced by its timeout *)

\* The service performs the call and answers in time.
Answer(r) ==
    /\ pc[r] = "trying"
    /\ held' = Performed(r, op[r])
    /\ Succeed(r)
    /\ UNCHANGED late

\* emails.send resolves with an error in its result, which send ignores: the
\* mail counts as sent.
AnswerWithError(r) ==
    /\ pc[r] = "trying" /\ op[r] = "send"
    /\ Succeed(r)
    /\ UNCHANGED <<held, late>>

Reject(r) ==
    /\ pc[r] = "trying"
    /\ held' \in {held, Performed(r, op[r])}
    /\ AttemptFails(r)
    /\ UNCHANGED late

\* Mutant of Timeout: the promise is not raced.
NoTimeout(r) == FALSE

\* The race is lost, the call goes on.
Timeout(r) ==
    /\ pc[r] = "trying"
    /\ late' = [late EXCEPT ![r][op[r]] = @ + 1]
    /\ AttemptFails(r)
    /\ UNCHANGED held

Land(r, o) ==
    /\ late[r][o] > 0
    /\ late' = [late EXCEPT ![r][o] = @ - 1]
    /\ held' \in {held, Performed(r, o)}
    /\ UNCHANGED <<breaker, pc, kind, op, attempt, trial, waitsFor, avatars>>

RetryAfterBackoff(r) ==
    /\ pc[r] = "backoff"
    /\ Goto(r, "trying")
    /\ attempt' = [attempt EXCEPT ![r] = @ + 1]
    /\ UNCHANGED <<breaker, kind, op, trial, waitsFor, late, held, avatars>>

\* avatarRepository.create, of the url upload returned.
InsertAvatar(r) ==
    /\ pc[r] = "insert"
    /\ \/ avatars' = avatars \union {Key(r)} /\ Goto(r, "done")
       \/ avatars' \in {avatars, avatars \union {Key(r)}} /\ Goto(r, "failed")
    /\ UNCHANGED <<breaker, kind, op, attempt, trial, waitsFor, late, held>>

Next == \/ \E r \in Requests :
              \/ Arrive(r) \/ Execute(r) \/ RetryAfterBackoff(r)
              \/ Answer(r) \/ AnswerWithError(r) \/ Reject(r) \/ Timeout(r)
              \/ InsertAvatar(r)
              \/ \E o \in Ops : Land(r, o)
        \/ \E s \in Services : CoolDown(s)

Spec == Init /\ [][Next]_vars

\* The event loop runs what it can, timers fire, the database answers.
\* Nothing is assumed of the services or of those who send requests.
FairSpec ==
    /\ Spec
    /\ \A r \in Requests : /\ WF_vars(Execute(r))
                           /\ WF_vars(Timeout(r))
                           /\ WF_vars(RetryAfterBackoff(r))
                           /\ WF_vars(InsertAvatar(r))

-----------------------------------------------------------------------------
TypeOK ==
    /\ breaker \in [Services -> Breaker]
    /\ pc \in [Requests ->
                  Running \union Settled \union {"idle", "execute", "waiting", "insert"}]
    /\ kind \in [Requests -> Kinds]
    /\ op \in [Requests -> Ops]
    /\ attempt \in [Requests -> 0..Retries]
    /\ trial \in [Requests -> BOOLEAN]
    /\ waitsFor \in [Requests -> Requests \union {NoRequest}]
    /\ late \in [Requests -> [Ops -> 0..Retries]]
    /\ held \subseteq Requests /\ avatars \subseteq Requests

\* Threshold calls that fail in a row open the breaker, also when calls that
\* were admitted earlier end while it is open or being tested.
ClosedBelowThreshold ==
    \A s \in Services : breaker[s].state = "closed" => breaker[s].count < Threshold

\* Nobody waits for a test that is over: whoever waits will be woken.
WaitersHaveATest ==
    \A r \in Requests : pc[r] = "waiting" =>
       /\ trial[waitsFor[r]] /\ pc[waitsFor[r]] \in Running
       /\ ServiceOf(waitsFor[r]) = ServiceOf(r)

\* A row of the avatars table names an object that is stored, whatever became
\* of attempts that timed out, and of the deletions of health checks.
AvatarsAreStored == avatars \subseteq held

\* Every request settles, though the services may never answer: those that
\* wait for a test too.
CallsSettle == \A r \in Requests : pc[r] # "idle" ~> pc[r] \in Settled
===============================================================================
