---------------------------------- MODULE Jobs ----------------------------------
(***************************************************************************)
(* Password reset mails.  A request enqueues a job in Redis; a worker of   *)
(* ARQ runs it, sends the mail in a thread and is told by the exceptions   *)
(* of the SMTP library whether it may try again.  That the mail was        *)
(* accepted and that the worker learns so are two things: the answer may   *)
(* be lost, the worker may die before it has it, or the job may run out of *)
(* time while its thread, which cannot be stopped, goes on.                *)
(***************************************************************************)
EXTENDS Integers, FiniteSets

CONSTANTS
    Job,
    MaxTries,   \* job_max_tries
    MaxJobs     \* job_max_concurrency

VARIABLES
    state,      \* of each job
    tries,      \* job_try
    thread,     \* the thread of its current try
    orphans,    \* threads of earlier tries that still send
    sent,       \* mails that the server accepted
    unheard     \* history: those of them that the worker did not learn of

vars == <<state, tries, thread, orphans, sent, unheard>>

TypeOK ==
    /\ state \in [Job -> {"none", "queued", "running", "done", "failed"}]
    /\ tries \in [Job -> 0..MaxTries]
    /\ thread \in [Job -> {"none", "sending", "accepted"}]
    /\ \A f \in {orphans, sent, unheard} : f \in [Job -> Nat]

Init ==
    /\ state = [j \in Job |-> "none"]
    /\ tries = [j \in Job |-> 0]
    /\ thread = [j \in Job |-> "none"]
    /\ orphans = tries /\ sent = tries /\ unheard = tries

Running == {j \in Job : state[j] = "running"}

-----------------------------------------------------------------------------

\* enqueue_job, with a new job id.
Enqueue(j) ==
    /\ state[j] = "none"
    /\ state' = [state EXCEPT ![j] = "queued"]
    /\ UNCHANGED <<tries, thread, orphans, sent, unheard>>

\* A job that was retried waits for its backoff first.
Start(j) ==
    /\ state[j] = "queued" /\ tries[j] < MaxTries
    /\ Cardinality(Running) < MaxJobs
    /\ state'  = [state  EXCEPT ![j] = "running"]
    /\ tries'  = [tries  EXCEPT ![j] = @ + 1]
    /\ thread' = [thread EXCEPT ![j] = "sending"]
    /\ UNCHANGED <<orphans, sent, unheard>>

\* ARQ counts the tries as well: those that ended with the worker, too.
GiveUp(j) ==
    /\ state[j] = "queued" /\ tries[j] = MaxTries
    /\ state' = [state EXCEPT ![j] = "failed"]
    /\ UNCHANGED <<tries, thread, orphans, sent, unheard>>

\* The server accepts the mail.
Accept(j) ==
    /\ thread[j] = "sending"
    /\ thread' = [thread EXCEPT ![j] = "accepted"]
    /\ sent'   = [sent   EXCEPT ![j] = @ + 1]
    /\ UNCHANGED <<state, tries, orphans, unheard>>

\* The try ends; a mail that was accepted goes unheard unless it succeeded.
EndTry(j, outcome) ==
    /\ state'  = [state  EXCEPT ![j] = outcome]
    /\ thread' = [thread EXCEPT ![j] = "none"]
    /\ unheard' = IF thread[j] = "accepted" /\ outcome # "done"
                  THEN [unheard EXCEPT ![j] = @ + 1] ELSE unheard

Succeed(j) ==
    /\ state[j] = "running" /\ thread[j] = "accepted"
    /\ EndTry(j, "done")
    /\ UNCHANGED <<tries, orphans, sent>>

\* Mutant: the error is swallowed.
NoRetry(j) == "done"

\* Retry, up to job_max_tries.
AfterTransient(j) == IF tries[j] >= MaxTries THEN "failed" ELSE "queued"

\* TransientJobError: the connection, a timeout of it or an answer of the
\* server, before or after it accepted the mail.
FailTransiently(j) ==
    /\ state[j] = "running"
    /\ EndTry(j, AfterTransient(j))
    /\ UNCHANGED <<tries, orphans, sent>>

\* Any other error is final, since a retry might repeat what was done.
FailForGood(j) ==
    /\ state[j] = "running"
    /\ EndTry(j, "failed")
    /\ UNCHANGED <<tries, orphans, sent>>

\* The try ends without its thread, which may have sent the mail already.
Abandon(j, outcome) ==
    /\ state[j] = "running"
    /\ EndTry(j, outcome)
    /\ orphans' = IF thread[j] = "sending" THEN [orphans EXCEPT ![j] = @ + 1] ELSE orphans
    /\ UNCHANGED <<tries, sent>>

\* job_timeout_seconds: ARQ does not retry a job that ran out of time.
TimeOut(j) == Abandon(j, "failed")

\* The worker is stopped: ARQ queues its jobs again (retry_jobs).
Shutdown(j) == Abandon(j, "queued")

\* The worker is killed, and its threads with it.
Crash(j) ==
    /\ state[j] = "running"
    /\ EndTry(j, "queued")
    /\ UNCHANGED <<tries, orphans, sent>>

\* A thread that was left behind has its mail accepted, or fails.
EndOrphan(j) ==
    /\ orphans[j] > 0
    /\ orphans' = [orphans EXCEPT ![j] = @ - 1]
    /\ \/ /\ sent'    = [sent    EXCEPT ![j] = @ + 1]
          /\ unheard' = [unheard EXCEPT ![j] = @ + 1]
       \/ UNCHANGED <<sent, unheard>>
    /\ UNCHANGED <<state, tries, thread>>

-----------------------------------------------------------------------------

Next == \E j \in Job :
    \/ Enqueue(j) \/ Start(j) \/ GiveUp(j) \/ Accept(j)
    \/ Succeed(j) \/ FailTransiently(j) \/ FailForGood(j)
    \/ TimeOut(j) \/ Shutdown(j) \/ Crash(j) \/ EndOrphan(j)

Spec == Init /\ [][Next]_vars

-----------------------------------------------------------------------------
(* Properties                                                              *)

\* A job that ended well has sent its mail; the mail is sent again only when
\* the worker did not learn that the server had it, and never more often than
\* the job may be tried, threads that still send included (_run_job,
\* SMTPEmailSender, WorkerSettings).
MailedOnce ==
    \A j \in Job :
        /\ state[j] = "done" => sent[j] >= 1
        /\ sent[j] <= unheard[j] + 1
        /\ sent[j] + orphans[j] <= tries[j]

=============================================================================
