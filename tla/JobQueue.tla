------------------------------ MODULE JobQueue ------------------------------
(***************************************************************************)
(* The e-mail jobs: requests RPUSH them to the Redis list queue:jobs, the  *)
(* worker pops them with BRPOP and sends the mail.  Both commands work at  *)
(* the right end of the list, so the newest job comes first.               *)
(*                                                                         *)
(* What may go wrong is an action or a disjunct that spends a fault: a     *)
(* command that Redis does not execute, one whose reply is lost, a killed  *)
(* process, and a restart of Redis, which comes back with its last         *)
(* snapshot (docker-compose.yml: --save 60 1).  A mail that cannot be sent *)
(* is no fault: it is what the retries are for.                            *)
(***************************************************************************)
EXTENDS Naturals, Sequences, SequencesExt

CONSTANTS Jobs,            \* mails that requests owe, at a time: see NextMail
          Unknown,         \* those whose task name no handler has
          Workers,         \* worker processes; docker-compose starts one
          MaxRetries,      \* 3
          FaultBudgets,    \* bounds on the faults, one of which holds for a behaviour
          NoJob

ASSUME QueueAssumption ==
    /\ Unknown \subseteq Jobs
    /\ MaxRetries \in Nat
    /\ FaultBudgets \subseteq [steps : Nat, restarts : Nat]
    /\ NoJob \notin [id : Jobs, retries : 0..MaxRetries]

VARIABLES
    queue,       \* queue:jobs
    deadLetter,  \* queue:jobs:dead_letter
    saved,       \* both lists as of the last snapshot on disk
    step,        \* what a worker is at
    running,     \* its flag: no SIGTERM yet
    hand,        \* the job it has popped
    producer,    \* how far the request that owes the mail is
    sent,        \* history: mails the SMTP server took
    tried,       \* history: times the worker called the handler
    harm,        \* history: faults that hit the job
    queueFaults  \* what is left of the bounds on faults

lists     == <<queue, deadLetter, saved>>
worker    == <<step, running, hand>>
queueVars == <<lists, worker, producer, sent, tried, harm, queueFaults>>

Copy == [id : Jobs, retries : 0..MaxRetries]
Harm == {"dropped", "unsent", "lost", "again", "resent", "restored", "discarded"}

Places(j, s) == {n \in DOMAIN s : s[n].id = j}
Listed(j, s) == Places(j, s) # {}
Copies(j, s) == {s[n] : n \in Places(j, s)}
InHand(j)    == \E w \in Workers : hand[w] # NoJob /\ hand[w].id = j

Spend(what) == /\ queueFaults[what] > 0
               /\ queueFaults' = [queueFaults EXCEPT ![what] = @ - 1]
Fault == Spend("steps")
Hit(j, what) == harm' = [harm EXCEPT ![j] = @ \cup {what}]
Send(j)      == sent' = [sent EXCEPT ![j] = @ + 1]

QueueInit ==
    /\ queue = <<>> /\ deadLetter = <<>> /\ saved = <<queue, deadLetter>>
    /\ step = [w \in Workers |-> "poll"] /\ running = [w \in Workers |-> TRUE]
    /\ hand = [w \in Workers |-> NoJob]
    /\ producer = [j \in Jobs |-> "new"]
    /\ sent = [j \in Jobs |-> 0] /\ tried = [j \in Jobs |-> 0]
    /\ harm = [j \in Jobs |-> {}] /\ queueFaults \in FaultBudgets

---------------------------------------------------------------------------
\* Requests.

\* _fallback runs when RPUSH raises, whether or not Redis has executed it.  The
\* sweeper has no background_tasks to give, and then the job is dropped.
FallBack(j, other) ==
    \/ producer' = [producer EXCEPT ![j] = "background"] /\ harm' = other
    \/ /\ producer' = [producer EXCEPT ![j] = "done"]
       /\ harm' = [other EXCEPT ![j] = @ \cup {"dropped"}]

EnqueueJob(j) ==
    /\ producer[j] = "new"
    /\ \/ /\ queue' = Append(queue, [id |-> j, retries |-> 0])
          /\ producer' = [producer EXCEPT ![j] = "done"]
          /\ UNCHANGED <<harm, queueFaults>>
       \/ Fault /\ FallBack(j, harm) /\ UNCHANGED queue
       \/ /\ Fault
          /\ queue' = Append(queue, [id |-> j, retries |-> 0])
          /\ FallBack(j, [harm EXCEPT ![j] = @ \cup {"again"}])
    /\ UNCHANGED <<deadLetter, saved, worker, sent, tried>>

\* The background task calls the handler once, after the response; an exception
\* is logged, and the server may die first.
RunBackground(j) ==
    /\ producer[j] = "background"
    /\ producer' = [producer EXCEPT ![j] = "done"]
    /\ \/ j \notin Unknown /\ Send(j) /\ UNCHANGED <<harm, queueFaults>>
       \/ Hit(j, "unsent") /\ UNCHANGED <<sent, queueFaults>>
       \/ Fault /\ Hit(j, "lost") /\ UNCHANGED sent
    /\ UNCHANGED <<lists, worker, tried>>

\* Requests never cease.  A mail that is done with leaves its name to the next
\* one, so that a finite set of names is no bound on the mails.
NextMail(j) ==
    /\ producer[j] = "done" /\ ~InHand(j)
    /\ \A s \in {queue, deadLetter, saved[1], saved[2]} : ~Listed(j, s)
    /\ producer' = [producer EXCEPT ![j] = "new"]
    /\ sent' = [sent EXCEPT ![j] = 0] /\ tried' = [tried EXCEPT ![j] = 0]
    /\ harm' = [harm EXCEPT ![j] = {}]
    /\ UNCHANGED <<lists, worker, queueFaults>>

---------------------------------------------------------------------------
\* Workers.

\* The job is done with: on to the next, unless a SIGTERM has come.
Finish(w) ==
    /\ hand' = [hand EXCEPT ![w] = NoJob]
    /\ step' = [step EXCEPT ![w] = IF running[w] THEN "poll" ELSE "stopped"]
    /\ UNCHANGED running

\* BRPOP takes the job off the list before it is done; a reply that does not
\* arrive is a job nobody has.
Pop(w) ==
    /\ step[w] = "poll" /\ queue # <<>>
    /\ queue' = Front(queue)
    /\ \/ /\ hand' = [hand EXCEPT ![w] = Last(queue)]
          /\ step' = [step EXCEPT ![w] = "run"]
          /\ UNCHANGED <<harm, queueFaults>>
       \/ Fault /\ Hit(Last(queue).id, "lost") /\ UNCHANGED <<step, hand>>
    /\ UNCHANGED <<deadLetter, saved, running, producer, sent, tried>>

Discard(w) ==
    /\ step[w] = "run" /\ hand[w].id \in Unknown
    /\ Hit(hand[w].id, "discarded")
    /\ Finish(w)
    /\ UNCHANGED <<lists, producer, sent, tried, queueFaults>>

\* mutant: a job is put back whether or not its mail was sent
HandleAndPutBack(w) ==
    LET j == hand[w].id IN
    /\ step[w] = "run" /\ j \notin Unknown
    /\ tried' = [tried EXCEPT ![j] = @ + 1]
    /\ step' = [step EXCEPT ![w] = "failed"]
    /\ Send(j) \/ UNCHANGED sent
    /\ UNCHANGED <<lists, running, hand, producer, harm, queueFaults>>

\* The handler sends the mail, or raises: also after the server has taken the
\* mail, when the session does not end as it should.
Handle(w) ==
    LET j == hand[w].id IN
    /\ step[w] = "run" /\ j \notin Unknown
    /\ tried' = [tried EXCEPT ![j] = @ + 1]
    /\ \/ Send(j) /\ Finish(w) /\ UNCHANGED harm
       \/ /\ step' = [step EXCEPT ![w] = "failed"]
          /\ \/ UNCHANGED <<sent, harm>>
             \/ Send(j) /\ Hit(j, "resent")
          /\ UNCHANGED <<running, hand>>
    /\ UNCHANGED <<lists, producer, queueFaults>>

\* mutants: a job that has failed too often is dropped; it is a dead letter one
\* attempt too early
PutBackOrDrop(w) ==
    /\ step[w] = "failed"
    /\ queue' = IF hand[w].retries < MaxRetries
                THEN Append(queue, [hand[w] EXCEPT !.retries = @ + 1]) ELSE queue
    /\ Finish(w)
    /\ UNCHANGED <<deadLetter, saved, producer, sent, tried, harm, queueFaults>>
PutBackShort(w) ==
    /\ step[w] = "failed"
    /\ IF hand[w].retries + 1 < MaxRetries
       THEN /\ queue' = Append(queue, [hand[w] EXCEPT !.retries = @ + 1])
            /\ UNCHANGED deadLetter
       ELSE deadLetter' = Append(deadLetter, hand[w]) /\ UNCHANGED queue
    /\ Finish(w)
    /\ UNCHANGED <<saved, producer, sent, tried, harm, queueFaults>>

\* RPUSH puts the job where BRPOP takes it from.  main() catches what RPUSH
\* raises and goes on without the job.
PutBack(w) ==
    /\ step[w] = "failed"
    /\ LET job == hand[w] IN
       \/ /\ job.retries < MaxRetries
          /\ queue' = Append(queue, [job EXCEPT !.retries = @ + 1])
          /\ UNCHANGED <<deadLetter, harm, queueFaults>>
       \/ /\ job.retries >= MaxRetries
          /\ deadLetter' = Append(deadLetter, job)
          /\ UNCHANGED <<queue, harm, queueFaults>>
       \/ Fault /\ Hit(job.id, "lost") /\ UNCHANGED <<queue, deadLetter>>
    /\ Finish(w)
    /\ UNCHANGED <<saved, producer, sent, tried>>

\* SIGTERM: the job in hand is finished first, and a BRPOP under way may still
\* bring one.
Terminate(w) ==
    /\ step[w] # "stopped" /\ running[w]
    /\ Fault
    /\ running' = [running EXCEPT ![w] = FALSE]
    /\ UNCHANGED <<lists, step, hand, producer, sent, tried, harm>>

Stop(w) ==
    /\ step[w] = "poll" /\ ~running[w]
    /\ step' = [step EXCEPT ![w] = "stopped"]
    /\ UNCHANGED <<lists, running, hand, producer, sent, tried, harm, queueFaults>>

\* The process is gone at once, and the job in its hand with it.
Kill(w) ==
    /\ step[w] \in {"run", "failed"}
    /\ Fault
    /\ Hit(hand[w].id, "lost")
    /\ hand' = [hand EXCEPT ![w] = NoJob]
    /\ step' = [step EXCEPT ![w] = "stopped"]
    /\ UNCHANGED <<lists, running, producer, sent, tried>>

\* mutant: restart: on-failure
StartKilled(w) ==
    /\ step[w] = "stopped" /\ running[w]
    /\ step' = [step EXCEPT ![w] = "poll"]
    /\ UNCHANGED <<lists, running, hand, producer, sent, tried, harm, queueFaults>>

\* restart: unless-stopped
Start(w) ==
    /\ step[w] = "stopped"
    /\ step' = [step EXCEPT ![w] = "poll"]
    /\ running' = [running EXCEPT ![w] = TRUE]
    /\ UNCHANGED <<lists, hand, producer, sent, tried, harm, queueFaults>>

---------------------------------------------------------------------------
\* Redis.

\* One snapshot of lists with jobs in them is a bound of the model; none is taken
\* once no restart can follow.
Snapshot ==
    /\ saved = <<<<>>, <<>>>> /\ queueFaults.restarts > 0
    /\ saved' = <<queue, deadLetter>>
    /\ UNCHANGED <<queue, deadLetter, worker, producer, sent, tried, harm, queueFaults>>

RestartRedis ==
    /\ Spend("restarts")
    /\ queue' = saved[1] /\ deadLetter' = saved[2]
    /\ harm' = [j \in Jobs |->
                  IF /\ Copies(j, queue) = Copies(j, queue')
                     /\ Listed(j, deadLetter) <=> Listed(j, deadLetter')
                  THEN harm[j] ELSE harm[j] \cup {"restored"}]
    /\ UNCHANGED <<saved, worker, producer, sent, tried>>

WorkerNext(w) == Pop(w) \/ Discard(w) \/ Handle(w) \/ PutBack(w) \/ Stop(w) \/ Start(w)

QueueNext ==
    \/ \E j \in Jobs : EnqueueJob(j) \/ RunBackground(j) \/ NextMail(j)
    \/ \E w \in Workers : WorkerNext(w) \/ Terminate(w) \/ Kill(w)
    \/ Snapshot \/ RestartRedis

---------------------------------------------------------------------------
QueueTypeOK ==
    /\ queue \in Seq(Copy) /\ deadLetter \in Seq(Copy) /\ saved \in Seq(Copy) \X Seq(Copy)
    /\ step \in [Workers -> {"poll", "run", "failed", "stopped"}]
    /\ running \in [Workers -> BOOLEAN]
    /\ hand \in [Workers -> Copy \cup {NoJob}]
    /\ producer \in [Jobs -> {"new", "background", "done"}]
    /\ sent \in [Jobs -> Nat] /\ tried \in [Jobs -> Nat]
    /\ harm \in [Jobs -> SUBSET Harm] /\ queueFaults \in [steps : Nat, restarts : Nat]

\* A job a request has handed over is in a list, with a worker or delivered,
\* unless something went wrong with it: a failing mail server alone loses none,
\* through retries, dead letters and a clean stop (worker.py).
NoJobVanishes ==
    \A j \in Jobs :
        producer[j] = "done" /\ harm[j] = {} =>
            Listed(j, queue) \/ Listed(j, deadLetter) \/ InHand(j) \/ sent[j] > 0

\* A customer gets a mail twice only if a reply of Redis was lost, the mail server
\* failed after it took the mail, or Redis came back with an older list.
MailedOnce ==
    \A j \in Jobs : sent[j] > 1 => harm[j] \cap {"again", "resent", "restored"} # {}

\* A job becomes a dead letter after four attempts and not before, and is not
\* attempted more often; nor is it queued while a worker has it.
FourAttempts ==
    \A j \in Jobs :
        "restored" \notin harm[j] =>
            /\ tried[j] <= MaxRetries + 1
            /\ Listed(j, deadLetter) => tried[j] = MaxRetries + 1
            /\ InHand(j) => ~Listed(j, queue) /\ ~Listed(j, deadLetter)

\* Once no more jobs come in, every queued job is done with at some time, though
\* retries go to the head of the line, workers are killed and stopped, and Redis
\* comes back with an older list.  As long as jobs do come in it need not be: both
\* ends of the queue are one (queue.py:32, worker.py:72), and a job that is old
\* waits for ever under a steady arrival of newer ones.
QueueDrains ==
    <>[][~\E j \in Jobs : EnqueueJob(j)]_queueVars =>
        \A j \in Jobs : (Listed(j, queue) \/ InHand(j)) ~> ~(Listed(j, queue) \/ InHand(j))
=============================================================================
