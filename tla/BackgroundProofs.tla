-------------------------- MODULE BackgroundProofs --------------------------
(***************************************************************************)
(* Theorems about JobQueue and Cache as parts of Background, for any       *)
(* number of jobs, workers, retries and faults, of readers and commits,    *)
(* and for any lives of entries and mutex; and the types of all four       *)
(* parts.                                                                  *)
(***************************************************************************)
EXTENDS CatalogueProofs, RegistrationProofs

-----------------------------------------------------------------------------
(* Lists of jobs *)

\* RPUSH puts a copy where it is popped next.
LEMMA Pushed ==
    ASSUME NEW s \in Seq(Copy), NEW c \in Copy
    PROVE  /\ Append(s, c) \in Seq(Copy)
           /\ Append(s, c)[Len(s) + 1] = c
           /\ Len(s) + 1 \notin DOMAIN s
           /\ \A n \in DOMAIN s : Append(s, c)[n] = s[n]
           /\ \A j \in Jobs \ {c.id} : Places(j, Append(s, c)) = Places(j, s)
           /\ Places(c.id, Append(s, c)) = Places(c.id, s) \cup {Len(s) + 1}
<1> DEFINE t == Append(s, c)
<1>1. /\ t \in Seq(Copy) /\ Len(t) = Len(s) + 1 /\ DOMAIN t = 1..Len(s) + 1
      /\ t[Len(s) + 1] = c /\ \A n \in 1..Len(s) : t[n] = s[n]
  OBVIOUS
<1>2. Len(s) \in Nat /\ DOMAIN s = 1..Len(s)
  OBVIOUS
<1>3. DOMAIN t = DOMAIN s \cup {Len(s) + 1} /\ Len(s) + 1 \notin DOMAIN s
  BY <1>1, <1>2
<1> HIDE DEF t
<1>4. \A j \in Jobs \ {c.id} : Places(j, t) = Places(j, s)
  BY <1>1, <1>2, <1>3 DEF Places
<1>5. Places(c.id, t) = Places(c.id, s) \cup {Len(s) + 1}
  BY <1>1, <1>2, <1>3 DEF Places
<1> QED
  BY <1>1, <1>2, <1>3, <1>4, <1>5 DEF t

\* BRPOP takes the last copy.
LEMMA Popped ==
    ASSUME NEW s \in Seq(Copy), s # <<>>
    PROVE  /\ Front(s) \in Seq(Copy) /\ Last(s) \in Copy
           /\ Len(s) \in DOMAIN s /\ Last(s) = s[Len(s)]
           /\ \A n \in DOMAIN Front(s) : Front(s)[n] = s[n]
           /\ \A j : Places(j, Front(s)) = Places(j, s) \ {Len(s)}
<1> DEFINE t == Front(s)
<1>1. Len(s) \in Nat \ {0} /\ DOMAIN s = 1..Len(s)
  OBVIOUS
<1>2. /\ t \in Seq(Copy) /\ DOMAIN t = 1..(Len(s) - 1)
      /\ \A n \in 1..(Len(s) - 1) : t[n] = s[n]
  BY <1>1 DEF Front
<1>3. Last(s) = s[Len(s)] /\ Len(s) \in DOMAIN s /\ Last(s) \in Copy
  BY <1>1 DEF Last
<1>4. DOMAIN t = DOMAIN s \ {Len(s)}
  BY <1>1, <1>2
<1> HIDE DEF t
<1>5. \A j : Places(j, t) = Places(j, s) \ {Len(s)}
  BY <1>1, <1>2, <1>4 DEF Places
<1> QED
  BY <1>1, <1>2, <1>3, <1>4, <1>5 DEF t
-----------------------------------------------------------------------------
(* Types *)

\* A worker has a job in hand exactly while it is about to handle it or to put
\* it back.
HandsOK == \A w \in Workers : hand[w] # NoJob <=> step[w] \in {"run", "failed"}

LEMMA NoJobIsNoCopy == NoJob \notin Copy /\ MaxRetries \in Nat
BY QueueAssumption DEF Copy

LEMMA QueueStarts == QueueInit => QueueTypeOK /\ HandsOK
<1> SUFFICES ASSUME QueueInit PROVE QueueTypeOK /\ HandsOK
  OBVIOUS
<1>1. <<>> \in Seq(Copy) /\ saved = <<<<>>, <<>>>>
  BY DEF QueueInit
<1>2. queueFaults \in [steps : Nat, restarts : Nat]
  BY QueueAssumption DEF QueueInit
<1>3. queue = <<>> /\ deadLetter = <<>> /\ saved \in Seq(Copy) \X Seq(Copy)
  <2>1. queue = <<>> /\ deadLetter = <<>>
    BY DEF QueueInit
  <2>2. PICK e \in Seq(Copy) : e = <<>>
    BY <1>1
  <2>3. saved = <<e, e>>
    BY <1>1, <2>2
  <2>4. saved \in Seq(Copy) \X Seq(Copy)
    BY <2>3
  <2> QED
    BY <2>1, <2>4
<1>4. /\ step \in [Workers -> {"poll", "run", "failed", "stopped"}]
      /\ running \in [Workers -> BOOLEAN]
      /\ hand \in [Workers -> Copy \cup {NoJob}]
      /\ producer \in [Jobs -> {"new", "background", "done"}]
      /\ sent \in [Jobs -> Nat] /\ tried \in [Jobs -> Nat]
      /\ harm \in [Jobs -> SUBSET Harm]
      /\ \A w \in Workers : hand[w] = NoJob /\ step[w] = "poll"
  BY DEF QueueInit
<1> QED
  BY <1>1, <1>2, <1>3, <1>4 DEF QueueTypeOK, HandsOK

LEMMA SpendType ==
    ASSUME queueFaults \in [steps : Nat, restarts : Nat], NEW what \in {"steps", "restarts"},
           Spend(what)
    PROVE  queueFaults' \in [steps : Nat, restarts : Nat]
<1>1. CASE what = "steps"
  BY <1>1 DEF Spend
<1>2. CASE what = "restarts"
  BY <1>2 DEF Spend
<1> QED
  BY <1>1, <1>2

LEMMA QueueTypesNext ==
    ASSUME QueueTypeOK, HandsOK, [QueueNext]_queueVars
    PROVE  QueueTypeOK' /\ HandsOK'
<1> USE DEF QueueTypeOK, HandsOK
<1>s. ASSUME NEW what \in {"steps", "restarts"}, Spend(what)
      PROVE  queueFaults' \in [steps : Nat, restarts : Nat]
  BY <1>s, SpendType
<1>f. Fault => queueFaults' \in [steps : Nat, restarts : Nat]
  BY <1>s DEF Fault
<1>h. ASSUME NEW j \in Jobs, NEW what \in Harm, Hit(j, what) PROVE harm' \in [Jobs -> SUBSET Harm]
  BY <1>h DEF Hit
<1>m. ASSUME NEW j \in Jobs, Send(j) PROVE sent' \in [Jobs -> Nat]
  BY <1>m DEF Send
<1>k. {"dropped", "unsent", "lost", "again", "resent", "restored", "discarded"} \subseteq Harm
  BY DEF Harm
<1>r. MaxRetries \in Nat /\ \A w \in Workers : hand[w] # NoJob => hand[w] \in Copy /\ hand[w].id \in Jobs
  BY NoJobIsNoCopy DEF Copy
<1>w. ASSUME NEW w \in Workers, Finish(w)
      PROVE  /\ hand' \in [Workers -> Copy \cup {NoJob}]
             /\ step' \in [Workers -> {"poll", "run", "failed", "stopped"}]
             /\ running' \in [Workers -> BOOLEAN]
             /\ \A v \in Workers : hand'[v] # NoJob <=> step'[v] \in {"run", "failed"}
  BY <1>w DEF Finish
<1>1. ASSUME NEW j \in Jobs, EnqueueJob(j) PROVE QueueTypeOK' /\ HandsOK'
  <2> DEFINE c == [id |-> j, retries |-> 0]
  <2>1. c \in Copy
    BY <1>r DEF Copy
  <2>2. Append(queue, c) \in Seq(Copy)
    BY <2>1, Pushed
  <2> HIDE DEF c
  <2>3. queue' \in Seq(Copy)
    BY <1>1, <2>2 DEF EnqueueJob, c
  <2>4. /\ producer' \in [Jobs -> {"new", "background", "done"}]
        /\ harm' \in [Jobs -> SUBSET Harm]
        /\ queueFaults' \in [steps : Nat, restarts : Nat]
    <3>1. CASE UNCHANGED <<harm, queueFaults>> /\ producer' = [producer EXCEPT ![j] = "done"]
      BY <3>1
    <3>2. ASSUME Fault, NEW other \in [Jobs -> SUBSET Harm], FallBack(j, other)
          PROVE  /\ producer' \in [Jobs -> {"new", "background", "done"}]
                 /\ harm' \in [Jobs -> SUBSET Harm]
                 /\ queueFaults' \in [steps : Nat, restarts : Nat]
      <4>1. producer' = [producer EXCEPT ![j] = "background"]
            \/ producer' = [producer EXCEPT ![j] = "done"]
        BY <3>2 DEF FallBack
      <4>2. harm' = other \/ harm' = [other EXCEPT ![j] = @ \cup {"dropped"}]
        BY <3>2 DEF FallBack
      <4>3. harm' \in [Jobs -> SUBSET Harm]
        <5>1. other[j] \cup {"dropped"} \in SUBSET Harm
          BY <1>k, <3>2
        <5> QED
          BY <3>2, <4>2, <5>1
      <4> QED
        BY <1>f, <3>2, <4>1, <4>3
    <3>3. /\ harm \in [Jobs -> SUBSET Harm]
          /\ [harm EXCEPT ![j] = @ \cup {"again"}] \in [Jobs -> SUBSET Harm]
      BY <1>k
    <3> QED
      BY <1>1, <3>1, <3>2, <3>3 DEF EnqueueJob
  <2> QED
    BY <1>1, <2>3, <2>4 DEF EnqueueJob, worker
<1>2. ASSUME NEW j \in Jobs, RunBackground(j) PROVE QueueTypeOK' /\ HandsOK'
  BY <1>2, <1>f, <1>h, <1>m, <1>k DEF RunBackground, lists, worker
<1>3. ASSUME NEW w \in Workers, Pop(w) PROVE QueueTypeOK' /\ HandsOK'
  <2>1. Front(queue) \in Seq(Copy) /\ Last(queue) \in Copy
    BY <1>3, Popped DEF Pop
  <2>2. Last(queue).id \in Jobs /\ Last(queue) # NoJob
    BY <2>1, NoJobIsNoCopy DEF Copy
  <2>3. /\ harm' \in [Jobs -> SUBSET Harm] /\ queueFaults' \in [steps : Nat, restarts : Nat]
    BY <1>3, <1>f, <1>h, <1>k, <2>2 DEF Pop
  <2>4. /\ hand' \in [Workers -> Copy \cup {NoJob}]
        /\ step' \in [Workers -> {"poll", "run", "failed", "stopped"}]
        /\ \A v \in Workers : hand'[v] # NoJob <=> step'[v] \in {"run", "failed"}
    <3>1. CASE UNCHANGED <<step, hand>>
      BY <3>1
    <3>2. CASE /\ hand' = [hand EXCEPT ![w] = Last(queue)]
               /\ step' = [step EXCEPT ![w] = "run"]
      BY <2>1, <2>2, <3>2
    <3> QED
      BY <1>3, <3>1, <3>2 DEF Pop
  <2> QED
    BY <1>3, <2>1, <2>3, <2>4 DEF Pop
<1>4. ASSUME NEW w \in Workers, Discard(w) PROVE QueueTypeOK' /\ HandsOK'
  BY <1>4, <1>h, <1>w, <1>k, <1>r DEF Discard, lists
<1>5. ASSUME NEW w \in Workers, Handle(w) PROVE QueueTypeOK' /\ HandsOK'
  <2>1. hand[w].id \in Jobs
    BY <1>5, <1>r DEF Handle
  <2>2. tried' \in [Jobs -> Nat] /\ sent' \in [Jobs -> Nat] /\ harm' \in [Jobs -> SUBSET Harm]
    <3>1. PICK j \in Jobs : j = hand[w].id
      BY <2>1
    <3>2. tried' = [tried EXCEPT ![j] = @ + 1]
      BY <1>5, <3>1 DEF Handle
    <3>3. UNCHANGED sent \/ Send(j)
      BY <1>5, <3>1 DEF Handle
    <3>4. UNCHANGED harm \/ Hit(j, "resent")
      BY <1>5, <3>1 DEF Handle
    <3> QED
      BY <1>h, <1>m, <1>k, <3>2, <3>3, <3>4
  <2>3. /\ hand' \in [Workers -> Copy \cup {NoJob}]
        /\ step' \in [Workers -> {"poll", "run", "failed", "stopped"}]
        /\ running' \in [Workers -> BOOLEAN]
        /\ \A v \in Workers : hand'[v] # NoJob <=> step'[v] \in {"run", "failed"}
    BY <1>5, <1>w DEF Handle
  <2> QED
    BY <1>5, <2>2, <2>3 DEF Handle, lists
<1>6. ASSUME NEW w \in Workers, PutBack(w) PROVE QueueTypeOK' /\ HandsOK'
  <2> DEFINE job == hand[w]
             next == [job EXCEPT !.retries = @ + 1]
  <2>1. job \in Copy /\ job.id \in Jobs
    BY <1>6, <1>r DEF PutBack
  <2>2. job.retries < MaxRetries => next \in Copy
    <3>1. job.retries \in 0..MaxRetries
      BY <2>1 DEF Copy
    <3>2. job.retries < MaxRetries => job.retries + 1 \in 0..MaxRetries
      BY <1>r, <3>1
    <3> QED
      BY <2>1, <3>2 DEF Copy
  <2> HIDE DEF job, next
  <2>3. queue' \in Seq(Copy) /\ deadLetter' \in Seq(Copy)
    <3>1. /\ \/ UNCHANGED queue
             \/ queue' = Append(queue, next) /\ job.retries < MaxRetries
          /\ UNCHANGED deadLetter \/ deadLetter' = Append(deadLetter, job)
      BY <1>6 DEF PutBack, job, next
    <3>2. queue' \in Seq(Copy)
      <4>1. CASE queue' = Append(queue, next) /\ job.retries < MaxRetries
        <5>1. next \in Copy
          BY <2>2, <4>1
        <5>2. Append(queue, next) \in Seq(Copy)
          BY <5>1, Pushed
        <5> QED
          BY <4>1, <5>2
      <4> QED
        BY <3>1, <4>1
    <3>3. deadLetter' \in Seq(Copy)
      <4>1. Append(deadLetter, job) \in Seq(Copy)
        BY <2>1, Pushed
      <4> QED
        BY <3>1, <4>1
    <3> QED
      BY <3>2, <3>3
  <2>4. harm' \in [Jobs -> SUBSET Harm] /\ queueFaults' \in [steps : Nat, restarts : Nat]
    BY <1>6, <1>f, <1>h, <1>k, <2>1 DEF PutBack, job
  <2> QED
    BY <1>6, <1>w, <2>3, <2>4 DEF PutBack
<1>7. ASSUME NEW w \in Workers, Stop(w) \/ Start(w) PROVE QueueTypeOK' /\ HandsOK'
  BY <1>7 DEF Stop, Start, lists
<1>8. ASSUME NEW w \in Workers, Terminate(w) \/ Kill(w) PROVE QueueTypeOK' /\ HandsOK'
  <2>1. CASE Terminate(w)
    BY <1>f, <2>1 DEF Terminate, lists
  <2>2. CASE Kill(w)
    <3>1. hand[w].id \in Jobs
      BY <1>r, <2>2 DEF Kill
    <3>2. harm' \in [Jobs -> SUBSET Harm] /\ queueFaults' \in [steps : Nat, restarts : Nat]
      BY <1>f, <1>h, <1>k, <2>2, <3>1 DEF Kill
    <3>3. /\ hand' \in [Workers -> Copy \cup {NoJob}]
          /\ step' \in [Workers -> {"poll", "run", "failed", "stopped"}]
          /\ \A v \in Workers : hand'[v] # NoJob <=> step'[v] \in {"run", "failed"}
      BY <2>2 DEF Kill
    <3> QED
      BY <2>2, <3>2, <3>3 DEF Kill, lists
  <2> QED
    BY <1>8, <2>1, <2>2
<1>9. CASE Snapshot
  BY <1>9 DEF Snapshot, worker
<1>10. CASE RestartRedis
  <2>1. harm' \in [Jobs -> SUBSET Harm]
    BY <1>10, <1>k DEF RestartRedis
  <2> QED
    BY <1>10, <1>s, <2>1 DEF RestartRedis, worker
<1>11. CASE UNCHANGED queueVars
  BY <1>11 DEF queueVars, lists, worker
<1>12. ASSUME NEW j \in Jobs, NextMail(j) PROVE QueueTypeOK' /\ HandsOK'
  BY <1>12 DEF NextMail, lists, worker
<1> QED
  BY <1>1, <1>2, <1>3, <1>4, <1>5, <1>6, <1>7, <1>8, <1>9, <1>10, <1>11, <1>12
     DEF QueueNext, WorkerNext
-----------------------------------------------------------------------------
(* Where a job is, and what has been tried *)

HasJob(w, j) == hand[w] # NoJob /\ hand[w].id = j
Nowhere(j)   == ~Listed(j, queue) /\ ~Listed(j, deadLetter) /\ ~InHand(j)

\* One copy of job j at most: in queue:jobs, or in the dead letters, or neither
Once(j, jobs, letters) ==
    /\ \A m, n \in Places(j, jobs) : m = n
    /\ ~(Listed(j, jobs) /\ Listed(j, letters))

\* Unless Redis came back with an older list, a job has one copy at most, which
\* counts the attempts; a mail that went out leaves none behind.
OneCopy(j) ==
    /\ Once(j, queue, deadLetter) /\ Once(j, saved[1], saved[2])
    /\ \A w \in Workers : HasJob(w, j) => /\ ~Listed(j, queue) /\ ~Listed(j, deadLetter)
                                          /\ \A v \in Workers : HasJob(v, j) => v = w

Attempts(j) ==
    /\ \A n \in Places(j, queue) : tried[j] = queue[n].retries
    /\ \A w \in Workers : HasJob(w, j) =>
          tried[j] = hand[w].retries + (IF step[w] = "failed" THEN 1 ELSE 0)
    /\ Listed(j, deadLetter) => tried[j] = MaxRetries + 1
    /\ tried[j] <= MaxRetries + 1

Deliveries(j) ==
    /\ producer[j] = "new" => Nowhere(j) /\ sent[j] = 0 /\ tried[j] = 0
    /\ producer[j] = "background" /\ "again" \notin harm[j] => Nowhere(j) /\ sent[j] = 0
    /\ harm[j] \cap {"again", "resent"} = {} =>
          sent[j] <= 1 /\ (sent[j] = 1 => Nowhere(j) /\ producer[j] = "done")
    /\ producer[j] = "done" /\ harm[j] = {} => ~Nowhere(j) \/ sent[j] > 0

JobOK(j) == "restored" \notin harm[j] => OneCopy(j) /\ Attempts(j) /\ Deliveries(j)

QueueInv == QueueTypeOK /\ HandsOK /\ \A j \in Jobs : JobOK(j)

\* Nothing that concerns job j changes.
Untouched(j) ==
    /\ Places(j, queue') = Places(j, queue)
    /\ \A n \in Places(j, queue) : queue'[n] = queue[n]
    /\ Listed(j, deadLetter)' <=> Listed(j, deadLetter)
    /\ saved' = saved
    /\ \A w \in Workers : /\ HasJob(w, j)' <=> HasJob(w, j)
                          /\ HasJob(w, j) => hand'[w] = hand[w] /\ step'[w] = step[w]
    /\ producer'[j] = producer[j] /\ sent'[j] = sent[j] /\ tried'[j] = tried[j]
    /\ harm'[j] = harm[j]

LEMMA UntouchedStays ==
    ASSUME NEW j \in Jobs, JobOK(j), Untouched(j)
    PROVE  JobOK(j)'
<1> SUFFICES ASSUME "restored" \notin harm'[j] PROVE OneCopy(j)' /\ Attempts(j)' /\ Deliveries(j)'
  BY DEF JobOK
<1>0. OneCopy(j) /\ Attempts(j) /\ Deliveries(j)
  BY DEF JobOK, Untouched
<1>1. /\ Listed(j, queue)' <=> Listed(j, queue)
      /\ InHand(j)' <=> InHand(j)
  BY DEF Listed, InHand, Untouched, HasJob
<1>2. Nowhere(j)' <=> Nowhere(j)
  BY <1>1 DEF Nowhere, Untouched
<1>3. OneCopy(j)'
  BY <1>0, <1>1 DEF OneCopy, Once, Untouched, Listed, Places
<1>4. Attempts(j)'
  BY <1>0, <1>1 DEF Attempts, Untouched
<1>5. Deliveries(j)'
  BY <1>0, <1>2 DEF Deliveries, Untouched
<1> QED
  BY <1>3, <1>4, <1>5
\* A job that is neither in a list nor in a hand has nothing to be wrong with it
\* but what its request and the mail server have done.
LEMMA NowhereIsFine ==
    ASSUME NEW j \in Jobs, QueueTypeOK, Nowhere(j)', tried'[j] <= MaxRetries + 1,
           Once(j, saved[1], saved[2]), saved' = saved
    PROVE  OneCopy(j)' /\ Attempts(j)'
<1>1. Places(j, queue)' = {} /\ ~Listed(j, deadLetter)' /\ \A w \in Workers : ~HasJob(w, j)'
  BY DEF Nowhere, Listed, InHand, HasJob
<1>2. Once(j, queue, deadLetter)' /\ Once(j, saved[1], saved[2])'
  BY <1>1 DEF Once, Listed
<1> QED
  BY <1>1, <1>2 DEF OneCopy, Attempts

LEMMA EnqueueKeeps ==
    ASSUME QueueInv, NEW i \in Jobs, EnqueueJob(i), NEW j \in Jobs
    PROVE  JobOK(j)'
<1> DEFINE c == [id |-> i, retries |-> 0]
<1>0. /\ QueueTypeOK /\ JobOK(j) /\ queue \in Seq(Copy) /\ c \in Copy /\ c.id = i /\ c.retries = 0
      /\ producer \in [Jobs -> {"new", "background", "done"}] /\ harm \in [Jobs -> SUBSET Harm]
      /\ MaxRetries \in Nat
  BY NoJobIsNoCopy DEF QueueInv, QueueTypeOK, Copy
<1>1. UNCHANGED <<deadLetter, saved, step, running, hand, sent, tried>> /\ producer[i] = "new"
  BY DEF EnqueueJob, worker
<1>2. \/ queue' = Append(queue, c) /\ producer' = [producer EXCEPT ![i] = "done"] /\ harm' = harm
      \/ queue' = queue /\ FallBack(i, harm)
      \/ queue' = Append(queue, c) /\ FallBack(i, [harm EXCEPT ![i] = @ \cup {"again"}])
  BY DEF EnqueueJob
<1> HIDE DEF c
<1>3. ASSUME NEW other \in [Jobs -> SUBSET Harm], FallBack(i, other)
      PROVE  /\ \A k \in Jobs \ {i} : producer'[k] = producer[k] /\ harm'[k] = other[k]
             /\ \/ producer'[i] = "background" /\ harm'[i] = other[i]
                \/ producer'[i] = "done" /\ harm'[i] = other[i] \cup {"dropped"}
  <2>1. CASE producer' = [producer EXCEPT ![i] = "background"] /\ harm' = other
    BY <1>0, <2>1
  <2>2. CASE /\ producer' = [producer EXCEPT ![i] = "done"]
             /\ harm' = [other EXCEPT ![i] = @ \cup {"dropped"}]
    BY <1>0, <1>3, <2>2
  <2> QED
    BY <1>3, <2>1, <2>2 DEF FallBack
<1>4. \A k \in Jobs \ {i} : producer'[k] = producer[k] /\ harm'[k] = harm[k]
  <2>1. CASE queue' = Append(queue, c) /\ producer' = [producer EXCEPT ![i] = "done"] /\ harm' = harm
    BY <1>0, <2>1
  <2>2. CASE FallBack(i, harm)
    BY <1>0, <1>3, <2>2
  <2>3. CASE FallBack(i, [harm EXCEPT ![i] = @ \cup {"again"}])
    <3> DEFINE other == [harm EXCEPT ![i] = @ \cup {"again"}]
    <3>1. other \in [Jobs -> SUBSET Harm] /\ \A k \in Jobs \ {i} : other[k] = harm[k]
      BY <1>0 DEF Harm
    <3> HIDE DEF other
    <3> QED
      BY <1>3, <2>3, <3>1 DEF other
  <2> QED
    BY <1>2, <2>1, <2>2, <2>3
<1>5. ASSUME queue' = Append(queue, c)
      PROVE  /\ \A k \in Jobs \ {i} : Places(k, queue') = Places(k, queue)
             /\ \A n \in DOMAIN queue : queue'[n] = queue[n]
             /\ Places(i, queue') = Places(i, queue) \cup {Len(queue) + 1}
             /\ queue'[Len(queue) + 1] = c
  <2> DEFINE t == Append(queue, c)
  <2>1. /\ t[Len(queue) + 1] = c
        /\ \A n \in DOMAIN queue : t[n] = queue[n]
        /\ \A k \in Jobs \ {c.id} : Places(k, t) = Places(k, queue)
        /\ Places(c.id, t) = Places(c.id, queue) \cup {Len(queue) + 1}
    BY <1>0, Pushed
  <2> HIDE DEF t
  <2>2. queue' = t
    BY <1>5 DEF t
  <2> QED
    BY <1>0, <2>1, <2>2
<1>6. CASE j # i
  <2>1. Places(j, queue') = Places(j, queue) /\ \A n \in Places(j, queue) : queue'[n] = queue[n]
    BY <1>2, <1>5, <1>6 DEF Places
  <2>2. Untouched(j)
    BY <1>1, <1>4, <1>6, <2>1 DEF Untouched, Listed, HasJob
  <2> QED
    BY <1>0, <2>2, UntouchedStays
<1>7. CASE j = i
  <2> SUFFICES ASSUME "restored" \notin harm'[j]
               PROVE  OneCopy(j)' /\ Attempts(j)' /\ Deliveries(j)'
    BY DEF JobOK
  <2>1. harm[j] \subseteq harm'[j]
    <3>1. CASE FallBack(i, harm)
      BY <1>0, <1>3, <1>7, <3>1
    <3>2. CASE FallBack(i, [harm EXCEPT ![i] = @ \cup {"again"}])
      <4> DEFINE other == [harm EXCEPT ![i] = @ \cup {"again"}]
      <4>1. other \in [Jobs -> SUBSET Harm] /\ other[i] = harm[i] \cup {"again"}
        BY <1>0 DEF Harm
      <4> HIDE DEF other
      <4> QED
        BY <1>3, <1>7, <3>2, <4>1 DEF other
    <3> QED
      BY <1>2, <3>1, <3>2
  <2>2. /\ Once(j, queue, deadLetter) /\ Once(j, saved[1], saved[2])
        /\ Nowhere(j) /\ sent[j] = 0 /\ tried[j] = 0
    BY <1>0, <1>1, <1>7, <2>1 DEF JobOK, OneCopy, Deliveries
  <2>3. Places(j, queue) = {} /\ ~Listed(j, deadLetter)' /\ \A w \in Workers : ~HasJob(w, j)'
    BY <1>1, <2>2 DEF Nowhere, Listed, InHand, HasJob
  <2>4. sent'[j] = 0 /\ tried'[j] = 0 /\ ~InHand(j)' /\ saved' = saved
    BY <1>1, <2>2, <2>3 DEF InHand, HasJob
  <2>5. CASE queue' = Append(queue, c)
    <3>1. Places(j, queue') = {Len(queue) + 1} /\ queue'[Len(queue) + 1] = c
      BY <1>5, <1>7, <2>3, <2>5
    <3>2. OneCopy(j)' /\ Attempts(j)'
      BY <1>0, <2>2, <2>3, <2>4, <3>1 DEF OneCopy, Once, Attempts, Listed
    <3>3. Listed(j, queue)' /\ ~Nowhere(j)'
      BY <3>1 DEF Nowhere, Listed
    <3>4. \/ producer'[j] = "done"
          \/ "again" \in harm'[j] /\ producer'[j] = "background"
      <4>1. CASE producer' = [producer EXCEPT ![i] = "done"]
        BY <1>0, <1>7, <4>1
      <4>2. CASE FallBack(i, [harm EXCEPT ![i] = @ \cup {"again"}])
        <5> DEFINE other == [harm EXCEPT ![i] = @ \cup {"again"}]
        <5>1. other \in [Jobs -> SUBSET Harm] /\ "again" \in other[i]
          BY <1>0 DEF Harm
        <5> HIDE DEF other
        <5> QED
          BY <1>3, <1>7, <4>2, <5>1 DEF other
      <4>3. CASE queue' = queue
        <5>1. Places(j, queue') = {}
          BY <2>3, <4>3
        <5> QED
          BY <3>1, <5>1
      <4> QED
        BY <1>2, <4>1, <4>2, <4>3
    <3>5. Deliveries(j)'
      BY <2>4, <3>3, <3>4 DEF Deliveries
    <3> QED
      BY <3>2, <3>5
  <2>6. CASE queue' = queue /\ FallBack(i, harm)
    <3>1. \/ producer'[j] = "background"
          \/ producer'[j] = "done" /\ harm'[j] # {}
      BY <1>0, <1>3, <1>7, <2>6
    <3>2. Nowhere(j)'
      BY <2>3, <2>4, <2>6 DEF Nowhere, Listed
    <3>3. OneCopy(j)' /\ Attempts(j)'
      BY <1>0, <2>2, <2>4, <3>2, NowhereIsFine
    <3> QED
      BY <2>4, <3>1, <3>2, <3>3 DEF Deliveries
  <2> QED
    BY <1>2, <2>5, <2>6
<1> QED
  BY <1>6, <1>7

LEMMA BackgroundKeeps ==
    ASSUME QueueInv, NEW i \in Jobs, RunBackground(i), NEW j \in Jobs
    PROVE  JobOK(j)'
<1>0. /\ QueueTypeOK /\ JobOK(j) /\ sent \in [Jobs -> Nat] /\ tried \in [Jobs -> Nat]
      /\ producer \in [Jobs -> {"new", "background", "done"}] /\ harm \in [Jobs -> SUBSET Harm]
  BY DEF QueueInv, QueueTypeOK
<1>1. /\ UNCHANGED <<queue, deadLetter, saved, step, running, hand, tried>>
      /\ producer[i] = "background" /\ producer' = [producer EXCEPT ![i] = "done"]
  BY DEF RunBackground, lists, worker
<1>2. \/ sent' = [sent EXCEPT ![i] = @ + 1] /\ harm' = harm
      \/ sent' = sent /\ harm' = [harm EXCEPT ![i] = @ \cup {"unsent"}]
      \/ sent' = sent /\ harm' = [harm EXCEPT ![i] = @ \cup {"lost"}]
  BY DEF RunBackground, Send, Hit
<1>3. CASE j # i
  <2>1. producer'[j] = producer[j] /\ sent'[j] = sent[j] /\ harm'[j] = harm[j]
    BY <1>0, <1>1, <1>2, <1>3
  <2>2. Untouched(j)
    BY <1>1, <2>1 DEF Untouched, Listed, HasJob
  <2> QED
    BY <1>0, <2>2, UntouchedStays
<1>4. CASE j = i
  <2> SUFFICES ASSUME "restored" \notin harm'[j]
               PROVE  OneCopy(j)' /\ Attempts(j)' /\ Deliveries(j)'
    BY DEF JobOK
  <2>1. /\ producer'[j] = "done"
        /\ \/ sent'[j] = sent[j] + 1 /\ harm'[j] = harm[j]
           \/ sent'[j] = sent[j] /\ harm[j] \subseteq harm'[j] /\ harm'[j] # {}
    BY <1>0, <1>1, <1>2, <1>4
  <2>2. OneCopy(j) /\ Attempts(j) /\ Deliveries(j)
    BY <1>0, <2>1 DEF JobOK
  <2>3. OneCopy(j)' /\ Attempts(j)' /\ (Nowhere(j)' <=> Nowhere(j))
    BY <1>1, <2>2 DEF OneCopy, Once, Listed, Places, HasJob, Attempts, Nowhere, InHand
  <2>4. Deliveries(j)'
    BY <1>0, <1>1, <1>4, <2>1, <2>2, <2>3 DEF Deliveries
  <2> QED
    BY <2>3, <2>4
<1> QED
  BY <1>3, <1>4

\* The next mail of a name finds nothing of the one before it.
LEMMA NextKeeps ==
    ASSUME QueueInv, NEW i \in Jobs, NextMail(i), NEW j \in Jobs
    PROVE  JobOK(j)'
<1>0. /\ QueueTypeOK /\ JobOK(j) /\ sent \in [Jobs -> Nat] /\ tried \in [Jobs -> Nat]
      /\ producer \in [Jobs -> {"new", "background", "done"}] /\ harm \in [Jobs -> SUBSET Harm]
  BY DEF QueueInv, QueueTypeOK
<1>1. /\ UNCHANGED <<queue, deadLetter, saved, step, hand>> /\ ~InHand(i)
      /\ ~Listed(i, queue) /\ ~Listed(i, deadLetter) /\ ~Listed(i, saved[1]) /\ ~Listed(i, saved[2])
      /\ producer' = [producer EXCEPT ![i] = "new"] /\ harm' = [harm EXCEPT ![i] = {}]
      /\ sent' = [sent EXCEPT ![i] = 0] /\ tried' = [tried EXCEPT ![i] = 0]
  BY DEF NextMail, lists, worker
<1>2. CASE j # i
  <2>1. /\ producer'[j] = producer[j] /\ sent'[j] = sent[j] /\ tried'[j] = tried[j]
        /\ harm'[j] = harm[j]
    BY <1>0, <1>1, <1>2
  <2>2. Untouched(j)
    BY <1>1, <2>1 DEF Untouched, Listed, HasJob
  <2> QED
    BY <1>0, <2>2, UntouchedStays
<1>3. CASE j = i
  <2>1. producer'[j] = "new" /\ sent'[j] = 0 /\ tried'[j] = 0 /\ harm'[j] = {}
    BY <1>0, <1>1, <1>3
  <2>2. /\ Places(j, queue)' = {} /\ ~Listed(j, queue)' /\ ~Listed(j, deadLetter)'
        /\ Places(j, saved[1])' = {} /\ ~Listed(j, saved[1])' /\ ~InHand(j)'
        /\ \A w \in Workers : ~HasJob(w, j)'
    BY <1>1, <1>3 DEF Listed, InHand, HasJob
  <2>3. OneCopy(j)' /\ Attempts(j)'
    BY <2>1, <2>2, NoJobIsNoCopy DEF OneCopy, Once, Attempts
  <2>4. Deliveries(j)'
    BY <2>1, <2>2 DEF Deliveries, Nowhere
  <2> QED
    BY <2>3, <2>4 DEF JobOK
<1> QED
  BY <1>2, <1>3

LEMMA PopKeeps ==
    ASSUME QueueInv, NEW w \in Workers, Pop(w), NEW j \in Jobs
    PROVE  JobOK(j)'
<1> DEFINE c == Last(queue)
           n == Len(queue)
<1>0. /\ QueueTypeOK /\ JobOK(j) /\ hand \in [Workers -> Copy \cup {NoJob}] /\ hand[w] = NoJob
      /\ step \in [Workers -> {"poll", "run", "failed", "stopped"}] /\ harm \in [Jobs -> SUBSET Harm]
  BY DEF QueueInv, QueueTypeOK, HandsOK, Pop
<1>1. UNCHANGED <<deadLetter, saved, running, producer, sent, tried>>
  BY DEF Pop
<1>2. /\ c \in Copy /\ n \in DOMAIN queue /\ c = queue[n] /\ c.id \in Jobs /\ c # NoJob
      /\ \A m \in DOMAIN queue' : queue'[m] = queue[m]
      /\ Places(j, queue') = Places(j, queue) \ {n}
  <2>1. queue \in Seq(Copy) /\ queue # <<>> /\ queue' = Front(queue)
    BY <1>0 DEF QueueTypeOK, Pop
  <2>2. c \in Copy => c.id \in Jobs /\ c # NoJob
    BY NoJobIsNoCopy DEF Copy
  <2> QED
    BY <2>1, <2>2, Popped
<1>3. \/ /\ hand' = [hand EXCEPT ![w] = c] /\ step' = [step EXCEPT ![w] = "run"]
         /\ harm' = harm
      \/ /\ hand' = hand /\ step' = step
         /\ harm' = [harm EXCEPT ![c.id] = @ \cup {"lost"}]
  BY DEF Pop, Hit
<1> HIDE DEF c, n
<1>4. CASE c.id # j
  <2>1. n \notin Places(j, queue)
    BY <1>2, <1>4 DEF Places
  <2>2. Places(j, queue') = Places(j, queue) /\ \A m \in Places(j, queue) : queue'[m] = queue[m]
    BY <1>2, <2>1 DEF Places
  <2>3. harm'[j] = harm[j]
    BY <1>0, <1>2, <1>3, <1>4
  <2>4. \A v \in Workers : /\ HasJob(v, j)' <=> HasJob(v, j)
                           /\ HasJob(v, j) => hand'[v] = hand[v] /\ step'[v] = step[v]
    BY <1>0, <1>2, <1>3, <1>4 DEF HasJob
  <2>5. Untouched(j)
    BY <1>1, <2>2, <2>3, <2>4 DEF Untouched, Listed
  <2> QED
    BY <1>0, <2>5, UntouchedStays
<1>5. CASE c.id = j
  <2> SUFFICES ASSUME "restored" \notin harm'[j]
               PROVE  OneCopy(j)' /\ Attempts(j)' /\ Deliveries(j)'
    BY DEF JobOK
  <2>1. harm'[j] = harm[j] \/ harm'[j] = harm[j] \cup {"lost"}
    BY <1>0, <1>2, <1>3, <1>5
  <2>2. OneCopy(j) /\ Attempts(j) /\ Deliveries(j)
    BY <1>0, <2>1 DEF JobOK
  <2>3. n \in Places(j, queue)
    BY <1>2, <1>5 DEF Places
  <2>4. /\ Listed(j, queue) /\ Places(j, queue') = {} /\ ~Listed(j, deadLetter)
        /\ \A v \in Workers : ~HasJob(v, j)
    BY <1>2, <2>2, <2>3 DEF OneCopy, Once, Listed
  <2>5. producer'[j] # "new" /\ ("again" \notin harm'[j] => producer'[j] # "background")
    BY <1>1, <2>1, <2>2, <2>4 DEF Deliveries, Nowhere
  <2>6. harm[j] \cap {"again", "resent"} = {} => sent[j] <= 1 /\ sent[j] # 1
    BY <2>2, <2>4 DEF Deliveries, Nowhere
  <2>7. CASE /\ hand' = [hand EXCEPT ![w] = c] /\ step' = [step EXCEPT ![w] = "run"]
             /\ harm' = harm
    <3>1. /\ HasJob(w, j)' /\ hand'[w] = c /\ step'[w] = "run"
          /\ \A v \in Workers : HasJob(v, j)' => v = w
      BY <1>0, <1>2, <1>5, <2>4, <2>7 DEF HasJob
    <3>2. ~Listed(j, queue)' /\ ~Listed(j, deadLetter)' /\ InHand(j)' /\ ~Nowhere(j)'
      BY <1>1, <2>4, <3>1 DEF Listed, InHand, HasJob, Nowhere
    <3>3. OneCopy(j)'
      BY <1>1, <2>2, <2>4, <3>1, <3>2 DEF OneCopy, Once
    <3>4. Attempts(j)'
      <4>1. c.retries \in Nat /\ c = queue[n]
        BY <1>2, NoJobIsNoCopy DEF Copy
      <4>2. tried[j] = c.retries /\ tried[j] <= MaxRetries + 1
        BY <2>2, <2>3, <4>1 DEF Attempts
      <4>3. tried'[j] = hand'[w].retries + (IF step'[w] = "failed" THEN 1 ELSE 0)
        BY <1>1, <3>1, <4>1, <4>2
      <4> QED
        BY <1>1, <2>4, <3>1, <3>2, <4>2, <4>3 DEF Attempts
    <3>5. Deliveries(j)'
      BY <1>1, <2>5, <2>6, <2>7, <3>2 DEF Deliveries
    <3> QED
      BY <3>3, <3>4, <3>5
  <2>8. CASE /\ hand' = hand /\ step' = step
             /\ harm' = [harm EXCEPT ![c.id] = @ \cup {"lost"}]
    <3>1. harm'[j] = harm[j] \cup {"lost"}
      BY <1>0, <1>2, <1>5, <2>8
    <3>2. Nowhere(j)'
      BY <1>1, <2>4, <2>8 DEF Nowhere, Listed, InHand, HasJob
    <3>3. tried'[j] <= MaxRetries + 1 /\ Once(j, saved[1], saved[2]) /\ saved' = saved
      BY <1>1, <2>2 DEF Attempts, OneCopy
    <3>4. OneCopy(j)' /\ Attempts(j)'
      BY <1>0, <3>2, <3>3, NowhereIsFine
    <3>5. Deliveries(j)'
      BY <1>1, <2>5, <2>6, <3>1, <3>2 DEF Deliveries
    <3> QED
      BY <3>4, <3>5
  <2> QED
    BY <1>3, <2>7, <2>8
<1> QED
  BY <1>4, <1>5

\* The job of a worker at work
LEMMA InWork ==
    ASSUME QueueInv, NEW w \in Workers, step[w] \in {"run", "failed"}
    PROVE  /\ hand[w] \in Copy /\ hand[w].id \in Jobs /\ hand[w].retries \in 0..MaxRetries
           /\ HasJob(w, hand[w].id) /\ hand[w] # NoJob /\ InHand(hand[w].id)
BY NoJobIsNoCopy DEF QueueInv, QueueTypeOK, HandsOK, HasJob, InHand, Copy

\* What a worker does with its job leaves the other jobs alone.
LEMMA OthersUntouched ==
    ASSUME QueueInv, NEW w \in Workers, step[w] \in {"run", "failed"},
           NEW j \in Jobs, hand[w].id # j, UNCHANGED <<queue, deadLetter, saved, producer>>,
           sent'[j] = sent[j], tried'[j] = tried[j], harm'[j] = harm[j],
           \A v \in Workers \ {w} : hand'[v] = hand[v] /\ step'[v] = step[v],
           hand'[w] \in {hand[w], NoJob}
    PROVE  JobOK(j)'
<1>1. JobOK(j)
  BY DEF QueueInv
<1>2. \A v \in Workers : /\ HasJob(v, j)' <=> HasJob(v, j)
                         /\ HasJob(v, j) => hand'[v] = hand[v] /\ step'[v] = step[v]
  BY DEF HasJob
<1>3. Untouched(j)
  BY <1>2 DEF Untouched, Listed
<1> QED
  BY <1>1, <1>3, UntouchedStays

\* A job dropped from the hand of its worker is nowhere.
LEMMA OutOfHand ==
    ASSUME QueueInv, NEW w \in Workers, step[w] \in {"run", "failed"},
           NEW j \in Jobs, j = hand[w].id, "restored" \notin harm[j],
           UNCHANGED <<queue, deadLetter, saved>>,
           \A v \in Workers \ {w} : hand'[v] = hand[v], hand'[w] = NoJob
    PROVE  Nowhere(j)' /\ Once(j, saved[1], saved[2]) /\ ~Nowhere(j)
<1>1. OneCopy(j) /\ HasJob(w, j)
  BY InWork DEF QueueInv, JobOK
<1>2. ~Listed(j, queue) /\ ~Listed(j, deadLetter) /\ \A v \in Workers : HasJob(v, j) => v = w
  BY <1>1 DEF OneCopy
<1>3. \A v \in Workers : ~HasJob(v, j)'
  BY <1>2 DEF HasJob
<1> QED
  BY <1>1, <1>2, <1>3 DEF Nowhere, Listed, InHand, HasJob, OneCopy
LEMMA DiscardKeeps ==
    ASSUME QueueInv, NEW w \in Workers, Discard(w), NEW j \in Jobs
    PROVE  JobOK(j)'
<1>0. /\ QueueTypeOK /\ JobOK(j) /\ step[w] = "run" /\ harm \in [Jobs -> SUBSET Harm]
      /\ hand[w].id \in Jobs
  BY InWork DEF QueueInv, QueueTypeOK, Discard
<1>1. /\ UNCHANGED <<queue, deadLetter, saved, producer, sent, tried>>
      /\ harm' = [harm EXCEPT ![hand[w].id] = @ \cup {"discarded"}]
      /\ hand' = [hand EXCEPT ![w] = NoJob]
      /\ \A v \in Workers \ {w} : hand'[v] = hand[v] /\ step'[v] = step[v]
      /\ hand'[w] = NoJob
  BY DEF Discard, Finish, Hit, lists, QueueInv, QueueTypeOK
<1>2. CASE hand[w].id # j
  BY <1>0, <1>1, <1>2, OthersUntouched
<1>3. CASE hand[w].id = j
  <2> SUFFICES ASSUME "restored" \notin harm'[j]
               PROVE  OneCopy(j)' /\ Attempts(j)' /\ Deliveries(j)'
    BY DEF JobOK
  <2>1. harm'[j] = harm[j] \cup {"discarded"}
    BY <1>0, <1>1, <1>3
  <2>2. Nowhere(j)' /\ Once(j, saved[1], saved[2]) /\ ~Nowhere(j)
    BY <1>0, <1>1, <1>3, <2>1, OutOfHand
  <2>3. Attempts(j) /\ Deliveries(j)
    BY <1>0, <2>1 DEF JobOK
  <2>4. OneCopy(j)' /\ Attempts(j)'
    <3>1. tried'[j] <= MaxRetries + 1 /\ saved' = saved
      BY <1>1, <2>3 DEF Attempts
    <3> QED
      BY <1>0, <2>2, <3>1, NowhereIsFine
  <2>5. Deliveries(j)'
    BY <1>1, <2>1, <2>2, <2>3 DEF Deliveries
  <2> QED
    BY <2>4, <2>5
<1> QED
  BY <1>2, <1>3

LEMMA KillKeeps ==
    ASSUME QueueInv, NEW w \in Workers, Kill(w), NEW j \in Jobs
    PROVE  JobOK(j)'
<1>0. /\ QueueTypeOK /\ JobOK(j) /\ step[w] \in {"run", "failed"} /\ harm \in [Jobs -> SUBSET Harm]
      /\ hand[w].id \in Jobs
  BY InWork DEF QueueInv, QueueTypeOK, Kill
<1>1. /\ UNCHANGED <<queue, deadLetter, saved, producer, sent, tried>>
      /\ harm' = [harm EXCEPT ![hand[w].id] = @ \cup {"lost"}]
      /\ \A v \in Workers \ {w} : hand'[v] = hand[v] /\ step'[v] = step[v]
      /\ hand'[w] = NoJob
  BY DEF Kill, Hit, lists, QueueInv, QueueTypeOK
<1>2. CASE hand[w].id # j
  BY <1>0, <1>1, <1>2, OthersUntouched
<1>3. CASE hand[w].id = j
  <2> SUFFICES ASSUME "restored" \notin harm'[j]
               PROVE  OneCopy(j)' /\ Attempts(j)' /\ Deliveries(j)'
    BY DEF JobOK
  <2>1. harm'[j] = harm[j] \cup {"lost"}
    BY <1>0, <1>1, <1>3
  <2>2. Nowhere(j)' /\ Once(j, saved[1], saved[2]) /\ ~Nowhere(j)
    BY <1>0, <1>1, <1>3, <2>1, OutOfHand
  <2>3. Attempts(j) /\ Deliveries(j)
    BY <1>0, <2>1 DEF JobOK
  <2>4. OneCopy(j)' /\ Attempts(j)'
    <3>1. tried'[j] <= MaxRetries + 1 /\ saved' = saved
      BY <1>1, <2>3 DEF Attempts
    <3> QED
      BY <1>0, <2>2, <3>1, NowhereIsFine
  <2>5. Deliveries(j)'
    BY <1>1, <2>1, <2>2, <2>3 DEF Deliveries
  <2> QED
    BY <2>4, <2>5
<1> QED
  BY <1>2, <1>3

LEMMA HandleKeeps ==
    ASSUME QueueInv, NEW w \in Workers, Handle(w), NEW j \in Jobs
    PROVE  JobOK(j)'
<1> DEFINE i == hand[w].id
<1>0. /\ QueueTypeOK /\ JobOK(j) /\ step[w] = "run" /\ i \in Jobs /\ hand[w] \in Copy
      /\ hand[w].retries \in 0..MaxRetries /\ MaxRetries \in Nat
      /\ harm \in [Jobs -> SUBSET Harm] /\ sent \in [Jobs -> Nat] /\ tried \in [Jobs -> Nat]
      /\ HasJob(w, i) /\ hand[w] # NoJob
      /\ step \in [Workers -> {"poll", "run", "failed", "stopped"}]
  BY InWork, NoJobIsNoCopy DEF QueueInv, QueueTypeOK, Handle
<1>1. UNCHANGED <<queue, deadLetter, saved, producer>> /\ tried' = [tried EXCEPT ![i] = @ + 1]
  BY DEF Handle, lists
<1>2. \/ sent' = [sent EXCEPT ![i] = @ + 1] /\ Finish(w) /\ harm' = harm
      \/ step' = [step EXCEPT ![w] = "failed"] /\ hand' = hand /\ sent' = sent /\ harm' = harm
      \/ /\ step' = [step EXCEPT ![w] = "failed"] /\ hand' = hand
         /\ sent' = [sent EXCEPT ![i] = @ + 1] /\ harm' = [harm EXCEPT ![i] = @ \cup {"resent"}]
  BY DEF Handle, Send, Hit
<1>3. /\ \A v \in Workers \ {w} : hand'[v] = hand[v] /\ step'[v] = step[v]
      /\ hand'[w] \in {hand[w], NoJob}
  BY <1>2 DEF Finish, QueueInv, QueueTypeOK
<1> HIDE DEF i
<1>4. CASE i # j
  <2>1. sent'[j] = sent[j] /\ tried'[j] = tried[j] /\ harm'[j] = harm[j]
    BY <1>0, <1>1, <1>2, <1>4
  <2> QED
    BY <1>0, <1>1, <1>3, <1>4, <2>1, OthersUntouched DEF i
<1>5. CASE i = j
  <2> SUFFICES ASSUME "restored" \notin harm'[j]
               PROVE  OneCopy(j)' /\ Attempts(j)' /\ Deliveries(j)'
    BY DEF JobOK
  <2>1. harm'[j] = harm[j] \/ harm'[j] = harm[j] \cup {"resent"}
    BY <1>0, <1>2, <1>5
  <2>2. OneCopy(j) /\ Attempts(j) /\ Deliveries(j)
    BY <1>0, <2>1 DEF JobOK
  <2>3. HasJob(w, j) /\ InHand(j) /\ ~Nowhere(j) /\ ~Listed(j, queue) /\ ~Listed(j, deadLetter)
    BY <1>0, <1>5, <2>2 DEF OneCopy, InHand, HasJob, Nowhere
  <2>4. tried[j] = hand[w].retries /\ tried'[j] = hand[w].retries + 1 /\ tried'[j] <= MaxRetries + 1
    BY <1>0, <1>1, <1>5, <2>2, <2>3 DEF Attempts
  <2>5. /\ producer[j] # "new" /\ ("again" \notin harm[j] => producer[j] # "background")
        /\ harm[j] \cap {"again", "resent"} = {} => sent[j] = 0
    BY <1>0, <2>2, <2>3 DEF Deliveries
  <2>6. producer[j] \in {"new", "background", "done"} /\ producer' = producer
    BY <1>0, <1>1 DEF QueueTypeOK
  <2>7. CASE sent' = [sent EXCEPT ![i] = @ + 1] /\ Finish(w) /\ harm' = harm
    <3>1. hand'[w] = NoJob /\ sent'[j] = sent[j] + 1
      BY <1>0, <1>5, <2>7 DEF Finish, QueueTypeOK
    <3>2. Nowhere(j)' /\ Once(j, saved[1], saved[2])
      BY <1>0, <1>1, <1>3, <1>5, <2>7, <3>1, OutOfHand DEF i
    <3>3. OneCopy(j)' /\ Attempts(j)'
      BY <1>0, <1>1, <2>4, <3>2, NowhereIsFine
    <3>4. Deliveries(j)'
      BY <1>0, <2>5, <2>6, <2>7, <3>1, <3>2 DEF Deliveries
    <3> QED
      BY <3>3, <3>4
  <2>8. CASE step' = [step EXCEPT ![w] = "failed"] /\ hand' = hand
    <3>1. step'[w] = "failed" /\ \A v \in Workers : HasJob(v, j)' <=> HasJob(v, j)
      BY <1>0, <2>8 DEF HasJob
    <3>2. /\ Listed(j, queue)' <=> Listed(j, queue)
          /\ Listed(j, deadLetter)' <=> Listed(j, deadLetter)
          /\ Nowhere(j)' <=> Nowhere(j)
      BY <1>1, <2>8 DEF Listed, Nowhere, InHand
    <3>3. OneCopy(j)'
      BY <1>1, <2>2, <3>1, <3>2 DEF OneCopy, Once
    <3>4. Attempts(j)'
      <4>1. \A v \in Workers : HasJob(v, j)' => v = w
        BY <2>2, <2>3, <3>1 DEF OneCopy
      <4>2. Places(j, queue)' = {} /\ ~Listed(j, deadLetter)'
        BY <2>3, <3>2 DEF Listed
      <4> QED
        BY <2>4, <2>8, <3>1, <4>1, <4>2 DEF Attempts
    <3>5. \/ sent'[j] = sent[j] /\ harm'[j] = harm[j]
          \/ "resent" \in harm'[j] /\ harm[j] \subseteq harm'[j]
      <4>1. CASE sent' = sent /\ harm' = harm
        BY <4>1
      <4>2. CASE harm' = [harm EXCEPT ![i] = @ \cup {"resent"}]
        BY <1>0, <1>5, <4>2
      <4>3. CASE sent' = [sent EXCEPT ![i] = @ + 1] /\ Finish(w) /\ harm' = harm
        <5>1. hand'[w] = NoJob
          BY <1>0, <4>3 DEF Finish, QueueTypeOK
        <5> QED
          BY <1>0, <2>8, <5>1
      <4> QED
        BY <1>2, <4>1, <4>2, <4>3
    <3>6. Deliveries(j)'
      BY <2>2, <2>3, <2>5, <2>6, <3>2, <3>5 DEF Deliveries
    <3> QED
      BY <3>3, <3>4, <3>6
  <2> QED
    BY <1>2, <2>7, <2>8
<1> QED
  BY <1>4, <1>5
LEMMA PutBackKeeps ==
    ASSUME QueueInv, NEW w \in Workers, PutBack(w), NEW j \in Jobs
    PROVE  JobOK(j)'
<1> DEFINE job == hand[w]
           next == [job EXCEPT !.retries = @ + 1]
<1>0. /\ QueueTypeOK /\ JobOK(j) /\ step[w] = "failed" /\ job \in Copy /\ job.id \in Jobs
      /\ job.retries \in 0..MaxRetries /\ MaxRetries \in Nat /\ HasJob(w, job.id)
      /\ harm \in [Jobs -> SUBSET Harm] /\ queue \in Seq(Copy) /\ deadLetter \in Seq(Copy)
      /\ hand \in [Workers -> Copy \cup {NoJob}] /\ tried \in [Jobs -> Nat]
      /\ step \in [Workers -> {"poll", "run", "failed", "stopped"}]
  BY InWork, NoJobIsNoCopy DEF QueueInv, QueueTypeOK, PutBack
<1>1. /\ UNCHANGED <<saved, producer, sent, tried>>
      /\ \A v \in Workers \ {w} : hand'[v] = hand[v] /\ step'[v] = step[v]
      /\ hand'[w] = NoJob
  BY <1>0 DEF PutBack, Finish
<1>2. next.id = job.id /\ next.retries = job.retries + 1
  BY <1>0 DEF Copy
<1>3. job.retries < MaxRetries => next \in Copy
  <2>1. job.retries < MaxRetries => job.retries + 1 \in 0..MaxRetries
    BY <1>0
  <2> QED
    BY <1>0, <2>1 DEF Copy
<1>4. \/ /\ job.retries < MaxRetries /\ queue' = Append(queue, next)
         /\ deadLetter' = deadLetter /\ harm' = harm
      \/ /\ job.retries >= MaxRetries /\ deadLetter' = Append(deadLetter, job)
         /\ queue' = queue /\ harm' = harm
      \/ /\ harm' = [harm EXCEPT ![job.id] = @ \cup {"lost"}]
         /\ queue' = queue /\ deadLetter' = deadLetter
  BY DEF PutBack, Hit
<1> HIDE DEF job, next
<1>5. ASSUME job.retries < MaxRetries, queue' = Append(queue, next)
      PROVE  /\ \A k \in Jobs \ {job.id} : Places(k, queue') = Places(k, queue)
             /\ \A n \in DOMAIN queue : queue'[n] = queue[n]
             /\ Places(job.id, queue') = Places(job.id, queue) \cup {Len(queue) + 1}
             /\ queue'[Len(queue) + 1] = next
  <2> DEFINE t == Append(queue, next)
  <2>1. /\ t[Len(queue) + 1] = next
        /\ \A n \in DOMAIN queue : t[n] = queue[n]
        /\ \A k \in Jobs \ {next.id} : Places(k, t) = Places(k, queue)
        /\ Places(next.id, t) = Places(next.id, queue) \cup {Len(queue) + 1}
    <3>1. next \in Copy
      BY <1>3, <1>5
    <3> QED
      BY <1>0, <3>1, Pushed
  <2> HIDE DEF t
  <2>2. queue' = t
    BY <1>5 DEF t
  <2> QED
    BY <1>2, <2>1, <2>2
<1>6. ASSUME deadLetter' = Append(deadLetter, job)
      PROVE  /\ \A k \in Jobs \ {job.id} : Places(k, deadLetter') = Places(k, deadLetter)
             /\ Places(job.id, deadLetter') # {}
  <2> DEFINE t == Append(deadLetter, job)
  <2>1. /\ \A k \in Jobs \ {job.id} : Places(k, t) = Places(k, deadLetter)
        /\ Places(job.id, t) = Places(job.id, deadLetter) \cup {Len(deadLetter) + 1}
    BY <1>0, Pushed
  <2> HIDE DEF t
  <2>2. deadLetter' = t
    BY <1>6 DEF t
  <2> QED
    BY <2>1, <2>2
<1>7. CASE job.id # j
  <2>1. /\ Places(j, queue') = Places(j, queue)
        /\ \A n \in Places(j, queue) : queue'[n] = queue[n]
    BY <1>4, <1>5, <1>7 DEF Places
  <2>2. Listed(j, deadLetter)' <=> Listed(j, deadLetter)
    BY <1>4, <1>6, <1>7 DEF Listed
  <2>3. harm'[j] = harm[j]
    BY <1>0, <1>4, <1>7
  <2>4. \A v \in Workers : /\ HasJob(v, j)' <=> HasJob(v, j)
                           /\ HasJob(v, j) => hand'[v] = hand[v] /\ step'[v] = step[v]
    BY <1>1, <1>7 DEF HasJob, job
  <2>5. Untouched(j)
    BY <1>1, <2>1, <2>2, <2>3, <2>4 DEF Untouched
  <2> QED
    BY <1>0, <2>5, UntouchedStays
<1>8. CASE job.id = j
  <2> SUFFICES ASSUME "restored" \notin harm'[j]
               PROVE  OneCopy(j)' /\ Attempts(j)' /\ Deliveries(j)'
    BY DEF JobOK
  <2>1. harm'[j] = harm[j] \/ harm'[j] = harm[j] \cup {"lost"}
    BY <1>0, <1>4, <1>8
  <2>2. OneCopy(j) /\ Attempts(j) /\ Deliveries(j)
    BY <1>0, <2>1 DEF JobOK
  <2>3. /\ HasJob(w, j) /\ ~Nowhere(j) /\ Places(j, queue) = {} /\ ~Listed(j, deadLetter)
        /\ \A v \in Workers : ~HasJob(v, j)'
    BY <1>0, <1>1, <1>8, <2>2 DEF OneCopy, InHand, HasJob, Nowhere, Listed
  <2>4. tried[j] = job.retries + 1 /\ tried'[j] = tried[j] /\ tried[j] <= MaxRetries + 1
    BY <1>0, <1>1, <2>2, <2>3 DEF Attempts, job
  <2>5. /\ producer'[j] # "new" /\ ("again" \notin harm[j] => producer'[j] # "background")
        /\ harm[j] \cap {"again", "resent"} = {} => sent'[j] <= 1 /\ sent'[j] # 1
    BY <1>1, <2>2, <2>3 DEF Deliveries
  <2>6. Once(j, saved[1], saved[2])'
    BY <1>1, <2>2 DEF OneCopy
  <2>7. CASE /\ job.retries < MaxRetries /\ queue' = Append(queue, next)
             /\ deadLetter' = deadLetter /\ harm' = harm
    <3>1. /\ Places(j, queue') = {Len(queue) + 1} /\ queue'[Len(queue) + 1] = next
          /\ ~Listed(j, deadLetter)'
      BY <1>5, <1>8, <2>3, <2>7
    <3>2. OneCopy(j)'
      BY <2>3, <2>6, <3>1 DEF OneCopy, Once
    <3>3. Attempts(j)'
      BY <1>2, <2>3, <2>4, <3>1 DEF Attempts
    <3>4. Deliveries(j)'
      BY <2>5, <2>7, <3>1 DEF Deliveries, Nowhere, Listed
    <3> QED
      BY <3>2, <3>3, <3>4
  <2>8. CASE /\ job.retries >= MaxRetries /\ deadLetter' = Append(deadLetter, job)
             /\ queue' = queue /\ harm' = harm
    <3>1. Places(j, queue') = {} /\ Listed(j, deadLetter)' /\ ~Nowhere(j)'
      BY <1>6, <1>8, <2>3, <2>8 DEF Listed, Nowhere
    <3>2. OneCopy(j)'
      BY <2>3, <2>6, <3>1 DEF OneCopy, Once, Listed
    <3>3. Attempts(j)'
      BY <1>0, <2>3, <2>4, <2>8, <3>1 DEF Attempts
    <3>4. Deliveries(j)'
      BY <2>5, <2>8, <3>1 DEF Deliveries
    <3> QED
      BY <3>2, <3>3, <3>4
  <2>9. CASE /\ harm' = [harm EXCEPT ![job.id] = @ \cup {"lost"}]
             /\ queue' = queue /\ deadLetter' = deadLetter
    <3>1. harm'[j] = harm[j] \cup {"lost"}
      BY <1>0, <1>8, <2>9
    <3>2. Places(j, queue)' = {} /\ ~Listed(j, deadLetter)'
      BY <2>3, <2>9
    <3>3. Nowhere(j)'
      BY <2>3, <3>2 DEF Nowhere, Listed, InHand, HasJob
    <3>4. OneCopy(j)' /\ Attempts(j)'
      BY <1>0, <1>1, <2>2, <2>4, <3>3, NowhereIsFine DEF OneCopy
    <3>5. Deliveries(j)'
      BY <2>5, <3>1, <3>3 DEF Deliveries
    <3> QED
      BY <3>4, <3>5
  <2> QED
    BY <1>4, <2>7, <2>8, <2>9
<1> QED
  BY <1>7, <1>8

\* A worker without a job stops or starts; a SIGTERM leaves its job to it.
LEMMA IdleKeeps ==
    ASSUME QueueInv, NEW w \in Workers, Stop(w) \/ Start(w) \/ Terminate(w), NEW j \in Jobs
    PROVE  JobOK(j)'
<1>1. /\ UNCHANGED <<queue, deadLetter, saved, hand, producer, sent, tried, harm>>
      /\ \A v \in Workers \ {w} : step'[v] = step[v]
      /\ HasJob(w, j) => step'[w] = step[w]
  BY DEF QueueInv, QueueTypeOK, HandsOK, HasJob, Stop, Start, Terminate, lists
<1>2. Untouched(j)
  BY <1>1 DEF Untouched, Listed, HasJob
<1> QED
  BY <1>2, UntouchedStays DEF QueueInv

LEMMA SnapshotKeeps ==
    ASSUME QueueInv, Snapshot, NEW j \in Jobs
    PROVE  JobOK(j)'
<1> SUFFICES ASSUME "restored" \notin harm'[j]
             PROVE  OneCopy(j)' /\ Attempts(j)' /\ Deliveries(j)'
  BY DEF JobOK
<1>1. /\ UNCHANGED <<queue, deadLetter, step, hand, producer, sent, tried, harm>>
      /\ saved'[1] = queue /\ saved'[2] = deadLetter
  BY DEF Snapshot, worker
<1>2. OneCopy(j) /\ Attempts(j) /\ Deliveries(j)
  BY <1>1 DEF QueueInv, JobOK
<1>3. /\ Listed(j, queue)' <=> Listed(j, queue)
      /\ Listed(j, deadLetter)' <=> Listed(j, deadLetter)
      /\ Nowhere(j)' <=> Nowhere(j)
      /\ Places(j, queue)' = Places(j, queue)
      /\ \A w \in Workers : HasJob(w, j)' <=> HasJob(w, j)
  BY <1>1 DEF Listed, Nowhere, InHand, HasJob
<1>4. Once(j, queue, deadLetter)' /\ Once(j, saved[1], saved[2])'
  BY <1>1, <1>2 DEF OneCopy, Once, Listed
<1>5. OneCopy(j)'
  BY <1>2, <1>3, <1>4 DEF OneCopy
<1>6. Attempts(j)'
  BY <1>1, <1>2, <1>3 DEF Attempts
<1>7. Deliveries(j)'
  BY <1>1, <1>2, <1>3 DEF Deliveries
<1> QED
  BY <1>5, <1>6, <1>7

\* A job that Redis comes back with as it was is as good as before.
LEMMA RestartKeeps ==
    ASSUME QueueInv, RestartRedis, NEW j \in Jobs
    PROVE  JobOK(j)'
<1> SUFFICES ASSUME "restored" \notin harm'[j]
             PROVE  OneCopy(j)' /\ Attempts(j)' /\ Deliveries(j)'
  BY DEF JobOK
<1>1. /\ UNCHANGED <<saved, step, hand, producer, sent, tried>>
      /\ queue' = saved[1] /\ deadLetter' = saved[2]
  BY DEF RestartRedis, worker
<1>2. /\ Copies(j, queue) = Copies(j, queue')
      /\ Listed(j, deadLetter) <=> Listed(j, deadLetter')
      /\ harm'[j] = harm[j]
  BY DEF RestartRedis
<1>3. OneCopy(j) /\ Attempts(j) /\ Deliveries(j)
  BY <1>2 DEF QueueInv, JobOK
<1>4. /\ Listed(j, queue)' <=> Listed(j, queue)
      /\ \A n \in Places(j, queue') : \E m \in Places(j, queue) : queue[m] = queue'[n]
  <2>1. ASSUME NEW n \in Places(j, queue') PROVE \E m \in Places(j, queue) : queue[m] = queue'[n]
    <3>1. queue'[n] \in Copies(j, queue')
      BY DEF Copies
    <3>2. queue'[n] \in Copies(j, queue)
      BY <1>2, <3>1
    <3> QED
      BY <3>2 DEF Copies
  <2>2. ASSUME NEW m \in Places(j, queue) PROVE \E n \in Places(j, queue') : queue[m] = queue'[n]
    <3>1. queue[m] \in Copies(j, queue)
      BY DEF Copies
    <3>2. queue[m] \in Copies(j, queue')
      BY <1>2, <3>1
    <3> QED
      BY <3>2 DEF Copies
  <2>3. Listed(j, queue)' <=> Places(j, queue') # {}
    BY DEF Listed
  <2> QED
    BY <2>1, <2>2, <2>3 DEF Listed
<1>5. /\ Listed(j, deadLetter)' <=> Listed(j, deadLetter)
      /\ Nowhere(j)' <=> Nowhere(j)
      /\ \A w \in Workers : HasJob(w, j)' <=> HasJob(w, j)
  <2>1. Listed(j, deadLetter)' <=> Listed(j, deadLetter')
    BY DEF Listed
  <2>2. Listed(j, deadLetter)' <=> Listed(j, deadLetter)
    BY <1>2, <2>1
  <2>3. /\ InHand(j)' <=> InHand(j)
        /\ \A w \in Workers : HasJob(w, j)' <=> HasJob(w, j)
    BY <1>1 DEF InHand, HasJob
  <2> QED
    BY <1>4, <2>2, <2>3 DEF Nowhere
<1>6. Once(j, queue, deadLetter)' /\ Once(j, saved[1], saved[2])'
  BY <1>1, <1>3 DEF OneCopy
<1>7. OneCopy(j)'
  BY <1>3, <1>4, <1>5, <1>6 DEF OneCopy
<1>8. Attempts(j)'
  BY <1>1, <1>3, <1>4, <1>5 DEF Attempts
<1>9. Deliveries(j)'
  BY <1>1, <1>2, <1>3, <1>5 DEF Deliveries
<1> QED
  BY <1>7, <1>8, <1>9

LEMMA QueueStartsWell == QueueInit => QueueInv
<1> SUFFICES ASSUME QueueInit PROVE QueueInv
  OBVIOUS
<1>1. QueueTypeOK /\ HandsOK
  BY QueueStarts
<1>2. ASSUME NEW j \in Jobs PROVE JobOK(j)
  <2>1. /\ queue = <<>> /\ deadLetter = <<>> /\ saved[1] = <<>> /\ saved[2] = <<>>
        /\ \A w \in Workers : hand[w] = NoJob
        /\ producer[j] = "new" /\ sent[j] = 0 /\ tried[j] = 0 /\ harm[j] = {}
    BY DEF QueueInit
  <2>2. Places(j, queue) = {} /\ ~Listed(j, deadLetter)
    BY <2>1 DEF Places, Listed
  <2>3. Nowhere(j) /\ \A w \in Workers : ~HasJob(w, j)
    BY <2>1, <2>2 DEF Nowhere, InHand, HasJob, Listed
  <2>4. OneCopy(j) /\ Attempts(j)
    BY <2>1, <2>2, <2>3, NoJobIsNoCopy DEF OneCopy, Once, Attempts, Listed
  <2>5. Deliveries(j)
    BY <2>1, <2>3 DEF Deliveries
  <2> QED
    BY <2>4, <2>5 DEF JobOK
<1> QED
  BY <1>1, <1>2 DEF QueueInv

LEMMA QueueStep == ASSUME QueueInv, [QueueNext]_queueVars PROVE QueueInv'
<1>1. QueueTypeOK' /\ HandsOK'
  BY QueueTypesNext DEF QueueInv
<1>2. ASSUME NEW j \in Jobs PROVE JobOK(j)'
  <2>1. CASE UNCHANGED queueVars
    <3>1. Untouched(j)
      BY <2>1 DEF Untouched, Listed, HasJob, queueVars, lists, worker
    <3> QED
      BY <3>1, UntouchedStays DEF QueueInv
  <2>2. ASSUME NEW i \in Jobs, EnqueueJob(i) \/ RunBackground(i) \/ NextMail(i)
        PROVE  JobOK(j)'
    BY <2>2, EnqueueKeeps, BackgroundKeeps, NextKeeps
  <2>3. ASSUME NEW w \in Workers, WorkerNext(w) \/ Terminate(w) \/ Kill(w) PROVE JobOK(j)'
    BY <2>3, PopKeeps, DiscardKeeps, HandleKeeps, PutBackKeeps, IdleKeeps, KillKeeps DEF WorkerNext
  <2> QED
    BY <2>1, <2>2, <2>3, SnapshotKeeps, RestartKeeps DEF QueueNext
<1> QED
  BY <1>1, <1>2 DEF QueueInv

\* In Background the queue takes its own steps only.
LEMMA QueuePart == [BackgroundNext]_backgroundVars => [QueueNext]_queueVars
BY DEF BackgroundNext, backgroundVars, InQueue, InCache, InCatalogue, InRegistration

LEMMA QueueHolds == BackgroundSpec => []QueueInv
<1>1. BackgroundInit => QueueInv
  BY QueueStartsWell DEF BackgroundInit
<1>2. QueueInv /\ [BackgroundNext]_backgroundVars => QueueInv'
  BY QueueStep, QueuePart
<1> QED
  BY <1>1, <1>2, PTL DEF BackgroundSpec

\* A job that has been handed over and that no fault has hit is in a list, with a
\* worker, or delivered, however often its handler raises and workers are told to stop.
THEOREM JobsStay == BackgroundSpec => []NoJobVanishes
<1>1. QueueInv => NoJobVanishes
  BY DEF QueueInv, JobOK, Deliveries, Nowhere, NoJobVanishes
<1> QED
  BY <1>1, QueueHolds, PTL

\* A second mail needs a lost reply of Redis, a mail server that fails after it took
\* the mail, or an older list after a restart: retries alone send none.
THEOREM OneMailEach == BackgroundSpec => []MailedOnce
<1>1. QueueInv => MailedOnce
  <2> SUFFICES ASSUME QueueInv, NEW j \in Jobs, sent[j] > 1,
                      harm[j] \cap {"again", "resent", "restored"} = {}
               PROVE  FALSE
    BY DEF MailedOnce
  <2>1. harm[j] \cap {"again", "resent"} = {} /\ "restored" \notin harm[j]
    OBVIOUS
  <2>2. sent[j] <= 1 /\ sent[j] \in Nat
    BY <2>1 DEF QueueInv, QueueTypeOK, JobOK, Deliveries
  <2> QED
    BY <2>2
<1> QED
  BY <1>1, QueueHolds, PTL

\* A job is a dead letter after MaxRetries + 1 attempts and not before, is attempted no
\* more often, and is in no list while a worker has it.
THEOREM AttemptsCounted == BackgroundSpec => []FourAttempts
<1>1. QueueInv => FourAttempts
  <2> SUFFICES ASSUME QueueInv, NEW j \in Jobs, "restored" \notin harm[j]
               PROVE  /\ tried[j] <= MaxRetries + 1
                      /\ Listed(j, deadLetter) => tried[j] = MaxRetries + 1
                      /\ InHand(j) => ~Listed(j, queue) /\ ~Listed(j, deadLetter)
    BY DEF FourAttempts
  <2>1. OneCopy(j) /\ Attempts(j)
    BY DEF QueueInv, JobOK
  <2> QED
    BY <2>1 DEF OneCopy, Attempts, InHand, HasJob
<1> QED
  BY <1>1, QueueHolds, PTL

-----------------------------------------------------------------------------
(* The cache *)

LEMMA CacheConstants ==
    /\ ServicesTtl \in Nat \ {0} /\ SeatsTtl \in Nat \ {0} /\ MutexTtl \in Nat \ {0}
    /\ MaxPolls \in Nat \ {0} /\ MaxCompute \in Nat /\ MaxWrites \in Nat
    /\ Free \notin Readers /\ Former \notin Readers
BY CacheAssumption, TokenAssumption

\* A leader whose mutex has not had the time to expire holds it, and for as long as
\* its time says.
LeadersHold ==
    \A r \in Readers :
        /\ ~Computing(r) => leads[r] = "no" /\ took[r] = 0
        /\ leads[r] = "mutex" /\ took[r] < MutexTtl
              => mutex = r /\ mutexTtl = MutexTtl - took[r]

\* An answer is as old as its computation, and then as what is gone of its TTL.
ReadersFit ==
    \A r \in Readers :
        /\ computed[r] <= version
        /\ reading[r] = "store" /\ computed[r] < version => age[computed[r]] <= took[r]

AgesFit ==
    /\ \A v \in Versions : v >= version => age[v] = 0
    /\ ReadersFit
    /\ entry # Missing => entry.version <= version /\ entryTtl > 0
    /\ Stale => age[entry.version] + entryTtl <= Bound

\* The key of a single event has been deleted before the searches are scanned for.
PunctualGone ==
    Stale /\ ~entry.late =>
        \A v \in entry.version + 1 .. version :
            inval[v] # "done" /\ (kind # "list" => inval[v] # "scan")

CacheInv == CacheTypeOK /\ LeadersHold /\ AgesFit /\ PunctualGone

LEMMA TtlType == CacheTypeOK => Ttl \in Nat \ {0} /\ Bound \in Nat
BY CacheConstants DEF CacheTypeOK, Ttl, Bound

-----------------------------------------------------------------------------
LEMMA CacheStarts == CacheInit => CacheInv
<1> SUFFICES ASSUME CacheInit PROVE CacheInv
  OBVIOUS
<1>1. Ttl \in Nat \ {0} /\ Bound \in Nat
  BY CacheConstants DEF Ttl, Bound
<1>2. CacheTypeOK
  BY <1>1, CacheConstants DEF CacheInit, CacheTypeOK, Versions
<1>3. LeadersHold /\ AgesFit /\ PunctualGone
  BY CacheConstants DEF CacheInit, LeadersHold, AgesFit, ReadersFit, PunctualGone, Stale, Versions, Computing
<1> QED
  BY <1>2, <1>3 DEF CacheInv

ReadersOK ==
    /\ reading \in [Readers -> {"idle", "query", "store", "release", "wait"}]
    /\ computed \in [Readers -> Versions] /\ leads \in [Readers -> {"no", "mutex", "error"}]
    /\ took \in [Readers -> 0..MaxCompute] /\ polls \in [Readers -> 0 .. MaxPolls - 1]

\* A reader that is answered leads no more and computes no more.
Answered(r) ==
    \A q \in Readers :
        \/ /\ reading'[q] = reading[q] /\ computed'[q] = computed[q]
           /\ leads'[q] = leads[q] /\ took'[q] = took[q] /\ q # r
        \/ reading'[q] = "idle" /\ computed'[q] = 0 /\ leads'[q] = "no" /\ took'[q] = 0 /\ q = r

LEMMA Answers ==
    ASSUME CacheInv, NEW r \in Readers, Answer(r) PROVE ReadersOK' /\ Answered(r)
<1>1. ReadersOK /\ 0 \in Versions /\ 0 \in 0..MaxCompute /\ 0 \in 0 .. MaxPolls - 1
  BY CacheConstants DEF CacheInv, CacheTypeOK, ReadersOK, Versions
<1>2. /\ reading' = [reading EXCEPT ![r] = "idle"] /\ computed' = [computed EXCEPT ![r] = 0]
      /\ leads' = [leads EXCEPT ![r] = "no"] /\ took' = [took EXCEPT ![r] = 0]
      /\ polls' = [polls EXCEPT ![r] = 0]
  BY DEF Answer, GoTo
<1>3. ReadersOK'
  BY <1>1, <1>2 DEF ReadersOK
<1>4. Answered(r)
  BY <1>1, <1>2 DEF ReadersOK, Answered
<1> QED
  BY <1>3, <1>4

LEMMA AnsweredFits ==
    ASSUME CacheInv, NEW r \in Readers, Answered(r), UNCHANGED <<version, age>>
    PROVE  ReadersFit'
<1> SUFFICES ASSUME NEW q \in Readers
             PROVE  /\ computed'[q] <= version
                    /\ reading'[q] = "store" /\ computed'[q] < version
                          => age[computed'[q]] <= took'[q]
  BY DEF ReadersFit
<1>1. CASE q = r
  BY <1>1, CacheConstants DEF Answered, CacheInv, CacheTypeOK, Versions
<1>2. CASE q # r
  BY <1>2 DEF Answered, CacheInv, AgesFit, ReadersFit
<1> QED
  BY <1>1, <1>2

LEMMA BeginKeeps ==
    ASSUME CacheInv, NEW r \in Readers, Begin(r) PROVE CacheInv'
<1>1. CacheTypeOK'
  BY CacheConstants DEF CacheInv, CacheTypeOK, Begin, GoTo, Ttl, Bound, stored, guarded
<1>2. LeadersHold'
  BY CacheConstants DEF CacheInv, CacheTypeOK, LeadersHold, Begin, GoTo, guarded, Computing
<1>3. AgesFit' /\ PunctualGone'
  BY DEF CacheInv, CacheTypeOK, AgesFit, ReadersFit, PunctualGone, Begin, GoTo, Stale, stored, Ttl, Bound
<1> QED
  BY <1>1, <1>2, <1>3 DEF CacheInv

LEMMA QueryKeeps ==
    ASSUME CacheInv, NEW r \in Readers, Query(r) PROVE CacheInv'
<1> USE DEF CacheInv
<1>0. /\ reading[r] = "query"
      /\ UNCHANGED <<kind, version, shown, entry, entryTtl, mutex, mutexTtl, inval, age>>
      /\ Ttl' = Ttl /\ Bound' = Bound /\ (Stale' <=> Stale)
  BY DEF Query, stored, guarded, Ttl, Bound, Stale
<1>1. CASE Finds(r)
  <2>1. CacheTypeOK'
    BY <1>0, <1>1 DEF CacheTypeOK, Finds, GoTo
  <2>2. LeadersHold'
    BY <1>0, <1>1 DEF CacheTypeOK, LeadersHold, Finds, GoTo, Computing
  <2>3. AgesFit' /\ PunctualGone'
    BY <1>0, <1>1, CacheConstants
       DEF CacheTypeOK, AgesFit, ReadersFit, PunctualGone, Finds, GoTo, Versions
  <2> QED
    BY <2>1, <2>2, <2>3
<1>2. CASE FindsNothing(r) /\ ~Answer(r)
  <2>1. CacheTypeOK'
    BY <1>0, <1>2 DEF CacheTypeOK, FindsNothing, GoTo
  <2>2. LeadersHold'
    BY <1>0, <1>2 DEF CacheTypeOK, LeadersHold, FindsNothing, GoTo, Computing
  <2>3. AgesFit' /\ PunctualGone'
    BY <1>0, <1>2 DEF CacheTypeOK, AgesFit, ReadersFit, PunctualGone, FindsNothing, GoTo
  <2> QED
    BY <2>1, <2>2, <2>3
<1>3. CASE Answer(r)
  <2>0. ReadersOK' /\ Answered(r)
    BY <1>3, Answers
  <2>1. CacheTypeOK'
    BY <1>0, <2>0 DEF CacheTypeOK, ReadersOK
  <2>2. LeadersHold'
    BY <1>0, <2>0 DEF LeadersHold, Computing, Answered
  <2>3. AgesFit'
    BY <1>0, <2>0, AnsweredFits DEF AgesFit
  <2>4. PunctualGone'
    BY <1>0 DEF PunctualGone
  <2> QED
    BY <2>1, <2>2, <2>3, <2>4
<1> QED
  BY <1>1, <1>2, <1>3 DEF Query

LEMMA StoreKeeps ==
    ASSUME CacheInv, NEW r \in Readers, StoreEntry(r) PROVE CacheInv'
<1> USE DEF CacheInv
<1>0. /\ reading[r] = "store"
      /\ UNCHANGED <<kind, version, shown, mutex, mutexTtl, inval, age>>
      /\ Ttl' = Ttl /\ Bound' = Bound /\ Ttl \in Nat \ {0} /\ Bound \in Nat
  BY TtlType DEF StoreEntry, guarded, Ttl, Bound
<1>1. /\ entry' \in [version : Versions, late : BOOLEAN] \cup {Missing} /\ entryTtl' \in 0..Ttl
      /\ entry' # Missing => entry'.version <= version /\ entryTtl' > 0
      /\ Stale' => age[entry'.version] + entryTtl' <= Bound
      /\ Stale' /\ ~entry'.late =>
            /\ Stale /\ entry' = entry
  <2>1. CASE UNCHANGED <<entry, entryTtl>>
    BY <1>0, <2>1 DEF CacheTypeOK, AgesFit, ReadersFit, Stale
  <2>2. CASE /\ entry' = [version |-> computed[r], late |-> computed[r] # version]
             /\ entryTtl' = Ttl
    <3>1. computed[r] \in Nat /\ version \in Nat /\ took[r] \in 0..MaxCompute
      BY CacheConstants DEF CacheTypeOK, Versions
    <3>2. computed[r] < version => age[computed[r]] \in Nat /\ age[computed[r]] <= MaxCompute
      BY <1>0, <3>1, CacheConstants DEF CacheTypeOK, AgesFit, ReadersFit
    <3>3. Stale' => computed[r] < version
      BY <1>0, <2>2 DEF Stale
    <3>4. entry'.version = computed[r] /\ (entry'.late <=> computed[r] # version)
      BY <2>2
    <3>5. entry' \in [version : Versions, late : BOOLEAN]
      BY <2>2 DEF CacheTypeOK
    <3>6. Stale' => age[entry'.version] + entryTtl' <= Bound
      BY <1>0, <2>2, <3>1, <3>2, <3>3, <3>4, CacheConstants DEF Bound
    <3> QED
      BY <1>0, <2>2, <3>1, <3>3, <3>4, <3>5, <3>6 DEF AgesFit, ReadersFit
  <2> QED
    BY <2>1, <2>2 DEF StoreEntry, stored
<1>4. PunctualGone'
  BY <1>0, <1>1 DEF PunctualGone
<1>2. CASE Answer(r)
  <2>0. ReadersOK' /\ Answered(r)
    BY <1>2, Answers
  <2>1. CacheTypeOK'
    BY <1>0, <1>1, <2>0 DEF CacheTypeOK, ReadersOK
  <2>2. LeadersHold'
    BY <1>0, <2>0 DEF LeadersHold, Computing, Answered
  <2>3. AgesFit'
    BY <1>0, <1>1, <2>0, AnsweredFits DEF AgesFit
  <2> QED
    BY <1>4, <2>1, <2>2, <2>3
<1>3. CASE /\ GoTo(r, "release")
           /\ computed' = [computed EXCEPT ![r] = 0]
           /\ UNCHANGED <<leads, took, polls>>
  <2>0. ReadersOK'
    BY <1>3, CacheConstants DEF CacheTypeOK, GoTo, Versions, ReadersOK
  <2>1. CacheTypeOK'
    BY <1>0, <1>1, <2>0 DEF CacheTypeOK, ReadersOK
  <2>2. LeadersHold'
    BY <1>0, <1>3 DEF CacheTypeOK, LeadersHold, GoTo, Computing
  <2>3. AgesFit'
    BY <1>0, <1>1, <1>3, CacheConstants DEF CacheTypeOK, AgesFit, ReadersFit, GoTo, Versions
  <2> QED
    BY <1>4, <2>1, <2>2, <2>3
<1> QED
  BY <1>2, <1>3 DEF StoreEntry

LEMMA ReleaseKeeps ==
    ASSUME CacheInv, NEW r \in Readers, Release(r) PROVE CacheInv'
<1> USE DEF CacheInv
<1>0. /\ Answer(r)
      /\ UNCHANGED <<kind, version, shown, entry, entryTtl, inval, age>>
      /\ Ttl' = Ttl /\ Bound' = Bound /\ (Stale' <=> Stale)
  BY DEF Release, stored, Ttl, Bound, Stale
<1>1. /\ mutex' \in Readers \cup {Free, Former} /\ mutexTtl' \in 0..MutexTtl
      /\ mutex # r => UNCHANGED <<mutex, mutexTtl>>
  BY CacheConstants DEF Release, guarded, CacheTypeOK
<1>2. ReadersOK' /\ Answered(r)
  BY <1>0, Answers
<1>3. CacheTypeOK'
  BY <1>0, <1>1, <1>2 DEF CacheTypeOK, ReadersOK
<1>4. LeadersHold'
  BY <1>0, <1>1, <1>2 DEF LeadersHold, Computing, Answered
<1>5. AgesFit'
  BY <1>0, <1>2, AnsweredFits DEF AgesFit
<1>6. PunctualGone'
  BY <1>0 DEF PunctualGone
<1> QED
  BY <1>3, <1>4, <1>5, <1>6

LEMMA PollKeeps ==
    ASSUME CacheInv, NEW r \in Readers, Poll(r) PROVE CacheInv'
<1> USE DEF CacheInv
<1>0. /\ UNCHANGED <<kind, version, shown, entry, entryTtl, mutex, mutexTtl, inval, age>>
      /\ Ttl' = Ttl /\ Bound' = Bound /\ (Stale' <=> Stale)
  BY DEF Poll, stored, guarded, Ttl, Bound, Stale
<1>1. CASE Answer(r)
  <2>0. ReadersOK' /\ Answered(r)
    BY <1>1, Answers
  <2>1. CacheTypeOK'
    BY <1>0, <2>0 DEF CacheTypeOK, ReadersOK
  <2>2. LeadersHold'
    BY <1>0, <2>0 DEF LeadersHold, Computing, Answered
  <2>3. AgesFit'
    BY <1>0, <2>0, AnsweredFits DEF AgesFit
  <2>4. PunctualGone'
    BY <1>0 DEF PunctualGone
  <2> QED
    BY <2>1, <2>2, <2>3, <2>4
<1>2. CASE /\ polls[r] + 1 < MaxPolls
           /\ polls' = [polls EXCEPT ![r] = @ + 1]
           /\ UNCHANGED <<reading, computed, leads, took>>
  <2>1. CacheTypeOK'
    BY <1>0, <1>2, CacheConstants DEF CacheTypeOK
  <2>2. LeadersHold' /\ AgesFit' /\ PunctualGone'
    BY <1>0, <1>2 DEF LeadersHold, Computing, AgesFit, ReadersFit, PunctualGone
  <2> QED
    BY <2>1, <2>2
<1> QED
  BY <1>1, <1>2 DEF Poll

-----------------------------------------------------------------------------
LEMMA CommitKeeps == ASSUME CacheInv, Commit PROVE CacheInv'
<1> USE DEF CacheInv
<1>0. /\ version \in Nat /\ version' = version + 1 /\ version < MaxWrites
      /\ UNCHANGED <<kind, entry, entryTtl, mutex, mutexTtl, age>>
      /\ UNCHANGED <<reading, computed, leads, took, polls>>
      /\ Ttl' = Ttl /\ Bound' = Bound /\ Ttl \in Nat \ {0} /\ Bound \in Nat
  BY TtlType, CacheConstants DEF Commit, stored, guarded, readers, Ttl, Bound, CacheTypeOK, Versions
<1>1. PICK first \in {"delete", "scan_all"} : inval' = [inval EXCEPT ![version + 1] = first]
  BY DEF Commit
<1>2. CacheTypeOK'
  <2>1. version' \in Versions
    BY <1>0, CacheConstants DEF Versions
  <2>2. shown' \in BOOLEAN
    BY DEF CacheTypeOK, Commit
  <2>3. inval' \in [Versions -> {"none", "delete", "scan", "scan_all", "drop", "done", "lost"}]
    BY <1>1 DEF CacheTypeOK
  <2> QED
    BY <1>0, <2>1, <2>2, <2>3 DEF CacheTypeOK
<1>3. LeadersHold'
  BY <1>0 DEF LeadersHold, Computing
<1>4. AgesFit'
  BY <1>0, CacheConstants DEF CacheTypeOK, AgesFit, ReadersFit, Stale, Bound, Versions
<1>5. PunctualGone'
  BY <1>0, <1>1, CacheConstants DEF CacheTypeOK, AgesFit, ReadersFit, PunctualGone, Stale, Versions
<1> QED
  BY <1>2, <1>3, <1>4, <1>5

LEMMA DeleteKeeps ==
    ASSUME CacheInv, NEW v \in Versions, DeleteKeys(v) PROVE CacheInv'
<1> USE DEF CacheInv
<1>0. /\ UNCHANGED <<kind, version, shown, mutex, mutexTtl, age>>
      /\ UNCHANGED <<reading, computed, leads, took, polls>>
      /\ Ttl' = Ttl /\ Bound' = Bound /\ Ttl \in Nat \ {0} /\ Bound \in Nat
      /\ inval' = [inval EXCEPT ![v] = "scan"]
      /\ \/ entry' = Missing /\ entryTtl' = 0
         \/ kind = "list" /\ UNCHANGED <<entry, entryTtl>>
  BY TtlType, CacheAssumption
     DEF DeleteKeys, stored, guarded, readers, Ttl, Bound, CacheTypeOK
<1>1. CacheTypeOK'
  BY <1>0 DEF CacheTypeOK
<1>2. LeadersHold' /\ AgesFit'
  BY <1>0 DEF LeadersHold, AgesFit, ReadersFit, Computing, Stale
<1>3. PunctualGone'
  BY <1>0, CacheConstants DEF CacheTypeOK, PunctualGone, Stale, Versions
<1> QED
  BY <1>1, <1>2, <1>3

LEMMA ScanKeeps ==
    ASSUME CacheInv, NEW v \in Versions, Scan(v) PROVE CacheInv'
<1> USE DEF CacheInv
<1>0. /\ UNCHANGED <<kind, version, shown, entry, entryTtl, mutex, mutexTtl, age>>
      /\ UNCHANGED <<reading, computed, leads, took, polls>>
      /\ Ttl' = Ttl /\ Bound' = Bound /\ (Stale' <=> Stale)
  BY DEF Scan, stored, guarded, readers, Ttl, Bound, Stale
<1>1. CacheTypeOK'
  BY <1>0 DEF CacheTypeOK, Scan
<1>2. LeadersHold' /\ AgesFit'
  BY <1>0 DEF LeadersHold, AgesFit, ReadersFit, Computing
<1>3. PunctualGone'
  <2> SUFFICES ASSUME Stale, ~entry.late, NEW w \in entry.version + 1 .. version
               PROVE  inval'[w] # "done" /\ (kind # "list" => inval'[w] # "scan")
    BY <1>0 DEF PunctualGone
  <2>1. inval[w] # "done" /\ (kind # "list" => inval[w] # "scan") /\ entry # Missing
    BY DEF PunctualGone, Stale
  <2>2. w = v => inval'[w] = "drop"
    BY <2>1 DEF Scan, CacheTypeOK
  <2>3. w # v => inval'[w] = inval[w]
    BY DEF Scan
  <2> QED
    BY <2>1, <2>2, <2>3
<1> QED
  BY <1>1, <1>2, <1>3

LEMMA DropKeeps ==
    ASSUME CacheInv, NEW v \in Versions, DropFound(v) PROVE CacheInv'
<1> USE DEF CacheInv
<1>0. /\ UNCHANGED <<kind, version, shown, mutex, mutexTtl, age>>
      /\ UNCHANGED <<reading, computed, leads, took, polls>>
      /\ Ttl' = Ttl /\ Bound' = Bound /\ Ttl \in Nat \ {0} /\ entry' = Missing /\ entryTtl' = 0
  BY TtlType DEF DropFound, guarded, readers, Ttl, Bound
<1>1. CacheTypeOK'
  BY <1>0 DEF CacheTypeOK, DropFound
<1>2. LeadersHold' /\ AgesFit' /\ PunctualGone'
  BY <1>0 DEF LeadersHold, AgesFit, ReadersFit, PunctualGone, Computing, Stale
<1> QED
  BY <1>1, <1>2

LEMMA LoseKeeps ==
    ASSUME CacheInv, NEW v \in Versions, LoseInvalidation(v) PROVE CacheInv'
<1> USE DEF CacheInv
<1>0. /\ UNCHANGED <<kind, version, shown, entry, entryTtl, mutex, mutexTtl, age>>
      /\ UNCHANGED <<reading, computed, leads, took, polls>>
      /\ Ttl' = Ttl /\ Bound' = Bound /\ (Stale' <=> Stale)
  BY DEF LoseInvalidation, stored, guarded, readers, Ttl, Bound, Stale
<1>1. CacheTypeOK'
  BY <1>0 DEF CacheTypeOK, LoseInvalidation
<1>2. LeadersHold' /\ AgesFit'
  BY <1>0 DEF LeadersHold, AgesFit, ReadersFit, Computing
<1>3. PunctualGone'
  BY <1>0, CacheConstants DEF CacheTypeOK, PunctualGone, LoseInvalidation, Versions
<1> QED
  BY <1>1, <1>2, <1>3

-----------------------------------------------------------------------------
LEMMA TickKeeps == ASSUME CacheInv, CacheTick PROVE CacheInv'
<1> USE DEF CacheInv
<1>0. /\ UNCHANGED <<kind, version, shown, reading, computed, leads, polls, inval>>
      /\ Ttl' = Ttl /\ Bound' = Bound /\ Ttl \in Nat \ {0} /\ Bound \in Nat
      /\ \A r \in Readers : Computing(r)' <=> Computing(r)
  BY TtlType DEF CacheTick, Ttl, Bound, Computing
<1>1. \A r \in Readers : /\ took[r] \in 0..MaxCompute /\ took'[r] \in 0..MaxCompute
                         /\ took'[r] = IF Computing(r) THEN took[r] + 1 ELSE took[r]
  BY CacheConstants DEF CacheTick, CacheTypeOK
<1>2. \A v \in Versions : /\ age[v] \in 0..Bound + 1 /\ age'[v] \in 0..Bound + 1
                          /\ v >= version => age'[v] = age[v]
                          /\ age'[v] <= age[v] + 1
  <2> SUFFICES ASSUME NEW v \in Versions
               PROVE  /\ age[v] \in 0..Bound + 1 /\ age'[v] \in 0..Bound + 1
                      /\ v >= version => age'[v] = age[v]
                      /\ age'[v] <= age[v] + 1
    OBVIOUS
  <2>1. age[v] \in 0..Bound + 1 /\ v \in Nat /\ version \in Nat
    BY CacheConstants DEF CacheTypeOK, Versions
  <2>2. age'[v] = IF v < version /\ age[v] <= Bound THEN age[v] + 1 ELSE age[v]
    BY DEF CacheTick
  <2> QED
    BY <1>0, <2>1, <2>2
<1>3. CacheTypeOK'
  <2>1. took' \in [Readers -> 0..MaxCompute] /\ age' \in [Versions -> 0..Bound + 1]
    BY <1>1, <1>2 DEF CacheTick
  <2>2. /\ entry' \in [version : Versions, late : BOOLEAN] \cup {Missing}
        /\ mutex' \in Readers \cup {Free, Former}
        /\ entryTtl' \in 0..Ttl /\ mutexTtl' \in 0..MutexTtl
    BY <1>0, CacheConstants DEF CacheTypeOK, CacheTick
  <2> QED
    BY <1>0, <2>1, <2>2 DEF CacheTypeOK
<1>4. LeadersHold'
  <2> SUFFICES ASSUME NEW r \in Readers
               PROVE  /\ ~Computing(r) => leads[r] = "no" /\ took'[r] = 0
                      /\ leads[r] = "mutex" /\ took'[r] < MutexTtl
                            => mutex' = r /\ mutexTtl' = MutexTtl - took'[r]
    BY <1>0 DEF LeadersHold
  <2>1. ~Computing(r) => leads[r] = "no" /\ took'[r] = 0
    BY <1>1 DEF LeadersHold
  <2>2. ASSUME leads[r] = "mutex", took'[r] < MutexTtl
        PROVE  mutex' = r /\ mutexTtl' = MutexTtl - took'[r]
    <3>1. took'[r] = took[r] + 1
      BY <1>1, <2>2 DEF LeadersHold
    <3>2. mutex = r /\ mutexTtl = MutexTtl - took[r] /\ mutexTtl > 1
      BY <1>1, <2>2, <3>1, CacheConstants DEF LeadersHold
    <3> QED
      BY <1>1, <3>1, <3>2, CacheConstants DEF CacheTick
  <2> QED
    BY <2>1, <2>2
<1>5. AgesFit'
  <2>1. \A v \in Versions : v >= version => age'[v] = 0
    BY <1>2 DEF AgesFit, ReadersFit
  <2>2. ASSUME NEW r \in Readers, reading[r] = "store", computed[r] < version
        PROVE  age'[computed[r]] <= took'[r]
    <3>1. Computing(r) /\ computed[r] \in Versions
      BY <2>2 DEF Computing, CacheTypeOK
    <3> QED
      BY <1>1, <1>2, <2>2, <3>1, CacheConstants DEF AgesFit, ReadersFit
  <2>3. entry' # Missing => entry' = entry /\ entryTtl > 1 /\ entryTtl' = entryTtl - 1
    BY <1>0 DEF CacheTick, AgesFit, ReadersFit, CacheTypeOK
  <2>4. Stale' => age'[entry'.version] + entryTtl' <= Bound
    <3> SUFFICES ASSUME Stale' PROVE age'[entry'.version] + entryTtl' <= Bound
      OBVIOUS
    <3>1. Stale /\ entry' = entry /\ entryTtl' = entryTtl - 1 /\ entry.version \in Versions
      BY <1>0, <2>3 DEF Stale, CacheTypeOK
    <3> QED
      BY <1>0, <1>2, <3>1 DEF AgesFit, ReadersFit, CacheTypeOK
  <2> QED
    BY <1>0, <2>1, <2>2, <2>3, <2>4 DEF AgesFit, ReadersFit, CacheTypeOK
<1>6. PunctualGone'
  BY <1>0 DEF PunctualGone, Stale, CacheTick
<1> QED
  BY <1>3, <1>4, <1>5, <1>6

-----------------------------------------------------------------------------
LEMMA CacheStep == ASSUME CacheInv, [CacheNext]_cacheVars PROVE CacheInv'
<1>1. CASE UNCHANGED cacheVars
  BY <1>1 DEF CacheInv, CacheTypeOK, LeadersHold, AgesFit, ReadersFit, PunctualGone, Stale, Computing,
              Ttl, Bound, cacheVars, stored, guarded, readers
<1>2. ASSUME NEW r \in Readers, Begin(r) \/ ReaderStep(r) PROVE CacheInv'
  BY <1>2, BeginKeeps, QueryKeeps, StoreKeeps, ReleaseKeeps, PollKeeps DEF ReaderStep
<1>3. ASSUME NEW v \in Versions, DeleteKeys(v) \/ Scan(v) \/ DropFound(v) \/ LoseInvalidation(v)
      PROVE  CacheInv'
  BY <1>3, DeleteKeeps, ScanKeeps, DropKeeps, LoseKeeps
<1> QED
  BY <1>1, <1>2, <1>3, CommitKeeps, TickKeeps DEF CacheNext

\* In Background the cache takes its own steps only.
LEMMA CachePart == [BackgroundNext]_backgroundVars => [CacheNext]_cacheVars
BY DEF BackgroundNext, backgroundVars, InQueue, InCache, InCatalogue, InRegistration

LEMMA CacheSound == BackgroundSpec => []CacheInv
<1>1. BackgroundInit => CacheInv
  BY CacheStarts DEF BackgroundInit
<1>2. CacheInv /\ [BackgroundNext]_backgroundVars => CacheInv'
  BY CacheStep, CachePart
<1> QED
  BY <1>1, <1>2, PTL DEF BackgroundSpec

\* No stale answer is in the cache for longer than one computation and one TTL, for
\* any number of readers and commits, whichever invalidations are lost.
THEOREM StaleEnds == BackgroundSpec => []StalenessBounded
<1>1. CacheInv => StalenessBounded
  BY TtlType, CacheConstants DEF CacheInv, AgesFit, ReadersFit, StalenessBounded, CacheTypeOK, Stale
<1> QED
  BY <1>1, CacheSound, PTL

\* An answer that was in the cache before a commit is not there when an invalidation
\* has come to its end.
THEOREM InvalidationWorks == BackgroundSpec => []InvalidationReaches
<1>1. CacheInv => InvalidationReaches
  BY DEF CacheInv, PunctualGone, InvalidationReaches
<1> QED
  BY <1>1, CacheSound, PTL

\* As long as nobody computes for longer than the mutex lives, one winner computes.
THEOREM LeaderAlone == BackgroundSpec => []OneLeader
<1>1. CacheInv => OneLeader
  BY CacheConstants DEF CacheInv, CacheTypeOK, LeadersHold, OneLeader
<1> QED
  BY <1>1, CacheSound, PTL

\* Whoever releases the mutex holds it.
THEOREM ReleaseIsOwn == BackgroundSpec => ReleasesOwn
<1>1. ASSUME CacheInv, [CacheNext]_cacheVars, mutex # Free, mutex' = Free
      PROVE  \/ mutexTtl = 1 /\ UNCHANGED reading
             \/ \E r \in Readers : mutex = r /\ reading[r] = "release"
  <2>1. CASE UNCHANGED mutex
    BY <1>1, <2>1
  <2>2. ASSUME NEW r \in Readers, Begin(r) \/ ReaderStep(r), mutex' # mutex
        PROVE  \E q \in Readers : mutex = q /\ reading[q] = "release"
    <3>1. CASE Begin(r)
      BY <1>1, <2>2, <3>1, CacheConstants DEF Begin, guarded
    <3>2. CASE Release(r)
      BY <1>1, <2>2, <3>2 DEF Release, guarded
    <3> QED
      BY <2>2, <3>1, <3>2 DEF ReaderStep, Query, StoreEntry, Poll, guarded
  <2>3. CASE CacheTick
    BY <1>1, <2>3 DEF CacheTick
  <2> QED
    BY <1>1, <2>1, <2>2, <2>3
       DEF CacheNext, Commit, DeleteKeys, Scan, DropFound, LoseInvalidation, guarded, cacheVars
<1>2. CacheInv /\ [BackgroundNext]_backgroundVars
        => [mutex # Free /\ mutex' = Free
              => \/ mutexTtl = 1 /\ UNCHANGED reading
                 \/ \E r \in Readers : mutex = r /\ reading[r] = "release"]_cacheVars
  BY <1>1, CachePart
<1> QED
  BY <1>2, CacheSound, PTL DEF BackgroundSpec, ReleasesOwn

-----------------------------------------------------------------------------
\* The four parts keep their types, for every value of the constants.
THEOREM BackgroundTypes == BackgroundSpec => []BackgroundTypeOK
<1>1. QueueInv /\ CacheInv /\ CatInv /\ RegInv => BackgroundTypeOK
  BY DEF QueueInv, CacheInv, CatInv, CatTypeOK, RegInv, RegTypeOK, BackgroundTypeOK
<1> QED
  BY <1>1, QueueHolds, CacheSound, CatalogueHolds, RegistrationHolds, PTL
=============================================================================
