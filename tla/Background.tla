----------------------------- MODULE Background -----------------------------
(***************************************************************************)
(* The parts of the service that surround bookings: the e-mail queue, the  *)
(* cached catalogue, the seller's side of an event, and registration.      *)
(* They share no state, so in a behaviour only one of them is busy.        *)
(***************************************************************************)
EXTENDS JobQueue, Cache, Catalogue, Registration

VARIABLE part

backgroundVars == <<part, queueVars, cacheVars, catalogueVars, registrationVars>>

\* A part that is not busy has one initial state.
BackgroundInit ==
    /\ part \in {"queue", "cache", "catalogue", "registration"}
    /\ QueueInit /\ CacheInit /\ CatalogueInit /\ RegistrationInit
    /\ part # "queue" => queueFaults = CHOOSE b \in FaultBudgets : TRUE
    /\ part # "cache" => kind = CHOOSE k \in KeyKinds : TRUE
    /\ part # "catalogue" => agenda = CHOOSE a \in Agendas : TRUE
    /\ part # "registration" => plan = CHOOSE q \in Plans : TRUE

InQueue(A) ==
    part = "queue" /\ A /\ UNCHANGED <<part, cacheVars, catalogueVars, registrationVars>>
InCache(A) ==
    part = "cache" /\ A /\ UNCHANGED <<part, queueVars, catalogueVars, registrationVars>>
InCatalogue(A) ==
    part = "catalogue" /\ A /\ UNCHANGED <<part, queueVars, cacheVars, registrationVars>>
InRegistration(A) ==
    part = "registration" /\ A /\ UNCHANGED <<part, queueVars, cacheVars, catalogueVars>>

BackgroundNext == \/ InQueue(QueueNext) \/ InCache(CacheNext)
                  \/ InCatalogue(CatalogueNext) \/ InRegistration(RegistrationNext)

(***************************************************************************)
(* The worker goes on, is started again when it has ended, and every SMTP  *)
(* call ends (timeout=10).  A GET that has begun goes on, and time passes. *)
(* Nothing is assumed of those who ask, write, delete or register, or of   *)
(* an invalidation.                                                        *)
(***************************************************************************)
BackgroundSpec ==
    /\ BackgroundInit /\ [][BackgroundNext]_backgroundVars
    /\ \A w \in Workers : WF_backgroundVars(InQueue(WorkerNext(w)))
    /\ \A r \in Readers : WF_backgroundVars(InCache(ReaderStep(r)))
    /\ WF_backgroundVars(InCache(CacheTick))

BackgroundTypeOK ==
    QueueTypeOK /\ CacheTypeOK /\ CatalogueTypeOK /\ RegistrationTypeOK
=============================================================================
