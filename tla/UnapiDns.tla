------------------------------ MODULE UnapiDns ------------------------------
(***************************************************************************)
(* The resolver half of src/unapinet.c: the frame loop (the thread that    *)
(* runs the Z80 and every port handler) and the SDL threads that run       *)
(* dns_worker.  A section between SDL_LockMutex and SDL_UnlockMutex never  *)
(* blocks inside, so it is one step; everything else that another thread   *)
(* can fall between is a step of its own, ordered by "pc".                 *)
(*                                                                         *)
(* Bound: MaxGeneration caps dns_generation (unsigned): no reset and no    *)
(* query begins once it is reached, while what has begun runs to its end.  *)
(***************************************************************************)
EXTENDS Naturals

CONSTANTS
    Host,           \* names a guest may put in the parameter buffer
    NoHost,
    Literal,        \* those that inet_pton accepts
    Addr, NoAddr,   \* IPv4 addresses; NoAddr is 0
    AddressesOf,    \* what getaddrinfo may answer for a name
    MaxGeneration

ASSUME HostAssumption == Literal \subseteq Host /\ NoHost \notin Host
ASSUME AddrAssumption == NoAddr \notin Addr
ASSUME AnswerAssumption ==
    /\ AddressesOf \in [Host -> SUBSET Addr]
    /\ \A h \in Literal : AddressesOf[h] # {}
ASSUME BoundAssumption == MaxGeneration \in Nat

VARIABLES
    alive,          \* between unapinet_create and the free() of destroy
    enabled,
    pc,             \* where the frame loop is
    job,            \* the hostname of the DnsJob the handler prepares
    dns_state,      \* 0 idle, 1 pending, 2 resolved, 3 failed
    dns_ip,
    dns_generation,
    dns_thread,     \* n->dns_thread is not NULL
    worker,         \* the thread behind the handle
    activity,
    reply,          \* the result buffer the last command left for the guest
    asked           \* history: the name of the query dns_state speaks of

vars == <<alive, enabled, pc, job, dns_state, dns_ip, dns_generation,
          dns_thread, worker, activity, reply, asked>>

NoWorker == [pc |-> "none", host |-> NoHost, generation |-> 0,
             ip |-> NoAddr, success |-> FALSE]
Started(host, generation) ==
    [pc |-> "resolving", host |-> host, generation |-> generation,
     ip |-> NoAddr, success |-> FALSE]
NoReply == [code |-> 0, ip |-> NoAddr, status |-> "ok"]
Answer(code, ip) == [code |-> code, ip |-> ip, status |-> "data"]
ProtocolError == [code |-> 0, ip |-> NoAddr, status |-> "error"]

Pcs == {"idle", "reset_activity", "query_parse", "query_join",
        "query_publish", "query_spawn", "destroy_join", "destroy_reset",
        "destroyed"}
WorkerPcs == {"none", "resolving", "publish", "done"}

\* unapinet_destroy increments it twice more.
Generation == 0..(MaxGeneration + 2)

Worker == [pc : WorkerPcs, host : Host \cup {NoHost},
           generation : Generation, ip : Addr \cup {NoAddr},
           success : BOOLEAN]
Reply == [code : {0, 1, 2, 255}, ip : Addr \cup {NoAddr},
          status : {"ok", "error", "data"}]

\* Every variable has its type.
TypeOK ==
    /\ alive \in BOOLEAN /\ enabled \in BOOLEAN
    /\ pc \in Pcs
    /\ job \in Host \cup {NoHost}
    /\ dns_state \in 0..3
    /\ dns_ip \in Addr \cup {NoAddr}
    /\ dns_generation \in Generation
    /\ dns_thread \in BOOLEAN
    /\ worker \in Worker
    /\ activity \in BOOLEAN
    /\ reply \in Reply
    /\ asked \in Host \cup {NoHost}

Init ==
    /\ alive = TRUE /\ enabled = FALSE /\ pc = "idle" /\ job = NoHost
    /\ dns_state = 0 /\ dns_ip = NoAddr /\ dns_generation = 0
    /\ dns_thread = FALSE /\ worker = NoWorker
    /\ activity = FALSE /\ reply = NoReply /\ asked = NoHost

-----------------------------------------------------------------------------
(* The frame loop.                                                         *)

\* The critical section of unapinet_reset.
CancelDnsKeepsState ==
    /\ dns_generation' = dns_generation + 1
    /\ asked' = NoHost
    /\ UNCHANGED <<dns_state, dns_ip>>
CancelDns ==
    /\ dns_generation' = dns_generation + 1
    /\ dns_state' = 0 /\ dns_ip' = NoAddr
    /\ asked' = NoHost

\* unapinet_reset up to its unlock; the flag is cleared after it.
Reset ==
    /\ pc = "idle" /\ dns_generation < MaxGeneration
    /\ CancelDns
    /\ reply' = NoReply
    /\ pc' = "reset_activity"
    /\ UNCHANGED <<alive, enabled, job, dns_thread, worker, activity>>

ResetActivity ==
    /\ pc = "reset_activity"
    /\ activity' = FALSE
    /\ pc' = "idle"
    /\ UNCHANGED <<alive, enabled, job, dns_state, dns_ip, dns_generation,
                   dns_thread, worker, reply, asked>>

Enable ==
    /\ pc = "idle" /\ ~enabled
    /\ enabled' = TRUE
    /\ UNCHANGED <<alive, pc, job, dns_state, dns_ip, dns_generation,
                   dns_thread, worker, activity, reply, asked>>

Disable ==
    /\ pc = "idle" /\ enabled /\ dns_generation < MaxGeneration
    /\ enabled' = FALSE
    /\ CancelDns
    /\ reply' = NoReply
    /\ pc' = "reset_activity"
    /\ UNCHANGED <<alive, job, dns_thread, worker, activity>>

\* Command 0x01.  "Nothing" stands for an empty parameter buffer or a failed
\* malloc: the handler answers with a protocol error.
QueryCheck(h) ==
    /\ pc = "idle" /\ enabled /\ dns_generation < MaxGeneration
    /\ IF dns_state = 1
       THEN reply' = ProtocolError /\ UNCHANGED <<pc, job>>
       ELSE pc' = "query_parse" /\ job' = h /\ UNCHANGED reply
    /\ UNCHANGED <<alive, enabled, dns_state, dns_ip, dns_generation,
                   dns_thread, worker, activity, asked>>

QueryNothing ==
    /\ pc = "idle" /\ enabled
    /\ reply' = ProtocolError
    /\ UNCHANGED <<alive, enabled, pc, job, dns_state, dns_ip,
                   dns_generation, dns_thread, worker, activity, asked>>

QueryLiteral ==
    /\ pc = "query_parse" /\ job \in Literal
    /\ \E a \in AddressesOf[job] :
           dns_ip' = a /\ reply' = Answer(1, a)
    /\ dns_state' = 2
    /\ asked' = job /\ job' = NoHost
    /\ pc' = "idle"
    /\ UNCHANGED <<alive, enabled, dns_generation, dns_thread, worker, activity>>

\* An old handle is joined before it is replaced.
QueryName ==
    /\ pc = "query_parse" /\ job \notin Literal
    /\ pc' = IF dns_thread THEN "query_join" ELSE "query_publish"
    /\ UNCHANGED <<alive, enabled, job, dns_state, dns_ip, dns_generation,
                   dns_thread, worker, activity, reply, asked>>

\* SDL_WaitThread returns when the worker did.
QueryJoin ==
    /\ pc = "query_join" /\ worker.pc = "done"
    /\ dns_thread' = FALSE /\ worker' = NoWorker
    /\ pc' = "query_publish"
    /\ UNCHANGED <<alive, enabled, job, dns_state, dns_ip, dns_generation,
                   activity, reply, asked>>

QueryPublish ==
    /\ pc = "query_publish"
    /\ dns_generation' = dns_generation + 1
    /\ dns_state' = 1 /\ dns_ip' = NoAddr
    /\ asked' = job
    /\ pc' = "query_spawn"
    /\ UNCHANGED <<alive, enabled, job, dns_thread, worker, activity, reply>>

\* SDL_CreateThread succeeds or fails; either way the guest is told 0.
QuerySpawn ==
    /\ pc = "query_spawn"
    /\ dns_thread' = TRUE
    /\ worker' = Started(job, dns_generation)
    /\ job' = NoHost /\ reply' = Answer(0, NoAddr) /\ pc' = "idle"
    /\ UNCHANGED <<alive, enabled, dns_state, dns_ip, dns_generation,
                   activity, asked>>

QuerySpawnFailsSilently ==
    /\ pc = "query_spawn"
    /\ job' = NoHost /\ reply' = Answer(0, NoAddr) /\ pc' = "idle"
    /\ UNCHANGED <<alive, enabled, dns_state, dns_ip, dns_generation,
                   dns_thread, worker, activity, asked>>
QuerySpawnFails ==
    /\ pc = "query_spawn"
    /\ dns_state' = 3
    /\ job' = NoHost /\ reply' = Answer(0, NoAddr) /\ pc' = "idle"
    /\ UNCHANGED <<alive, enabled, dns_ip, dns_generation, dns_thread,
                   worker, activity, asked>>

\* Command 0x02.
Status ==
    /\ pc = "idle" /\ enabled
    /\ reply' = CASE dns_state = 2 -> Answer(2, dns_ip)
                  [] dns_state = 3 -> Answer(255, NoAddr)
                  [] OTHER -> Answer(dns_state, NoAddr)
    /\ UNCHANGED <<alive, enabled, pc, job, dns_state, dns_ip,
                   dns_generation, dns_thread, worker, activity, asked>>

\* unapinet_take_activity: the frame loop lights the network LED.
TakeActivity ==
    /\ pc = "idle" /\ activity
    /\ activity' = FALSE
    /\ UNCHANGED <<alive, enabled, pc, job, dns_state, dns_ip,
                   dns_generation, dns_thread, worker, reply, asked>>

\* unapinet_destroy: cancel and wait, reset, free.
MustJoinWhilePending == dns_state = 1
MustJoin == dns_thread
Destroy ==
    /\ pc = "idle"
    /\ IF MustJoin
       THEN /\ dns_generation' = dns_generation + 1
            /\ pc' = "destroy_join"
       ELSE /\ pc' = "destroy_reset"
            /\ UNCHANGED dns_generation
    /\ UNCHANGED <<alive, enabled, job, dns_state, dns_ip, dns_thread,
                   worker, activity, reply, asked>>

DestroyJoin ==
    /\ pc = "destroy_join" /\ worker.pc = "done"
    /\ dns_thread' = FALSE /\ worker' = NoWorker
    /\ pc' = "destroy_reset"
    /\ UNCHANGED <<alive, enabled, job, dns_state, dns_ip, dns_generation,
                   activity, reply, asked>>

DestroyFree ==
    /\ pc = "destroy_reset"
    /\ CancelDns
    /\ reply' = NoReply
    /\ activity' = FALSE
    /\ alive' = FALSE /\ pc' = "destroyed"
    /\ UNCHANGED <<enabled, job, dns_thread, worker>>

-----------------------------------------------------------------------------
(* dns_worker.                                                             *)

\* getaddrinfo returns, after any time and with or without an address.
WorkerResolve ==
    /\ worker.pc = "resolving"
    /\ \/ \E a \in AddressesOf[worker.host] :
              worker' = [worker EXCEPT !.pc = "publish", !.ip = a,
                                       !.success = TRUE]
       \/ worker' = [worker EXCEPT !.pc = "publish"]
    /\ UNCHANGED <<alive, enabled, pc, job, dns_state, dns_ip,
                   dns_generation, dns_thread, activity, reply, asked>>

\* The generation the query was published with is still the current one.
AnyGeneration == TRUE
Current == worker.generation = dns_generation

Outcome(success) == IF success THEN 2 ELSE 3

WorkerPublish ==
    /\ worker.pc = "publish"
    /\ worker' = [worker EXCEPT !.pc = "done"]
    /\ IF Current
       THEN /\ dns_ip' = worker.ip
            /\ dns_state' = Outcome(worker.success)
            /\ activity' = TRUE
       ELSE UNCHANGED <<dns_ip, dns_state, activity>>
    /\ UNCHANGED <<alive, enabled, pc, job, dns_generation, dns_thread,
                   reply, asked>>

-----------------------------------------------------------------------------
QueryStep == QueryLiteral \/ QueryName \/ QueryJoin \/ QueryPublish
             \/ QuerySpawn \/ QuerySpawnFails
DestroyStep == DestroyJoin \/ DestroyFree
WorkerStep == WorkerResolve \/ WorkerPublish
HandlerStep == ResetActivity \/ QueryStep \/ DestroyStep

Next ==
    \/ Reset \/ ResetActivity \/ Enable \/ Disable
    \/ \E h \in Host : QueryCheck(h)
    \/ QueryNothing \/ QueryStep \/ Status \/ TakeActivity
    \/ Destroy \/ DestroyStep
    \/ WorkerStep

Spec == Init /\ [][Next]_vars

\* The host runs a started handler to its end and schedules the worker, whose
\* getaddrinfo gives up eventually.  Nothing is assumed of the guest.
Fairness ==
    WF_vars(HandlerStep) /\ WF_vars(WorkerStep)

FairSpec == Spec /\ Fairness

-----------------------------------------------------------------------------
(* Properties.                                                             *)

\* unapinet_destroy frees the structure the worker writes through: no worker
\* may still have its publication ahead of it (dns_worker, unapinet_destroy).
NoUseAfterFree == ~alive => worker.pc \in {"none", "done"}

\* What a guest reads after a status command is an address of the name it
\* asked for last, whatever happened to earlier queries (cmd_dns_status).
GuestSeesOwnAnswer ==
    pc = "idle" /\ reply.status = "data" /\ reply.code \in {1, 2} /\ reply.ip # NoAddr
        => asked # NoHost /\ reply.ip \in AddressesOf[asked]

\* The guest's view of name resolution: see Resolver.
Phase == CASE dns_state = 0 -> "idle" [] dns_state = 1 -> "pending"
           [] dns_state = 2 -> "resolved" [] dns_state = 3 -> "failed"
Abstract == INSTANCE Resolver WITH phase <- Phase, question <- asked, ip <- dns_ip
ImplementsResolver == Abstract!Spec

\* An accepted query is answered or withdrawn: the guest's polling ends.
QueryEnds == dns_state = 1 ~> dns_state # 1

\* DEVELOPMENT.md:206 "Socket and resolver work must never block the Z80 frame
\* loop": a port handler never waits for a worker that is still resolving.
HandlerNeverWaits == pc = "query_join" => worker.pc = "done"
=============================================================================
