-------------------------------- MODULE Http --------------------------------
(***************************************************************************)
(* The HTTP requests between the threads of the binder (afb-hsrv.c,        *)
(* afb-hreq.c).  libmicrohttpd (MHD) is run by the main loop when its      *)
(* descriptor is readable and by the thread of a reply that resumes a      *)
(* connection; it calls access_handler, which queues the verbs of the apis *)
(* as jobs and suspends the connections whose request is not replied, and  *)
(* end_handler.  A verb is run by a worker thread, that replies.           *)
(*                                                                         *)
(* The fields of the request and in_run are read and written without lock: *)
(* each access is a step.  A call of MHD is one step.  MHD is not made to  *)
(* be run by two threads at once: nothing is said of what follows, the     *)
(* behaviours end there.  A signal may stop a verb anywhere, in its reply  *)
(* and in the MHD that it runs too (afb_sig_req); MHD is taken to be left  *)
(* as it was when it was called last.                                      *)
(***************************************************************************)
EXTENDS Integers, FiniteSets

CONSTANTS
    Main, Workers,  \* the threads
    Conns,          \* connections, of one request each
    None            \* no connection

ASSUME ThreadsAssumption ==
    Main \notin Workers /\ IsFiniteSet(Workers) /\ None \notin Conns

Threads == {Main} \cup Workers

VARIABLES
    in_run,         \* hsrv->in_run
    events,         \* the main loop watches the descriptor of MHD
    signalled,      \* MHD has connections to resume: its descriptor is readable
    conn,           \* the connections, as MHD knows them
    hreq,           \* the requests
    jobs,           \* verbs queued
    pc,             \* where each thread is
    cur,            \* the connection access_handler or end_handler is about
    job,            \* the request whose verb a worker runs
    reg,            \* a reference count read and not written yet
    cut             \* where a signal stopped the verb of a connection

vars == <<in_run, events, signalled, conn, hreq, jobs, pc, cur, job, reg, cut>>
mhdVars == <<in_run, events, signalled>>
threadVars == <<cur, job, reg, cut>>

Init ==
    /\ in_run = 0
    /\ events = TRUE
    /\ signalled = FALSE
    /\ conn = [c \in Conns |-> [st |-> "new", resuming |-> FALSE, responses |-> 0]]
    /\ hreq = [c \in Conns |-> [st |-> "none", refcount |-> 0, replied |-> FALSE,
                                suspended |-> FALSE, upgrade |-> FALSE]]
    /\ jobs = {}
    /\ pc = [t \in Threads |-> IF t = Main THEN "loop" ELSE "idle"]
    /\ cur = [t \in Threads |-> None]
    /\ job = [t \in Threads |-> None]
    /\ reg = [t \in Threads |-> 0]
    /\ cut = [c \in Conns |-> "none"]

Goto(t, l) == pc' = [pc EXCEPT ![t] = l]
At(t, l) == pc[t] = l

(* In MHD_run, or in a handler called by it.                               *)
Running == {t \in Threads : pc[t] \in {"mhd", "handled", "suspend", "flag", "put"}}
Clash == Cardinality(Running) > 1

-----------------------------------------------------------------------------
(* run_micro_httpd.                                                        *)

(* io_event_callback of the main loop.                                     *)
io_event_callback ==
    /\ At(Main, "loop") /\ events
    /\ signalled \/ \E c \in Conns : conn[c].st = "new"
    /\ Goto(Main, "run")
    /\ UNCHANGED <<mhdVars, conn, hreq, jobs, threadVars>>

Return(t) == IF t = Main THEN "loop" ELSE "verb_end"

(* If MHD is run already, its runner is asked to run it again.             *)
RunTest(t) ==
    /\ At(t, "run")
    /\ \/ in_run # 0 /\ in_run' = 2 /\ Goto(t, Return(t))
       \/ in_run = 0 /\ UNCHANGED in_run /\ Goto(t, "enter")
    /\ UNCHANGED <<events, signalled, conn, hreq, jobs, threadVars>>

RunEnter(t) ==
    /\ At(t, "enter")
    /\ in_run' = 1
    /\ events' = FALSE
    /\ Goto(t, "mhd")
    /\ UNCHANGED <<signalled, conn, hreq, jobs, threadVars>>

RunCheck(t) ==
    /\ At(t, "check")
    /\ Goto(t, IF in_run = 2 THEN "enter" ELSE "leave")
    /\ UNCHANGED <<mhdVars, conn, hreq, jobs, threadVars>>

RunLeave(t) ==
    /\ At(t, "leave")
    /\ in_run' = 0
    /\ events' = TRUE
    /\ Goto(t, Return(t))
    /\ UNCHANGED <<signalled, conn, hreq, jobs, threadVars>>

-----------------------------------------------------------------------------
(* MHD_run (external): resumes, serves new connections, ends the replied   *)
(* ones, and returns when nothing is left to do.                           *)

Replied(c) == conn[c].st = "open" /\ conn[c].responses > 0

MhdResume(t) ==
    /\ At(t, "mhd") /\ signalled
    /\ signalled' = FALSE
    /\ conn' = [c \in Conns |-> IF conn[c].st = "suspended" /\ conn[c].resuming
                                THEN [conn[c] EXCEPT !.st = "open", !.resuming = FALSE]
                                ELSE conn[c]]
    /\ UNCHANGED <<in_run, events, hreq, jobs, pc, threadVars>>

MhdReturn(t) ==
    /\ At(t, "mhd") /\ ~signalled /\ ~\E c \in Conns : Replied(c)
    /\ Goto(t, "check")
    /\ UNCHANGED <<mhdVars, conn, hreq, jobs, threadVars>>

NewRequest ==
    [st |-> "live", refcount |-> 1, replied |-> FALSE, suspended |-> FALSE,
     upgrade |-> FALSE]

MutJobRequest == NewRequest

(* The request of a queued verb: the job has its reference.                *)
JobRequest == [NewRequest EXCEPT !.refcount = 2]

(* access_handler, when it makes no request: the method is not one of the  *)
(* binder, or there is no memory.                                          *)
access_handler_refuse(t, c) ==
    /\ At(t, "mhd") /\ conn[c].st = "new"
    /\ conn' = [conn EXCEPT ![c].st = "open", ![c].responses = 1]
    /\ UNCHANGED <<mhdVars, hreq, jobs, pc, threadVars>>

(* access_handler, when a handler is found and has queued the verb of an   *)
(* api as a job.                                                           *)
access_handler_call(t, c) ==
    /\ At(t, "mhd") /\ conn[c].st = "new"
    /\ conn' = [conn EXCEPT ![c].st = "open"]
    /\ hreq' = [hreq EXCEPT ![c] = JobRequest]
    /\ jobs' = jobs \cup {c}
    /\ cur' = [cur EXCEPT ![t] = c]
    /\ Goto(t, "handled")
    /\ UNCHANGED <<mhdVars, job, reg, cut>>

(* access_handler, when the handler replies itself: a file, a redirection, *)
(* an error, or the acceptation of a websocket.                            *)
access_handler_reply(t, c) ==
    /\ At(t, "mhd") /\ conn[c].st = "new"
    /\ conn' = [conn EXCEPT ![c].st = "open", ![c].responses = 1]
    /\ \E up \in BOOLEAN :
         hreq' = [hreq EXCEPT ![c] = [NewRequest EXCEPT !.replied = TRUE, !.upgrade = up]]
    /\ UNCHANGED <<mhdVars, jobs, pc, threadVars>>

(* The connection of a request not replied is suspended, then the request  *)
(* marked so.                                                              *)
HandledTest(t) ==
    /\ At(t, "handled")
    /\ LET h == hreq[cur[t]]
       IN  Goto(t, IF ~h.replied /\ ~h.suspended THEN "suspend" ELSE "mhd")
    /\ UNCHANGED <<mhdVars, conn, hreq, jobs, threadVars>>

MutSuspend(t) ==
    /\ At(t, "suspend")
    /\ hreq' = [hreq EXCEPT ![cur[t]].suspended = TRUE]
    /\ Goto(t, "flag")
    /\ UNCHANGED <<mhdVars, conn, jobs, threadVars>>

Suspend(t) ==
    /\ At(t, "suspend")
    /\ conn' = [conn EXCEPT ![cur[t]].st = "suspended", ![cur[t]].resuming = FALSE]
    /\ Goto(t, "flag")
    /\ UNCHANGED <<mhdVars, hreq, jobs, threadVars>>

Flag(t) ==
    /\ At(t, "flag")
    /\ hreq' = [hreq EXCEPT ![cur[t]].suspended = TRUE]
    /\ Goto(t, "mhd")
    /\ UNCHANGED <<mhdVars, conn, jobs, threadVars>>

(* end_handler: the connection is closed, or kept for the websocket, and   *)
(* the reference of MHD dropped (its count is read here, written below).   *)
end_handler(t, c) ==
    /\ At(t, "mhd") /\ Replied(c) /\ hreq[c].st # "none"
    /\ conn' = [conn EXCEPT ![c].st = IF hreq[c].upgrade THEN "websocket" ELSE "done"]
    /\ cur' = [cur EXCEPT ![t] = c]
    /\ reg' = [reg EXCEPT ![t] = hreq[c].refcount]
    /\ Goto(t, "put")
    /\ UNCHANGED <<mhdVars, hreq, jobs, job, cut>>

(* The verb that worker w runs is stopped: the thread replies an error.    *)
(* What it did of MHD stays as it is, in_run too.                          *)
Places == {"none", "mark", "unflag", "other"}

Stop(w) ==
    /\ cut' = [cut EXCEPT ![job[w]] =
                IF @ # "none" THEN @ ELSE IF pc[w] \in Places THEN pc[w] ELSE "other"]
    /\ reg' = [reg EXCEPT ![w] = 0]
    /\ Goto(w, "verb")
    /\ UNCHANGED <<mhdVars, conn, hreq, jobs, cur, job>>

(* end_handler of a connection without request reads through a null        *)
(* pointer: the signal stops the verb of a worker, and the whole program   *)
(* in the main loop.                                                       *)
end_handler_null(t, c) ==
    /\ At(t, "mhd") /\ Replied(c) /\ hreq[c].st = "none"
    /\ \/ t \in Workers /\ Stop(t)
       \/ t = Main /\ Goto(t, "exit") /\ UNCHANGED <<mhdVars, conn, hreq, jobs, threadVars>>

(* The count read is written, less one; the last reference frees.          *)
Unref(h, r) == [h EXCEPT !.refcount = r - 1, !.st = IF r = 1 THEN "freed" ELSE @]

MhdUnref(t) ==
    /\ At(t, "put")
    /\ hreq' = [hreq EXCEPT ![cur[t]] = Unref(@, reg[t])]
    /\ reg' = [reg EXCEPT ![t] = 0]
    /\ Goto(t, "mhd")
    /\ UNCHANGED <<mhdVars, conn, jobs, cur, job, cut>>

-----------------------------------------------------------------------------
(* The workers: afb_hreq_reply_v, then the reference of the job is         *)
(* dropped.                                                                *)

TakeJob(w, c) ==
    /\ At(w, "idle") /\ c \in jobs
    /\ jobs' = jobs \ {c}
    /\ job' = [job EXCEPT ![w] = c]
    /\ Goto(w, "verb")
    /\ UNCHANGED <<mhdVars, conn, hreq, cur, reg, cut>>

MutMayReply(h) == TRUE

MayReply(h) == ~h.replied

ReplyTest(w) ==
    /\ At(w, "verb")
    /\ Goto(w, IF MayReply(hreq[job[w]]) THEN "queue" ELSE "verb_end")
    /\ UNCHANGED <<mhdVars, conn, hreq, jobs, threadVars>>

ReplyQueue(w) ==
    /\ At(w, "queue")
    /\ conn' = [conn EXCEPT ![job[w]].responses = @ + 1]
    /\ Goto(w, "mark")
    /\ UNCHANGED <<mhdVars, hreq, jobs, threadVars>>

ReplyMark(w) ==
    /\ At(w, "mark")
    /\ hreq' = [hreq EXCEPT ![job[w]].replied = TRUE]
    /\ Goto(w, "test")
    /\ UNCHANGED <<mhdVars, conn, jobs, threadVars>>

MutToResume(h) == ~h.replied /\ h.suspended

ToResume(h) == h.suspended

ReplyTestSuspended(w) ==
    /\ At(w, "test")
    /\ Goto(w, IF ToResume(hreq[job[w]]) THEN "resume" ELSE "verb_end")
    /\ UNCHANGED <<mhdVars, conn, hreq, jobs, threadVars>>

(* MHD_resume_connection: effective at the next MHD_run.                   *)
ReplyResume(w) ==
    /\ At(w, "resume")
    /\ conn' = [conn EXCEPT ![job[w]].resuming = TRUE]
    /\ signalled' = TRUE
    /\ Goto(w, "unflag")
    /\ UNCHANGED <<in_run, events, hreq, jobs, threadVars>>

ReplyUnflag(w) ==
    /\ At(w, "unflag")
    /\ hreq' = [hreq EXCEPT ![job[w]].suspended = FALSE]
    /\ Goto(w, "run")
    /\ UNCHANGED <<mhdVars, conn, jobs, threadVars>>

(* The timer of the verb, armed once, or another signal.                   *)
Abort(w) ==
    /\ job[w] # None /\ pc[w] # "unref" /\ cut[job[w]] = "none"
    /\ Stop(w)

VerbEnd(w) ==
    /\ At(w, "verb_end")
    /\ reg' = [reg EXCEPT ![w] = hreq[job[w]].refcount]
    /\ Goto(w, "unref")
    /\ UNCHANGED <<mhdVars, conn, hreq, jobs, cur, job, cut>>

VerbUnref(w) ==
    /\ At(w, "unref")
    /\ hreq' = [hreq EXCEPT ![job[w]] = Unref(@, reg[w])]
    /\ reg' = [reg EXCEPT ![w] = 0]
    /\ job' = [job EXCEPT ![w] = None]
    /\ Goto(w, "idle")
    /\ UNCHANGED <<mhdVars, conn, jobs, cur, cut>>

-----------------------------------------------------------------------------
MhdStep(t) ==
    \/ RunTest(t) \/ RunEnter(t) \/ RunCheck(t) \/ RunLeave(t)
    \/ MhdResume(t) \/ MhdReturn(t) \/ MhdUnref(t)
    \/ HandledTest(t) \/ Suspend(t) \/ Flag(t)
    \/ \E c \in Conns : end_handler(t, c) \/ end_handler_null(t, c)

ReplyStep(w) ==
    \/ ReplyTest(w) \/ ReplyQueue(w) \/ ReplyMark(w) \/ ReplyTestSuspended(w)
    \/ ReplyResume(w) \/ ReplyUnflag(w) \/ VerbEnd(w) \/ VerbUnref(w)
    \/ \E c \in Conns : TakeJob(w, c)

Next ==
    /\ ~Clash /\ ~At(Main, "exit")
    /\ \/ io_event_callback
       \/ \E t \in Threads : MhdStep(t)
       \/ \E t \in Threads, c \in Conns :
             access_handler_call(t, c) \/ access_handler_reply(t, c) \/ access_handler_refuse(t, c)
       \/ \E w \in Workers : ReplyStep(w) \/ Abort(w)

Spec == Init /\ [][Next]_vars

-----------------------------------------------------------------------------
(* Correctness.                                                            *)

Connections ==
    [st : {"new", "open", "suspended", "websocket", "done"},
     resuming : BOOLEAN, responses : Nat]

Requests ==
    [st : {"none", "live", "freed"}, refcount : 0..2,
     replied : BOOLEAN, suspended : BOOLEAN, upgrade : BOOLEAN]

TypeOK ==
    /\ in_run \in 0..2 /\ events \in BOOLEAN /\ signalled \in BOOLEAN
    /\ conn \in [Conns -> Connections] /\ hreq \in [Conns -> Requests]
    /\ jobs \subseteq Conns
    /\ cur \in [Threads -> Conns \cup {None}] /\ job \in [Threads -> Conns \cup {None}]
    /\ reg \in [Threads -> 0..2] /\ cut \in [Conns -> Places]

(* access_handler replied an error and made no request.                    *)
RefusedConn(c) == conn[c].st = "open" /\ conn[c].responses = 1 /\ hreq[c].st = "none"

(* The request is not freed while MHD or a thread works for it, although   *)
(* the decrements of its count (afb-hreq.c:311) are not atomic and signals *)
(* stop verbs anywhere: a race or a signal may leave a request that is     *)
(* never freed, never free it early.  Only the connections that were       *)
(* refused have none.                                                      *)
RequestsAreHeld ==
    /\ TypeOK
    /\ \A w \in Workers : job[w] # None => hreq[job[w]].st = "live"
    /\ \A c \in jobs : hreq[c].st = "live"
    /\ \A c \in Conns : conn[c].st \in {"open", "suspended"} =>
                        hreq[c].st = "live" \/ RefusedConn(c)

(* "we need to free POST handle here" (afb-hsrv.c:226): a connection that  *)
(* MHD ends has a request to free.  afb-hsrv.c:120 and 127 leave none, and *)
(* afb-hsrv.c:233 reads through it.                                        *)
EndsHaveARequest ==
    \A t \in Threads, c \in Conns : At(t, "mhd") /\ Replied(c) => hreq[c].st = "live"

(* A worker resumes only what is suspended, and once (afb-hreq.c:184); the *)
(* connection it replies to exists still, unless a signal came between the *)
(* response and its mark (afb-hreq.c:180-183) and the reply is the second. *)
(* A connection is suspended without a response only while its verb is to  *)
(* come or runs.                                                           *)
ResumesTheSuspended ==
    /\ \A w \in Workers :
          /\ At(w, "queue") => conn[job[w]].st # "done" \/ cut[job[w]] = "mark"
          /\ At(w, "resume") => conn[job[w]].st = "suspended" /\ ~conn[job[w]].resuming
    /\ \A c \in Conns :
          conn[c].st = "suspended" /\ conn[c].responses = 0 =>
             c \in jobs \/ \E w \in Workers : job[w] = c

NoSignal == \A c \in Conns : cut[c] = "none"

(* A verb that is over does not leave its connection suspended: it is      *)
(* resumed, or will be by the next run of MHD.  The exceptions are the     *)
(* signals and the reply that comes before the mark of the suspension      *)
(* (afb-hsrv.c:209-211): it sees none (afb-hreq.c:184) and the connection  *)
(* is suspended for ever, with its response.                               *)
ReplyIsResumed ==
    [][\A w \in Workers :
         NoSignal /\ ~At(w, "verb_end") /\ At(w, "verb_end")' =>
            \/ conn[job[w]].st # "suspended" \/ conn[job[w]].resuming
            \/ \E t \in Threads : At(t, "flag") /\ cur[t] = job[w]]_vars

(* A request gives one response to MHD, even when a signal stops its verb  *)
(* anywhere and an error is replied in its place; it gives two at most if  *)
(* the signal comes between the response and its mark.                     *)
OneResponse == \A c \in Conns : conn[c].responses <= (IF cut[c] = "mark" THEN 2 ELSE 1)

(* "Sending a reply to a request MUST be done once and only once."         *)
(* (afb-bindings-writing.md:463): the reply of afb_sig_req                 *)
(* (afb-sig-handler.c:86) may be the second one.                           *)
OnceAndOnlyOnce == \A c \in Conns : conn[c].responses <= 1

-----------------------------------------------------------------------------
(* The inductive invariant behind these properties.                        *)

InHandler == {"handled", "suspend", "flag", "put"}
MhdPlaces == {"run", "enter", "mhd", "check", "leave"} \cup InHandler
ReplyPlaces == {"verb", "queue", "mark", "test", "resume", "unflag", "verb_end", "unref"}

PlacesInv ==
    /\ pc \in [Threads -> MhdPlaces \cup ReplyPlaces \cup {"loop", "idle", "exit"}]
    /\ pc[Main] \in MhdPlaces \cup {"loop", "exit"} /\ job[Main] = None
    /\ \A w \in Workers : pc[w] \notin {"loop", "exit"} /\ (pc[w] = "idle" <=> job[w] = None)

(* One thread at most is in a handler, about a connection that MHD cannot  *)
(* end under it.                                                           *)
HandlerInv ==
    \A t \in Threads : pc[t] \in InHandler =>
        /\ cur[t] \in Conns
        /\ \A u \in Threads : pc[u] \in InHandler => u = t
        /\ pc[t] \in {"handled", "suspend"} => conn[cur[t]].st = "open"
        /\ pc[t] = "flag" => conn[cur[t]].st = "suspended" /\ ~conn[cur[t]].resuming
        /\ pc[t] = "put" => conn[cur[t]].st \in {"websocket", "done"}
        /\ pc[t] # "put" => ~hreq[cur[t]].suspended /\ hreq[cur[t]].st # "none"

JobHas(c) == c \in jobs \/ \E w \in Workers : job[w] = c

(* A request has one job at most, and none before access_handler.          *)
JobInv ==
    /\ \A c \in jobs : conn[c].st # "new" /\ \A w \in Workers : job[w] # c
    /\ \A w \in Workers : job[w] # None =>
          /\ conn[job[w]].st # "new"
          /\ \A v \in Workers : job[v] = job[w] => v = w

(* The response is counted, then marked, and MHD ends what has one.  Only  *)
(* a signal between the two gives a second.                                *)
Twice(c) == conn[c].responses = 2 /\ cut[c] = "mark"

ReplyInv ==
    /\ \A c \in Conns :
          /\ conn[c].st = "new" => conn[c].responses = 0 /\ hreq[c].st = "none" /\ cut[c] = "none"
          /\ conn[c].st \in {"websocket", "done"} => conn[c].responses >= 1
          /\ conn[c].responses \in 0..1 \/ Twice(c)
          /\ conn[c].st \in {"open", "suspended"} /\ conn[c].responses = 0 => JobHas(c)
    /\ \A c \in jobs : conn[c].responses = 0 /\ ~hreq[c].replied /\ cut[c] = "none"
    /\ \A w \in Workers : job[w] # None =>
          /\ pc[w] = "queue" \/ (pc[w] = "verb" /\ ~hreq[job[w]].replied) =>
                conn[job[w]].responses = 0 \/ (conn[job[w]].responses = 1 /\ cut[job[w]] = "mark")
          /\ pc[w] = "mark" => conn[job[w]].responses = 1 \/ Twice(job[w])
          /\ pc[w] \in {"queue", "mark"} => ~hreq[job[w]].replied
          /\ pc[w] \notin {"verb", "queue", "mark"} => hreq[job[w]].replied
          /\ pc[w] \notin {"verb", "queue"} \/ hreq[job[w]].replied => conn[job[w]].responses >= 1

(* A request marked suspended is so, until its worker resumes it, or is    *)
(* stopped there by a signal.                                              *)
SuspendInv ==
    /\ \A c \in Conns :
          hreq[c].suspended =>
            \/ conn[c].st = "suspended" /\ ~conn[c].resuming
            \/ \E w \in Workers : pc[w] = "unflag" /\ job[w] = c
            \/ cut[c] = "unflag"
    /\ \A c \in Conns : cut[c] = "unflag" => hreq[c].replied
    /\ \A w \in Workers :
          /\ pc[w] \in {"resume", "unflag"} => hreq[job[w]].suspended
          /\ pc[w] \in {"queue", "mark", "test", "resume", "unflag"} => cut[job[w]] # "unflag"

(* MHD and the job each have a reference; a count that was read is the one *)
(* of both as long as both have theirs.                                    *)
MhdHas(c) ==
    \/ conn[c].st \in {"open", "suspended"} /\ hreq[c].st # "none"
    \/ \E t \in Threads : pc[t] = "put" /\ cur[t] = c

RefInv ==
    /\ \A c \in Conns :
          /\ conn[c].st \in {"open", "suspended"} => MhdHas(c) \/ RefusedConn(c)
          /\ MhdHas(c) \/ JobHas(c) => hreq[c].st = "live" /\ hreq[c].refcount >= 1
          /\ MhdHas(c) /\ JobHas(c) => hreq[c].refcount = 2
    /\ \A t \in Threads : pc[t] = "put" =>
          reg[t] >= 1 /\ (JobHas(cur[t]) => reg[t] = 2)
    /\ \A w \in Workers : pc[w] = "unref" =>
          reg[w] >= 1 /\ (MhdHas(job[w]) => reg[w] = 2)

IInv ==
    /\ TypeOK
    /\ PlacesInv
    /\ HandlerInv
    /\ JobInv
    /\ ReplyInv
    /\ SuspendInv
    /\ RefInv

(* Without signal, a suspended connection that nobody resumed yet is       *)
(* marked, or about to be; the worker that resumed its own is past the     *)
(* mark, hence never runs while another thread is still about to set it.   *)
MarkInv ==
    NoSignal =>
        /\ \A c \in Conns :
              conn[c].st = "suspended" /\ ~conn[c].resuming =>
                 hreq[c].suspended \/ \E t \in Threads : pc[t] = "flag" /\ cur[t] = c
        /\ \A w \in Workers :
              /\ pc[w] = "verb" => ~hreq[job[w]].replied
              /\ pc[w] \in MhdPlaces \cup {"unflag"} =>
                    /\ conn[job[w]].st = "suspended" => conn[job[w]].resuming
                    /\ \A t \in Threads :
                          pc[t] \in {"handled", "suspend", "flag"} => cur[t] # job[w]
=============================================================================
