------------------------------ MODULE Services ------------------------------
(***************************************************************************)
(* The start of the binder and its services: the bindings found in the     *)
(* directories and the apis that are registered (main.c, afb-api-so.c,     *)
(* afb-apis.c), the services started for the bindings that have one, their *)
(* session, that they share, their calls (afb-svc.c), beside the sessions  *)
(* of the clients (session.c).                                             *)
(*                                                                         *)
(* What the library of a binding does when it is loaded, registered or     *)
(* initialised is external.  The allocations do not fail.  The calls of a  *)
(* service are the subcalls of requests without client, given to the verbs *)
(* as they are or through the proxy of the hooks that trace them           *)
(* (afb-hook.c).  A verb answers its request once; it, its job and its own *)
(* subcall hold references of it, and the last one to be dropped ends the  *)
(* call.                                                                   *)
(***************************************************************************)
EXTENDS Session, Hook, Sequences

CONSTANTS
    Bindings,       \* the libraries and the remote apis of the configuration
    Sub,            \* the libraries of a subdirectory of the directory scanned
    Remotes,        \* the apis added by the options, after the directory
    Name,           \* the prefix of each
    Names,          \* names of apis that services call
    BadName,        \* a name that afb_apis_is_valid_api_name refuses
    Listening,      \* the services that have an event callback
    Events,
    Calls,          \* requests of services
    Clients,        \* requests of clients
    ShareSession    \* main starts the services with a shared session

ASSUME BindingsAssumption ==
    /\ Sub \cup Remotes \cup Listening \subseteq Bindings
    /\ Sub \cap Remotes = {}
    /\ Name \in [Bindings -> Names \cup {BadName}]
    /\ ShareSession \in BOOLEAN
ASSUME FiniteAssumption == IsFiniteSet(Bindings) /\ IsFiniteSet(Calls) /\ IsFiniteSet(Clients)

VARIABLES
    phase,          \* where main is
    dir,            \* the directory scanned
    todo,           \* what is still to be loaded
    apis,           \* apis_array
    common_session, \* a slot, or 0
    svc,            \* the service of each binding
    hooks,          \* the counts of the hooks
    call,           \* the requests of the services
    client          \* the session of each request of client, or 0

servicesVars == <<sessionVars, phase, dir, todo, apis, common_session, svc, hooks, call, client>>
callVars == <<hooks, call>>
loadVars == <<phase, dir, todo, apis>>

NoService == [st |-> "none", session |-> 0, watches |-> {}]

(* A call: its service and session; whether it is to close the session;    *)
(* who holds it; whether its verb answered it and a signal failed it, and  *)
(* how it was answered first; its proxy.                                   *)
NoCall ==
    [st |-> "none", svc |-> 0, session |-> 0, closing |-> FALSE, job |-> FALSE, held |-> FALSE,
     subcall |-> FALSE, answered |-> FALSE, failed |-> FALSE, how |-> "none", proxy |-> NoProxy]

ServicesInit ==
    /\ SessionInit
    /\ phase = "paths" /\ dir = "top" /\ todo = Bindings /\ apis = <<>>
    /\ common_session = 0
    /\ svc = [b \in Bindings |-> NoService]
    /\ hooks = HookInit
    /\ call = [q \in Calls |-> NoCall]
    /\ client = [c \in Clients |-> 0]

Registered == {apis[i] : i \in DOMAIN apis}

-----------------------------------------------------------------------------
(* The bindings.                                                           *)

(* afb_apis_add: a good name that no api has.                              *)
MayAdd(b) == Name[b] # BadName /\ \A a \in Registered : Name[a] # Name[b]

(* afb_api_so_add_binding: a file that is not a binding is skipped; one    *)
(* that fails, or whose api cannot be added, is an error.                  *)
Outcomes(b) == {"skipped", "refused"} \cup (IF MayAdd(b) THEN {"added"} ELSE {})

Load(b, out) ==
    /\ todo' = todo \ {b}
    /\ apis' = IF out = "added" THEN Append(apis, b) ELSE apis

(* A file of the directory: main exits on error.                           *)
LoadTop(b) ==
    /\ phase = "paths" /\ dir # "sub" /\ b \in todo \ (Sub \cup Remotes)
    /\ \E out \in Outcomes(b) :
        /\ Load(b, out)
        /\ phase' = IF out = "refused" THEN "exited" ELSE phase
    /\ UNCHANGED dir

(* adddirs of the subdirectory, met at any place.                          *)
EnterSub ==
    /\ phase = "paths" /\ dir = "top" /\ Sub # {}
    /\ dir' = "sub"
    /\ UNCHANGED <<phase, todo, apis>>

(* A file of the subdirectory: an error ends its scan, and is forgotten.   *)
LoadSub(b) ==
    /\ dir = "sub" /\ b \in todo \cap Sub
    /\ \E out \in Outcomes(b) :
        /\ Load(b, out)
        /\ dir' = IF out = "refused" THEN "done" ELSE dir
    /\ UNCHANGED phase

LeaveSub ==
    /\ dir = "sub" /\ todo \cap Sub = {}
    /\ dir' = "done"
    /\ UNCHANGED <<phase, todo, apis>>

(* The end of the scan, what an error left in the subdirectory with it.    *)
PathsDone ==
    /\ phase = "paths" /\ (dir = "done" \/ Sub = {}) /\ todo \subseteq Sub \cup Remotes
    /\ phase' = "items"
    /\ todo' = todo \cap Remotes
    /\ UNCHANGED <<dir, apis>>

(* start_items: the remote apis.                                           *)
StartItem(b) ==
    /\ phase = "items" /\ b \in todo
    /\ \E out \in Outcomes(b) \ {"skipped"} :
        /\ Load(b, out)
        /\ phase' = IF out = "refused" THEN "exited" ELSE phase
    /\ UNCHANGED dir

(* ctxStoreInit and the start of the HTTP server, that may fail.           *)
StartServer ==
    /\ phase = "items" /\ todo = {}
    /\ phase' \in {"services", "exited"}
    /\ UNCHANGED <<dir, todo, apis>>

Loading ==
    /\ \/ \E b \in Bindings : LoadTop(b) \/ LoadSub(b) \/ StartItem(b)
       \/ EnterSub \/ LeaveSub \/ PathsDone \/ StartServer
    /\ UNCHANGED <<sessionVars, common_session, svc, callVars, client>>

-----------------------------------------------------------------------------
(* The services.                                                           *)

(* The outcomes of ctxClientCreate for a service.                          *)
Created == new_context(ctxStoreCleanUp(store), NULL, 0)

MutShared(o) == o

(* The reference that the service takes to the common session.             *)
Shared(o) == [o EXCEPT !.store = ctxClientAddRef(o.store, o.session)]

(* The session of a service to start.                                      *)
ServiceSession ==
    IF ~ShareSession THEN Created
    ELSE IF common_session # 0
         THEN {Shared([store |-> store, session |-> common_session, created |-> FALSE])}
         ELSE {IF o.session = 0 THEN o ELSE Shared(o) : o \in Created}

Current == IF {b \in Registered : svc[b].st = "init"} = {} THEN 0
           ELSE CHOOSE i \in DOMAIN apis : svc[apis[i]].st = "init"

(* The apis whose service_start is still to be called.                     *)
Unstarted == {i \in DOMAIN apis : svc[apis[i]].st = "none"}

(* afb_svc_create until init is called, for the next of the apis; an api   *)
(* whose binding has no service, or a remote one, is passed.               *)
StartService ==
    /\ phase = "services" /\ Current = 0 /\ Unstarted # {}
    /\ LET b == apis[First(Unstarted)] IN
       \/ /\ svc' = [svc EXCEPT ![b].st = "passed"]
          /\ UNCHANGED <<store, common_session, phase>>
       \/ /\ b \notin Remotes
          /\ \E o \in ServiceSession :
               /\ store' = o.store
               /\ common_session' = IF ShareSession THEN o.session ELSE 0
               /\ IF o.session = 0 THEN phase' = "exited" /\ UNCHANGED svc
                  ELSE /\ svc' = [svc EXCEPT ![b].st = "init", ![b].session = o.session]
                       /\ UNCHANGED phase
    /\ UNCHANGED <<now, lastToken, dir, todo, apis, callVars, client>>

(* init returns: an error is the end of main.                              *)
ServiceStarted ==
    /\ phase = "services" /\ Current # 0
    /\ LET b == apis[Current] IN
       \/ /\ svc' = [svc EXCEPT ![b].st = "live"]
          /\ UNCHANGED <<store, phase>>
       \/ /\ svc' = [svc EXCEPT ![b] = NoService]
          /\ store' = ctxClientUnref(store, svc[b].session)
          /\ phase' = "exited"
    /\ UNCHANGED <<now, lastToken, dir, todo, apis, common_session, callVars, client>>

Ready ==
    /\ phase = "services" /\ Current = 0 /\ Unstarted = {}
    /\ phase' = "running"
    /\ UNCHANGED <<sessionVars, dir, todo, apis, common_session, svc, callVars, client>>

(* The binder runs; nothing is said of it when it uses a freed request.    *)
Runs == phase \notin {"exited", "undefined"}

(* afb_apis_call: the first api of the name.                               *)
ApiOf(name) == {i \in DOMAIN apis : Name[apis[i]] = name}

(* svc_call, from init or later.  The call of an api that is not found,    *)
(* that is refused or that the threads cannot take is failed and over at   *)
(* once; the others are jobs.                                              *)
svc_call(b, q, name) ==
    /\ Runs
    /\ svc[b].st \in {"init", "live"} /\ call[q].st = "none"
    /\ \/ UNCHANGED <<store, callVars>>
       \/ /\ ApiOf(name) # {}
          /\ LET t == afb_hook_req_call(hooks, name) IN
               /\ hooks' = t.hooks
               /\ call' = [call EXCEPT ![q] = [NoCall EXCEPT
                      !.st = "called", !.svc = b, !.session = svc[b].session, !.job = TRUE,
                      !.proxy = hook_req_addref(t.proxy)]]
          /\ store' = ctxClientAddRef(store, svc[b].session)
    /\ UNCHANGED <<now, lastToken, loadVars, common_session, svc, client>>

(* svcreq_unref, after the last reference: afb_context_disconnect.         *)
svcreq_unref(q) ==
    ctxClientUnref(IF call[q].closing THEN ctxClientClose(store, call[q].session) ELSE store,
                   call[q].session)

Called(q) == Runs /\ call[q].st = "called"
Uses(r) == r.job \/ r.held \/ r.subcall

(* r is what q becomes, t its proxy and the hooks: without proxy the call  *)
(* ends when nobody uses it, with one when the proxy has no reference.  A  *)
(* call that ends while it is used will be used after it is freed.         *)
Becomes(q, r, t) ==
    LET ends == IF call[q].proxy.observers = {} THEN ~Uses(r) ELSE ~IsProxy(t.proxy)
    IN  /\ hooks' = t.hooks
        /\ call' = [call EXCEPT ![q] = 
                IF ends /\ ~Uses(r) THEN NoCall
                ELSE [r EXCEPT !.proxy = t.proxy, !.session = IF ends THEN 0 ELSE @]]
        /\ store' = IF ends THEN svcreq_unref(q) ELSE store
        /\ phase' = IF ends /\ Uses(r) THEN "undefined" ELSE phase
        /\ UNCHANGED <<now, lastToken, dir, todo, apis, common_session, svc, client>>

(* One more user.                                                          *)
Taken(q, r) == Becomes(q, r, [hooks |-> hooks, proxy |-> hook_req_addref(call[q].proxy)])

(* One user less.                                                          *)
Dropped(q, r) == Becomes(q, r, hook_req_unref(hooks, call[q].proxy))

AnsweredBy(r, who, how) ==
    [r EXCEPT !.answered = r.answered \/ who = "verb", !.failed = r.failed \/ who = "signal",
              !.how = IF r.how = "none" THEN how ELSE r.how]

(* The verb answers, in its job or later.                                  *)
Answer(q) ==
    /\ Called(q) /\ ~call[q].answered
    /\ (call[q].job /\ ~call[q].failed) \/ call[q].held
    /\ \E how \in {"reply", "send"} :
         Becomes(q, AnsweredBy(call[q], "verb", how), Replied(hooks, call[q].proxy, how))

(* afb_sig_req: a signal stops the verb, its request is failed whether it  *)
(* was answered or not.                                                    *)
Interrupt(q) ==
    /\ Called(q) /\ call[q].job /\ ~call[q].failed
    /\ Becomes(q, AnsweredBy(call[q], "signal", "reply"), Replied(hooks, call[q].proxy, "reply"))

Answered(r) == r.answered \/ r.failed

(* The verb keeps the request beyond its job.                              *)
Hold(q) == Called(q) /\ call[q].job /\ ~call[q].held /\ Taken(q, [call[q] EXCEPT !.held = TRUE])

(* ... until it has answered.                                              *)
Unhold(q) ==
    Called(q) /\ call[q].held /\ call[q].answered /\ Dropped(q, [call[q] EXCEPT !.held = FALSE])

(* The end of the job: the verb has answered, or someone else will.        *)
JobEnd(q) ==
    /\ Called(q) /\ call[q].job
    /\ Answered(call[q]) \/ call[q].held \/ call[q].subcall
    /\ Dropped(q, [call[q] EXCEPT !.job = FALSE])

(* req_hook_subcall: a subcall of the verb, one at a time.                 *)
req_hook_subcall(q) ==
    /\ Called(q) /\ ~call[q].subcall /\ ~call[q].answered
    /\ (call[q].job /\ ~call[q].failed) \/ call[q].held
    /\ Taken(q, [call[q] EXCEPT !.subcall = TRUE])

(* req_hook_subcall_result: the reference of the subcall is dropped, then  *)
(* its callback is called, that may answer, and must if nobody else will.  *)
SubcallResult(q) ==
    LET t == hook_req_unref(hooks, call[q].proxy)
        r == [call[q] EXCEPT !.subcall = FALSE]
    IN  /\ Called(q) /\ call[q].subcall
        /\ \/ /\ Answered(r) \/ r.job \/ r.held
              /\ Becomes(q, r, t)
           \/ /\ ~r.answered
              /\ \E how \in {"reply", "send"} :
                   Becomes(q, AnsweredBy(r, "verb", how), Replied(t.hooks, t.proxy, how))

(* svcreq_subscribe, svcreq_unsubscribe: nothing without event callback.   *)
svcreq_subscribe(q, e) ==
    /\ Called(q) /\ call[q].svc \in Listening
    /\ \E w \in {svc[call[q].svc].watches \cup {e}, svc[call[q].svc].watches \ {e}} :
           svc' = [svc EXCEPT ![call[q].svc].watches = w]
    /\ UNCHANGED <<sessionVars, loadVars, common_session, callVars, client>>

(* The verb called closes the session: the one of the service.             *)
SvcReqClose(q) ==
    /\ Called(q)
    /\ call' = [call EXCEPT ![q].closing = TRUE]
    /\ UNCHANGED <<sessionVars, loadVars, common_session, svc, hooks, client>>

-----------------------------------------------------------------------------
(* The clients, when the main loop runs.                                   *)

ServiceSlots == ({common_session} \cup {svc[b].session : b \in Bindings}) \ {0}

(* What a client asks: no uuid, the empty one, one that does not fit, or   *)
(* any other but those of the open sessions of the services, which are     *)
(* sent to nobody.                                                         *)
AskedUuids ==
    {NULL, Empty, LongUuid} \cup (Uuids \ {store[s].uuid : s \in ServiceSlots \cap Used(store)})

(* afb_context_connect; without session (0) the request fails.             *)
Connect(c, u) ==
    /\ phase = "running" /\ client[c] = 0
    /\ \E o \in ctxClientGetSession(u) :
        /\ store' = o.store
        /\ client' = [client EXCEPT ![c] = o.session]
    /\ UNCHANGED <<now, lastToken, loadVars, common_session, svc, callVars>>

(* afb_context_disconnect, with or without a close.                        *)
Disconnect(c) ==
    /\ phase = "running" /\ client[c] # 0
    /\ \E st \in {store, ctxClientClose(store, client[c])} :
           store' = ctxClientUnref(st, client[c])
    /\ client' = [client EXCEPT ![c] = 0]
    /\ UNCHANGED <<now, lastToken, loadVars, common_session, svc, callVars>>

Time == phase = "running" /\ Tick /\ UNCHANGED <<loadVars, common_session, svc, callVars, client>>

ServicesNext ==
    \/ Loading
    \/ StartService \/ ServiceStarted \/ Ready
    \/ \E b \in Bindings, q \in Calls, n \in Names : svc_call(b, q, n)
    \/ \E q \in Calls : \/ \E e \in Events : svcreq_subscribe(q, e)
                        \/ SvcReqClose(q)
                        \/ Answer(q) \/ Interrupt(q) \/ Hold(q) \/ Unhold(q) \/ JobEnd(q)
                        \/ req_hook_subcall(q) \/ SubcallResult(q)
    \/ \E c \in Clients : (\E u \in AskedUuids : Connect(c, u)) \/ Disconnect(c)
    \/ Time

ServicesSpec == ServicesInit /\ [][ServicesNext]_servicesVars

-----------------------------------------------------------------------------
(* Properties.                                                             *)

Proxies == [observers : SUBSET Hooks, refcount : Nat]

CallStates ==
    [st : {"none", "called"}, svc : Bindings \cup {0}, session : Slots \cup {0}, closing : BOOLEAN,
     job : BOOLEAN, held : BOOLEAN, subcall : BOOLEAN, answered : BOOLEAN, failed : BOOLEAN,
     how : {"none", "reply", "send"}, proxy : Proxies]

ServicesTypeOK ==
    /\ SessionTypeOK
    /\ phase \in {"paths", "items", "services", "running", "exited", "undefined"}
    /\ dir \in {"top", "sub", "done"}
    /\ todo \subseteq Bindings /\ apis \in Seq(Bindings)
    /\ common_session \in Slots \cup {0}
    /\ svc \in [Bindings -> [st : {"none", "passed", "init", "live"}, session : Slots \cup {0},
                             watches : SUBSET Events]]
    /\ hooks \in [Hooks -> Nat]
    /\ call \in [Calls -> CallStates]
    /\ client \in [Clients -> Slots \cup {0}]

SessionUsers(s) ==
    (IF common_session = s THEN 1 ELSE 0)
    + Cardinality({b \in Bindings : svc[b].session = s})
    + Cardinality({q \in Calls : call[q].session = s})
    + Cardinality({c \in Clients : client[c] = s})

(* The references of a session are its users: the services, the common     *)
(* session, the calls and the clients.  So the session of a service stays  *)
(* allocated until the end, closed by a call or not, whatever the clients  *)
(* do and however long it is not used; a client is not given it while it   *)
(* is open (once it is closed, the empty uuid finds it); two apis never    *)
(* have the same name.                                                     *)
ServicesKeepTheirSession ==
    /\ ServicesTypeOK
    /\ \A s \in Used(store) : store[s].refcount = SessionUsers(s)
    /\ ServiceSlots \subseteq Used(store)
    /\ \A c \in Clients : client[c] \in ServiceSlots => ~IsOpen(store[client[c]])
    /\ \A i, k \in DOMAIN apis : Name[apis[i]] = Name[apis[k]] => i = k

(* Those who hold a call, and its reply to come: one that is sent is never *)
(* dropped.                                                                *)
CallUsers(r) == Cardinality({f \in {"job", "held", "subcall"} : r[f]})
ToReply(r) == IF ~Answered(r) \/ r.how = "send" THEN 1 ELSE 0

(* A verb answered the call and a signal failed it.                        *)
Twice(r) == r.answered /\ r.failed

Observed(h) == {q \in Calls : h \in call[q].proxy.observers}

(* A traced request stays until everyone who uses it is done, and its      *)
(* proxy, its request and its observers are left then: the count of the    *)
(* proxy is its users and its reply to come, those of the hooks the        *)
(* proxies they observe.  Two exceptions: a request answered by send keeps *)
(* the reference of its reply, for ever; a request answered by its verb    *)
(* and again by a signal (afb-sig-handler.c:86) loses one of its users.    *)
TracedRequestsAreHeld ==
    /\ phase = "undefined" => \E q \in Calls : Twice(call[q])
    /\ phase # "undefined" =>
        \A q \in Calls : call[q].st = "called" /\ ~Twice(call[q]) =>
            LET r == call[q]
            IN  /\ r.proxy.observers # {} => r.proxy.refcount = CallUsers(r) + ToReply(r)
                /\ r.proxy.observers = {} => CallUsers(r) > 0
    /\ \A h \in Hooks : hooks[h] = 1 + Cardinality(Observed(h))

(* A client gets an open session, not expired even if it was not cleaned   *)
(* before, the only one of its uuid.  One that asks the empty uuid gets a  *)
(* closed session, that somebody holds or that is made for it.             *)
FoundSessionIsAlive ==
    [][\A c \in Clients, u \in AskedUuids : Connect(c, u) /\ client'[c] # 0 =>
        LET r == store'[client'[c]]
        IN  IF u = Empty THEN ~IsOpen(r)
            ELSE /\ IsOpen(r) /\ r.expiration >= now
                 /\ \A s \in Slots \ {client'[c]} :
                       s \in Used(store') => store'[s].uuid # r.uuid]_servicesVars

(* "search for an existing one not too old" (session.c:295): the session   *)
(* given to a client is not too old.  The one of the empty uuid may be.    *)
FoundIsNotTooOld ==
    [][\A c \in Clients :
        client[c] = 0 /\ client'[c] # 0 => ~ctxStoreTooOld(store'[client'[c]])]_servicesVars

-----------------------------------------------------------------------------
(* The inductive invariant.                                                *)

AllUsers == [s \in Slots |-> SessionUsers(s)]

(* The open sessions have different uuids.                                 *)
UniqueUuids(st) ==
    \A s, r \in Used(st) : IsOpen(st[s]) /\ st[s].uuid = st[r].uuid => s = r

(* The services that are started have their session, alone with the other  *)
(* services until it is closed; the clients come when all are started.     *)
ServicesInv ==
    /\ common_session # 0 => ShareSession
    /\ \A b \in Bindings : svc[b].session # 0 <=> svc[b].st \in {"init", "live"}
    /\ phase \in {"paths", "items", "services"} => \A c \in Clients : client[c] = 0
    /\ \A c \in Clients :
         client[c] \in ServiceSlots \cap Used(store) => ~IsOpen(store[client[c]])

NamesInv == \A i, k \in DOMAIN apis : Name[apis[i]] = Name[apis[k]] => i = k

(* A call and its proxy.                                                   *)
CallInv(r) ==
    /\ r.st = "none" => r = NoCall
    /\ r.st = "called" =>
         /\ r.session # 0
         /\ r.how = "none" <=> ~Answered(r)
         /\ IsProxy(r.proxy) <=> r.proxy.observers # {}
         /\ IF IsProxy(r.proxy) THEN Twice(r) \/ r.proxy.refcount = CallUsers(r) + ToReply(r)
                              ELSE Uses(r)

CallsInv == phase # "undefined" => \A q \in Calls : CallInv(call[q])
TwiceInv == phase = "undefined" => \E q \in Calls : Twice(call[q])
HooksInv == \A h \in Hooks : hooks[h] = 1 + Cardinality(Observed(h))

ServicesIInv ==
    /\ ServicesTypeOK
    /\ Sound(store, AllUsers) /\ UniqueUuids(store)
    /\ ServicesInv /\ NamesInv
    /\ CallsInv /\ TwiceInv /\ HooksInv
=============================================================================
