----------------------------- MODULE HttpProofs -----------------------------
(***************************************************************************)
(* Proofs about the HTTP requests between the threads, for every number of *)
(* connections and of worker threads.  IInv (module Http) is inductive;    *)
(* the properties that TLC checks follow from it.                          *)
(***************************************************************************)
EXTENDS Http, FiniteSetTheorems, TLAPS

(* Updates of the fields keep the types of the records.                    *)
LEMMA ConnectionTypes ==
    \A x \in Connections :
        /\ \A st \in {"open", "websocket", "done"} : [x EXCEPT !.st = st] \in Connections
        /\ [x EXCEPT !.st = "open", !.responses = 1] \in Connections
        /\ \A st \in {"open", "suspended"} :
              [x EXCEPT !.st = st, !.resuming = FALSE] \in Connections
        /\ [x EXCEPT !.responses = @ + 1] \in Connections
        /\ [x EXCEPT !.resuming = TRUE] \in Connections
<1> SUFFICES ASSUME NEW x \in Connections
             PROVE  /\ \A st \in {"open", "websocket", "done"} : [x EXCEPT !.st = st] \in Connections
                    /\ [x EXCEPT !.st = "open", !.responses = 1] \in Connections
                    /\ \A st \in {"open", "suspended"} :
                          [x EXCEPT !.st = st, !.resuming = FALSE] \in Connections
                    /\ [x EXCEPT !.responses = @ + 1] \in Connections
                    /\ [x EXCEPT !.resuming = TRUE] \in Connections
  OBVIOUS
<1> USE DEF Connections
<1>1. \A st \in {"open", "websocket", "done"} : [x EXCEPT !.st = st] \in Connections
  OBVIOUS
<1>2. [x EXCEPT !.st = "open", !.responses = 1] \in Connections
  OBVIOUS
<1>3. \A st \in {"open", "suspended"} : [x EXCEPT !.st = st, !.resuming = FALSE] \in Connections
  OBVIOUS
<1>4. [x EXCEPT !.responses = @ + 1] \in Connections
  OBVIOUS
<1>5. [x EXCEPT !.resuming = TRUE] \in Connections
  OBVIOUS
<1> QED  BY <1>1, <1>2, <1>3, <1>4, <1>5

LEMMA RequestTypes ==
    /\ JobRequest \in Requests
    /\ \A up \in BOOLEAN : [NewRequest EXCEPT !.replied = TRUE, !.upgrade = up] \in Requests
    /\ \A h \in Requests :
          /\ [h EXCEPT !.replied = TRUE] \in Requests
          /\ [h EXCEPT !.suspended = TRUE] \in Requests
          /\ [h EXCEPT !.suspended = FALSE] \in Requests
          /\ \A r \in 1..2 : Unref(h, r) \in Requests
<1>1. NewRequest \in Requests
  BY DEF NewRequest, Requests
<1>2. \A h \in Requests : [h EXCEPT !.refcount = 2] \in Requests
  BY DEF Requests
<1>3. JobRequest \in Requests
  BY <1>1, <1>2 DEF JobRequest
<1>4. \A h \in Requests : [h EXCEPT !.replied = TRUE] \in Requests
  BY DEF Requests
<1>5. \A h \in Requests, b \in BOOLEAN : [h EXCEPT !.upgrade = b] \in Requests
  BY DEF Requests
<1>6. \A up \in BOOLEAN : [NewRequest EXCEPT !.replied = TRUE, !.upgrade = up] \in Requests
  BY <1>1, <1>4, <1>5
<1>7. \A h \in Requests : [h EXCEPT !.suspended = TRUE] \in Requests
  BY DEF Requests
<1>8. \A h \in Requests : [h EXCEPT !.suspended = FALSE] \in Requests
  BY DEF Requests
<1>9. ASSUME NEW h \in Requests, NEW r \in 1..2 PROVE Unref(h, r) \in Requests
  <2>1. [h EXCEPT !.refcount = r - 1] \in Requests
    BY DEF Requests
  <2>2. \A g \in Requests : \A st \in {g.st, "freed"} : [g EXCEPT !.st = st] \in Requests
    BY DEF Requests
  <2> QED  BY <2>1, <2>2 DEF Unref
<1> QED  BY <1>3, <1>4, <1>6, <1>7, <1>8, <1>9

LEMMA InitInv == Init => IInv
<1> SUFFICES ASSUME Init PROVE IInv
  OBVIOUS
<1> USE ThreadsAssumption DEF Init, Threads
<1>1. conn \in [Conns -> Connections]
  BY DEF Connections
<1>2. hreq \in [Conns -> Requests]
  BY DEF Requests
<1>3. events \in BOOLEAN /\ signalled \in BOOLEAN
  OBVIOUS
<1>c. cut \in [Conns -> Places]
  BY DEF Places
<1>4. TypeOK
  BY <1>1, <1>2, <1>3, <1>c DEF TypeOK
<1>5. PlacesInv
  BY DEF PlacesInv, InHandler, MhdPlaces, ReplyPlaces
<1>6. HandlerInv /\ JobInv /\ ReplyInv /\ SuspendInv
  BY DEF HandlerInv, JobInv, ReplyInv, SuspendInv, InHandler
<1>7. RefInv
  BY DEF RefInv, MhdHas, JobHas
<1> QED
  BY <1>4, <1>5, <1>6, <1>7 DEF IInv

(* The steps considered are the ones of a single thread in MHD.            *)
LEMMA OneRunner ==
    ASSUME ~Clash
    PROVE  \A t, u \in Running : t = u
<1>1. IsFiniteSet(Threads)
  <2>1. Threads = Workers \cup {Main}
    BY DEF Threads
  <2> QED  BY <2>1, ThreadsAssumption, FS_AddElement
<1>2. IsFiniteSet(Running)
  BY <1>1, FS_Subset DEF Running
<1> SUFFICES ASSUME NEW t \in Running, NEW u \in Running, t # u PROVE FALSE
  OBVIOUS
<1>3. /\ Cardinality(Running) \in Nat /\ IsFiniteSet(Running \ {t})
      /\ Cardinality(Running \ {t}) = Cardinality(Running) - 1
  BY <1>2, FS_RemoveElement, FS_CardinalityType
<1>4. Cardinality(Running \ {t}) = 0
  BY <1>3, FS_CardinalityType DEF Clash
<1> QED
  BY <1>3, <1>4, FS_EmptySet

-----------------------------------------------------------------------------
(* Every step keeps the invariant.                                         *)

(* The main loop wakes up.                                                 *)
LEMMA io_event_callback_Keeps ==
    ASSUME IInv, ~Clash, io_event_callback
    PROVE  IInv'
<1> USE ThreadsAssumption DEF io_event_callback, Goto, At, Threads, mhdVars, threadVars,
        IInv, TypeOK, PlacesInv, InHandler, MhdPlaces, ReplyPlaces
<1>1. TypeOK' /\ PlacesInv'
  BY DEF Requests
<1>2. HandlerInv'
  BY OneRunner DEF HandlerInv, Connections, Requests, Running
<1>3. JobInv'
  BY DEF HandlerInv, JobInv, Connections
<1>4. ReplyInv'
  BY DEF HandlerInv, JobInv, ReplyInv, Twice, JobHas, Connections, Requests
<1>5. SuspendInv'
  BY DEF HandlerInv, JobInv, SuspendInv, Connections, Requests
<1>6. RefInv'
  BY DEF HandlerInv, JobInv, ReplyInv, RefInv, MhdHas, JobHas, RefusedConn, Connections, Requests
<1> QED  BY <1>1, <1>2, <1>3, <1>4, <1>5, <1>6

(* A run of MHD is asked or begins.                                        *)
LEMMA RunTest_Keeps ==
    ASSUME IInv, ~Clash, NEW t \in Threads, RunTest(t)
    PROVE  IInv'
<1> USE ThreadsAssumption DEF RunTest, Return, Goto, At, Threads, mhdVars, threadVars,
        IInv, TypeOK, PlacesInv, InHandler, MhdPlaces, ReplyPlaces
<1>1. TypeOK' /\ PlacesInv'
  BY DEF Requests
<1>2. HandlerInv'
  BY OneRunner DEF HandlerInv, Connections, Requests, Running
<1>3. JobInv'
  BY DEF HandlerInv, JobInv, Connections
<1>4. ReplyInv'
  BY DEF HandlerInv, JobInv, ReplyInv, Twice, JobHas, Connections, Requests
<1>5. SuspendInv'
  BY DEF HandlerInv, JobInv, SuspendInv, Connections, Requests
<1>6. RefInv'
  BY DEF HandlerInv, JobInv, ReplyInv, RefInv, MhdHas, JobHas, RefusedConn, Connections, Requests
<1> QED  BY <1>1, <1>2, <1>3, <1>4, <1>5, <1>6

(* MHD is entered: this is where two threads may meet.                     *)
LEMMA RunEnter_Keeps ==
    ASSUME IInv, ~Clash, NEW t \in Threads, RunEnter(t)
    PROVE  IInv'
<1>e. events' \in BOOLEAN
  BY DEF RunEnter
<1> USE ThreadsAssumption DEF RunEnter, Goto, At, Threads, mhdVars, threadVars,
        IInv, TypeOK, PlacesInv, InHandler, MhdPlaces, ReplyPlaces
<1>1. TypeOK' /\ PlacesInv'
  BY <1>e
<1>2. HandlerInv'
  BY OneRunner DEF HandlerInv, Connections, Requests, Running
<1>3. JobInv'
  BY DEF HandlerInv, JobInv, Connections
<1>4. ReplyInv'
  BY DEF HandlerInv, JobInv, ReplyInv, Twice, JobHas, Connections, Requests
<1>5. SuspendInv'
  BY DEF HandlerInv, JobInv, SuspendInv, Connections, Requests
<1>6. RefInv'
  BY DEF HandlerInv, JobInv, ReplyInv, RefInv, MhdHas, JobHas, RefusedConn, Connections, Requests
<1> QED  BY <1>1, <1>2, <1>3, <1>4, <1>5, <1>6

(* The flag in_run is read again.                                          *)
LEMMA RunCheck_Keeps ==
    ASSUME IInv, ~Clash, NEW t \in Threads, RunCheck(t)
    PROVE  IInv'
<1> USE ThreadsAssumption DEF RunCheck, Goto, At, Threads, mhdVars, threadVars,
        IInv, TypeOK, PlacesInv, InHandler, MhdPlaces, ReplyPlaces
<1>1. TypeOK' /\ PlacesInv'
  BY DEF Requests
<1>2. HandlerInv'
  BY OneRunner DEF HandlerInv, Connections, Requests, Running
<1>3. JobInv'
  BY DEF HandlerInv, JobInv, Connections
<1>4. ReplyInv'
  BY DEF HandlerInv, JobInv, ReplyInv, Twice, JobHas, Connections, Requests
<1>5. SuspendInv'
  BY DEF HandlerInv, JobInv, SuspendInv, Connections, Requests
<1>6. RefInv'
  BY DEF HandlerInv, JobInv, ReplyInv, RefInv, MhdHas, JobHas, RefusedConn, Connections, Requests
<1> QED  BY <1>1, <1>2, <1>3, <1>4, <1>5, <1>6

(* The run of MHD ends.                                                    *)
LEMMA RunLeave_Keeps ==
    ASSUME IInv, ~Clash, NEW t \in Threads, RunLeave(t)
    PROVE  IInv'
<1> USE ThreadsAssumption DEF RunLeave, Return, Goto, At, Threads, mhdVars, threadVars,
        IInv, TypeOK, PlacesInv, InHandler, MhdPlaces, ReplyPlaces
<1>1. TypeOK' /\ PlacesInv'
  BY DEF Requests
<1>2. HandlerInv'
  BY OneRunner DEF HandlerInv, Connections, Requests, Running
<1>3. JobInv'
  BY DEF HandlerInv, JobInv, Connections
<1>4. ReplyInv'
  BY DEF HandlerInv, JobInv, ReplyInv, Twice, JobHas, Connections, Requests
<1>5. SuspendInv'
  BY DEF HandlerInv, JobInv, SuspendInv, Connections, Requests
<1>6. RefInv'
  BY DEF HandlerInv, JobInv, ReplyInv, RefInv, MhdHas, JobHas, RefusedConn, Connections, Requests
<1> QED  BY <1>1, <1>2, <1>3, <1>4, <1>5, <1>6

(* MHD resumes connections: a request still marked suspended has its worker *)
(* at "unflag".                                                            *)
LEMMA MhdResume_Keeps ==
    ASSUME IInv, ~Clash, NEW t \in Threads, MhdResume(t)
    PROVE  IInv'
<1>c. conn' \in [Conns -> Connections]
  BY ConnectionTypes DEF MhdResume, At, IInv, TypeOK, PlacesInv, HandlerInv, InHandler, Threads
<1>s. signalled' \in BOOLEAN
  BY DEF MhdResume
<1>r. \A c \in Conns :
        /\ conn'[c].responses = conn[c].responses
        /\ \/ conn'[c] = conn[c]
           \/ conn[c].st = "suspended" /\ conn[c].resuming /\ conn'[c].st = "open"
        /\ ~conn[c].resuming => conn'[c] = conn[c]
  <2> SUFFICES ASSUME NEW c \in Conns
               PROVE  /\ conn'[c].responses = conn[c].responses
                      /\ \/ conn'[c] = conn[c]
                         \/ conn[c].st = "suspended" /\ conn[c].resuming /\ conn'[c].st = "open"
                      /\ ~conn[c].resuming => conn'[c] = conn[c]
    OBVIOUS
  <2>1. conn[c] \in Connections
    BY DEF IInv, TypeOK
  <2>2. conn'[c] = IF conn[c].st = "suspended" /\ conn[c].resuming
                   THEN [conn[c] EXCEPT !.st = "open", !.resuming = FALSE] ELSE conn[c]
    BY DEF MhdResume
  <2> QED  BY <2>1, <2>2 DEF Connections
<1>u. UNCHANGED <<in_run, events, hreq, jobs, pc, cur, job, reg, cut>>
  BY DEF MhdResume, threadVars
<1> USE ThreadsAssumption DEF Threads, IInv, TypeOK, PlacesInv, InHandler, MhdPlaces, ReplyPlaces
<1>1. TypeOK' /\ PlacesInv'
  BY <1>c, <1>s, <1>u
<1>2. HandlerInv'
  BY <1>r, <1>u DEF HandlerInv
<1>3. JobInv'
  BY <1>r, <1>u DEF JobInv
<1>4. ReplyInv'
  BY <1>r, <1>u DEF JobInv, ReplyInv, Twice, JobHas
<1>5. SuspendInv'
  BY <1>r, <1>u DEF SuspendInv
<1>6. RefInv'
  <2>1. \A c \in Conns : (MhdHas(c))' <=> MhdHas(c)
    BY <1>r, <1>u DEF MhdHas
  <2> QED  BY <2>1, <1>r, <1>u, <1>c DEF RefInv, RefusedConn, JobHas, HandlerInv
<1> QED  BY <1>1, <1>2, <1>3, <1>4, <1>5, <1>6

(* MHD has nothing left to do.                                             *)
LEMMA MhdReturn_Keeps ==
    ASSUME IInv, ~Clash, NEW t \in Threads, MhdReturn(t)
    PROVE  IInv'
<1> USE ThreadsAssumption DEF MhdReturn, Goto, At, Threads, mhdVars, threadVars,
        IInv, TypeOK, PlacesInv, InHandler, MhdPlaces, ReplyPlaces
<1>1. TypeOK' /\ PlacesInv'
  BY DEF Requests
<1>2. HandlerInv'
  BY OneRunner DEF HandlerInv, Connections, Requests, Running
<1>3. JobInv'
  BY DEF HandlerInv, JobInv, Connections
<1>4. ReplyInv'
  BY DEF HandlerInv, JobInv, ReplyInv, Twice, JobHas, Connections, Requests
<1>5. SuspendInv'
  BY DEF HandlerInv, JobInv, SuspendInv, Connections, Requests
<1>6. RefInv'
  BY DEF HandlerInv, JobInv, ReplyInv, RefInv, MhdHas, JobHas, RefusedConn, Connections, Requests
<1> QED  BY <1>1, <1>2, <1>3, <1>4, <1>5, <1>6

(* A new request, held by MHD and by its job.                              *)
LEMMA access_handler_call_Keeps ==
    ASSUME IInv, ~Clash, NEW t \in Threads, NEW c \in Conns, access_handler_call(t, c)
    PROVE  IInv'
<1>c. conn' \in [Conns -> Connections]
  BY ConnectionTypes DEF access_handler_call, At, IInv, TypeOK, PlacesInv, HandlerInv, InHandler, Threads
<1>h. hreq' \in [Conns -> Requests]
  BY RequestTypes DEF access_handler_call, At, IInv, TypeOK, PlacesInv, HandlerInv, RefInv, InHandler, Threads
<1> USE ThreadsAssumption DEF access_handler_call, JobRequest, NewRequest, Goto, At, Threads, mhdVars, threadVars,
        IInv, TypeOK, PlacesInv, InHandler, MhdPlaces, ReplyPlaces
<1>1. TypeOK' /\ PlacesInv'
  BY <1>c, <1>h DEF Requests
<1>2. HandlerInv'
  BY OneRunner DEF HandlerInv, Connections, Requests, Running
<1>3. JobInv'
  BY DEF HandlerInv, JobInv, Connections
<1>4. ReplyInv'
  BY DEF HandlerInv, JobInv, ReplyInv, Twice, JobHas, Connections, Requests
<1>5. SuspendInv'
  BY DEF HandlerInv, JobInv, ReplyInv, SuspendInv, Connections, Requests
<1>6. RefInv'
  BY DEF HandlerInv, JobInv, ReplyInv, RefInv, MhdHas, JobHas, RefusedConn, Connections, Requests
<1> QED  BY <1>1, <1>2, <1>3, <1>4, <1>5, <1>6

(* A new request, held by MHD only.                                        *)
LEMMA access_handler_reply_Keeps ==
    ASSUME IInv, ~Clash, NEW t \in Threads, NEW c \in Conns, access_handler_reply(t, c)
    PROVE  IInv'
<1>c. conn' \in [Conns -> Connections]
  BY ConnectionTypes DEF access_handler_reply, At, IInv, TypeOK, PlacesInv, HandlerInv, InHandler, Threads
<1>h. hreq' \in [Conns -> Requests]
  <2>1. PICK up \in BOOLEAN :
          hreq' = [hreq EXCEPT ![c] = [NewRequest EXCEPT !.replied = TRUE, !.upgrade = up]]
    BY DEF access_handler_reply
  <2>2. [NewRequest EXCEPT !.replied = TRUE, !.upgrade = up] \in Requests
    BY RequestTypes
  <2> QED  BY <2>1, <2>2 DEF IInv, TypeOK
<1> USE ThreadsAssumption DEF access_handler_reply, NewRequest, Goto, At, Threads, mhdVars, threadVars,
        IInv, TypeOK, PlacesInv, InHandler, MhdPlaces, ReplyPlaces
<1>1. TypeOK' /\ PlacesInv'
  BY <1>c, <1>h DEF Requests
<1>2. HandlerInv'
  BY OneRunner DEF HandlerInv, Connections, Requests, Running
<1>3. JobInv'
  BY DEF HandlerInv, JobInv, Connections
<1>4. ReplyInv'
  BY DEF HandlerInv, JobInv, ReplyInv, Twice, JobHas, Connections, Requests
<1>5. SuspendInv'
  BY DEF HandlerInv, JobInv, SuspendInv, Connections, Requests
<1>6. RefInv'
  BY DEF HandlerInv, JobInv, ReplyInv, RefInv, MhdHas, JobHas, RefusedConn, Connections, Requests
<1> QED  BY <1>1, <1>2, <1>3, <1>4, <1>5, <1>6

(* A connection refused: it has no request.                                *)
LEMMA access_handler_refuse_Keeps ==
    ASSUME IInv, ~Clash, NEW t \in Threads, NEW c \in Conns, access_handler_refuse(t, c)
    PROVE  IInv'
<1>c. conn' \in [Conns -> Connections]
  BY ConnectionTypes DEF access_handler_refuse, At, IInv, TypeOK, PlacesInv, HandlerInv, InHandler, Threads
<1> USE ThreadsAssumption DEF access_handler_refuse, Goto, At, Threads, mhdVars, threadVars,
        IInv, TypeOK, PlacesInv, InHandler, MhdPlaces, ReplyPlaces
<1>1. TypeOK' /\ PlacesInv'
  BY <1>c DEF Requests
<1>2. HandlerInv'
  BY OneRunner DEF HandlerInv, Connections, Requests, Running
<1>3. JobInv'
  BY DEF HandlerInv, JobInv, Connections
<1>4. ReplyInv'
  BY DEF HandlerInv, JobInv, ReplyInv, Twice, JobHas, Connections, Requests
<1>5. SuspendInv'
  BY DEF HandlerInv, JobInv, SuspendInv, Connections, Requests
<1>6. RefInv'
  BY DEF HandlerInv, JobInv, ReplyInv, RefInv, MhdHas, JobHas, RefusedConn, Connections, Requests
<1> QED  BY <1>1, <1>2, <1>3, <1>4, <1>5, <1>6

(* The request is to be suspended, if it is not replied.                   *)
LEMMA HandledTest_Keeps ==
    ASSUME IInv, ~Clash, NEW t \in Threads, HandledTest(t)
    PROVE  IInv'
<1> USE ThreadsAssumption DEF HandledTest, Goto, At, Threads, mhdVars, threadVars,
        IInv, TypeOK, PlacesInv, InHandler, MhdPlaces, ReplyPlaces
<1>1. TypeOK' /\ PlacesInv'
  BY DEF Requests
<1>2. HandlerInv'
  BY OneRunner DEF HandlerInv, Connections, Requests, Running
<1>3. JobInv'
  BY DEF HandlerInv, JobInv, Connections
<1>4. ReplyInv'
  BY DEF HandlerInv, JobInv, ReplyInv, Twice, JobHas, Connections, Requests
<1>5. SuspendInv'
  BY DEF HandlerInv, JobInv, SuspendInv, Connections, Requests
<1>6. RefInv'
  BY DEF HandlerInv, JobInv, ReplyInv, RefInv, MhdHas, JobHas, RefusedConn, Connections, Requests
<1> QED  BY <1>1, <1>2, <1>3, <1>4, <1>5, <1>6

(* The connection is suspended in MHD,                                     *)
LEMMA Suspend_Keeps ==
    ASSUME IInv, ~Clash, NEW t \in Threads, Suspend(t)
    PROVE  IInv'
<1>c. conn' \in [Conns -> Connections]
  BY ConnectionTypes DEF Suspend, At, IInv, TypeOK, PlacesInv, HandlerInv, InHandler, Threads
<1> USE ThreadsAssumption DEF Suspend, Goto, At, Threads, mhdVars, threadVars,
        IInv, TypeOK, PlacesInv, InHandler, MhdPlaces, ReplyPlaces
<1>1. TypeOK' /\ PlacesInv'
  BY <1>c DEF Requests
<1>2. HandlerInv'
  BY OneRunner DEF HandlerInv, Connections, Requests, Running
<1>3. JobInv'
  BY DEF HandlerInv, JobInv, Connections
<1>4. ReplyInv'
  BY DEF HandlerInv, JobInv, ReplyInv, Twice, JobHas, Connections, Requests
<1>5. SuspendInv'
  BY DEF HandlerInv, JobInv, SuspendInv, Connections, Requests
<1>6. RefInv'
  BY DEF HandlerInv, JobInv, ReplyInv, RefInv, MhdHas, JobHas, RefusedConn, Connections, Requests
<1> QED  BY <1>1, <1>2, <1>3, <1>4, <1>5, <1>6

(* and its request marked so.                                              *)
LEMMA Flag_Keeps ==
    ASSUME IInv, ~Clash, NEW t \in Threads, Flag(t)
    PROVE  IInv'
<1>h. hreq' \in [Conns -> Requests]
  BY RequestTypes DEF Flag, At, IInv, TypeOK, PlacesInv, HandlerInv, RefInv, InHandler, Threads
<1> USE ThreadsAssumption DEF Flag, Goto, At, Threads, mhdVars, threadVars,
        IInv, TypeOK, PlacesInv, InHandler, MhdPlaces, ReplyPlaces
<1>1. TypeOK' /\ PlacesInv'
  BY <1>h DEF Requests
<1>2. HandlerInv'
  BY OneRunner DEF HandlerInv, Connections, Requests, Running
<1>3. JobInv'
  BY DEF HandlerInv, JobInv, Connections
<1>4. ReplyInv'
  BY DEF HandlerInv, JobInv, ReplyInv, Twice, JobHas, Connections, Requests
<1>5. SuspendInv'
  BY DEF HandlerInv, JobInv, SuspendInv, Connections, Requests
<1>6. RefInv'
  BY DEF HandlerInv, JobInv, ReplyInv, RefInv, MhdHas, JobHas, RefusedConn, Connections, Requests
<1> QED  BY <1>1, <1>2, <1>3, <1>4, <1>5, <1>6

(* MHD ends a connection: its reference is on the way to be dropped.       *)
LEMMA end_handler_Keeps ==
    ASSUME IInv, ~Clash, NEW t \in Threads, NEW c \in Conns, end_handler(t, c)
    PROVE  IInv'
<1>c. conn' \in [Conns -> Connections]
  BY ConnectionTypes DEF end_handler, At, IInv, TypeOK, PlacesInv, HandlerInv, InHandler, Threads
<1> USE ThreadsAssumption DEF end_handler, Replied, Goto, At, Threads, mhdVars, threadVars,
        IInv, TypeOK, PlacesInv, InHandler, MhdPlaces, ReplyPlaces
<1>1. TypeOK' /\ PlacesInv'
  BY <1>c DEF Requests
<1>2. HandlerInv'
  BY OneRunner DEF HandlerInv, Connections, Requests, Running
<1>3. JobInv'
  BY DEF HandlerInv, JobInv, Connections
<1>4. ReplyInv'
  BY DEF HandlerInv, JobInv, ReplyInv, Twice, JobHas, Connections, Requests
<1>5. SuspendInv'
  BY DEF HandlerInv, JobInv, SuspendInv, Connections, Requests
<1>6. RefInv'
  BY DEF HandlerInv, JobInv, ReplyInv, RefInv, MhdHas, JobHas, RefusedConn, Connections, Requests
<1> QED  BY <1>1, <1>2, <1>3, <1>4, <1>5, <1>6

(* MHD drops its reference; the count it read is 2 while the job has its own. *)
LEMMA MhdUnref_Keeps ==
    ASSUME IInv, ~Clash, NEW t \in Threads, MhdUnref(t)
    PROVE  IInv'
<1>h. hreq' \in [Conns -> Requests]
  <2>1. reg[t] \in 1..2 /\ cur[t] \in Conns
    BY DEF MhdUnref, At, IInv, TypeOK, PlacesInv, HandlerInv, RefInv, InHandler, Threads
  <2>2. hreq[cur[t]] \in Requests
    BY <2>1 DEF IInv, TypeOK
  <2>3. Unref(hreq[cur[t]], reg[t]) \in Requests
    BY <2>1, <2>2, RequestTypes
  <2> QED  BY <2>1, <2>3 DEF MhdUnref, IInv, TypeOK
<1> USE ThreadsAssumption DEF MhdUnref, Unref, Goto, At, Threads, mhdVars, threadVars,
        IInv, TypeOK, PlacesInv, InHandler, MhdPlaces, ReplyPlaces
<1>1. TypeOK' /\ PlacesInv'
  BY <1>h DEF Requests
<1>2. HandlerInv'
  BY OneRunner DEF HandlerInv, Connections, Requests, Running
<1>3. JobInv'
  BY DEF HandlerInv, JobInv, Connections
<1>4. ReplyInv'
  BY DEF HandlerInv, JobInv, ReplyInv, Twice, JobHas, Connections, Requests
<1>5. SuspendInv'
  BY DEF HandlerInv, JobInv, SuspendInv, Connections, Requests
<1>6. RefInv'
  BY DEF HandlerInv, JobInv, ReplyInv, RefInv, MhdHas, JobHas, RefusedConn, Connections, Requests
<1> QED  BY <1>1, <1>2, <1>3, <1>4, <1>5, <1>6

-----------------------------------------------------------------------------

(* A worker takes the request with the reference of the job.               *)
LEMMA TakeJob_Keeps ==
    ASSUME IInv, ~Clash, NEW w \in Workers, NEW c \in Conns, TakeJob(w, c)
    PROVE  IInv'
<1> USE ThreadsAssumption DEF TakeJob, Goto, At, Threads, mhdVars, threadVars,
        IInv, TypeOK, PlacesInv, InHandler, MhdPlaces, ReplyPlaces
<1>1. TypeOK' /\ PlacesInv'
  BY DEF Requests
<1>2. HandlerInv'
  BY OneRunner DEF HandlerInv, Connections, Requests, Running
<1>3. JobInv'
  BY DEF HandlerInv, JobInv, Connections
<1>4. ReplyInv'
  BY DEF HandlerInv, JobInv, ReplyInv, Twice, JobHas, Connections, Requests
<1>5. SuspendInv'
  BY DEF HandlerInv, JobInv, SuspendInv, Connections, Requests
<1>6. RefInv'
  BY DEF HandlerInv, JobInv, ReplyInv, RefInv, MhdHas, JobHas, RefusedConn, Connections, Requests
<1> QED  BY <1>1, <1>2, <1>3, <1>4, <1>5, <1>6

(* Only a request that is not marked is replied.                           *)
LEMMA ReplyTest_Keeps ==
    ASSUME IInv, ~Clash, NEW w \in Workers, ReplyTest(w)
    PROVE  IInv'
<1> USE ThreadsAssumption DEF ReplyTest, MayReply, Goto, At, Threads, mhdVars, threadVars,
        IInv, TypeOK, PlacesInv, InHandler, MhdPlaces, ReplyPlaces
<1>1. TypeOK' /\ PlacesInv'
  BY DEF Requests
<1>2. HandlerInv'
  BY OneRunner DEF HandlerInv, Connections, Requests, Running
<1>3. JobInv'
  BY DEF HandlerInv, JobInv, Connections
<1>4. ReplyInv'
  BY DEF HandlerInv, JobInv, ReplyInv, Twice, JobHas, Connections, Requests
<1>5. SuspendInv'
  BY DEF HandlerInv, JobInv, SuspendInv, Connections, Requests
<1>6. RefInv'
  BY DEF HandlerInv, JobInv, ReplyInv, RefInv, MhdHas, JobHas, RefusedConn, Connections, Requests
<1> QED  BY <1>1, <1>2, <1>3, <1>4, <1>5, <1>6

(* The response is given to MHD,                                           *)
LEMMA ReplyQueue_Keeps ==
    ASSUME IInv, ~Clash, NEW w \in Workers, ReplyQueue(w)
    PROVE  IInv'
<1>c. conn' \in [Conns -> Connections]
  BY ConnectionTypes DEF ReplyQueue, At, IInv, TypeOK, PlacesInv, HandlerInv, InHandler, Threads
<1> USE ThreadsAssumption DEF ReplyQueue, Goto, At, Threads, mhdVars, threadVars,
        IInv, TypeOK, PlacesInv, InHandler, MhdPlaces, ReplyPlaces
<1>1. TypeOK' /\ PlacesInv'
  BY <1>c DEF Requests
<1>2. HandlerInv'
  BY OneRunner DEF HandlerInv, Connections, Requests, Running
<1>3. JobInv'
  BY DEF HandlerInv, JobInv, Connections
<1>4. ReplyInv'
  BY DEF HandlerInv, JobInv, ReplyInv, Twice, JobHas, Connections, Requests
<1>5. SuspendInv'
  BY DEF HandlerInv, JobInv, SuspendInv, Connections, Requests
<1>6. RefInv'
  BY DEF HandlerInv, JobInv, ReplyInv, RefInv, MhdHas, JobHas, RefusedConn, Connections, Requests
<1> QED  BY <1>1, <1>2, <1>3, <1>4, <1>5, <1>6

(* and the request marked.                                                 *)
LEMMA ReplyMark_Keeps ==
    ASSUME IInv, ~Clash, NEW w \in Workers, ReplyMark(w)
    PROVE  IInv'
<1>h. hreq' \in [Conns -> Requests]
  BY RequestTypes DEF ReplyMark, At, IInv, TypeOK, PlacesInv, HandlerInv, RefInv, InHandler, Threads
<1> USE ThreadsAssumption DEF ReplyMark, Goto, At, Threads, mhdVars, threadVars,
        IInv, TypeOK, PlacesInv, InHandler, MhdPlaces, ReplyPlaces
<1>1. TypeOK' /\ PlacesInv'
  BY <1>h DEF Requests
<1>2. HandlerInv'
  BY OneRunner DEF HandlerInv, Connections, Requests, Running
<1>3. JobInv'
  BY DEF HandlerInv, JobInv, Connections
<1>4. ReplyInv'
  BY DEF HandlerInv, JobInv, ReplyInv, Twice, JobHas, Connections, Requests
<1>5. SuspendInv'
  BY DEF HandlerInv, JobInv, SuspendInv, Connections, Requests
<1>6. RefInv'
  BY DEF HandlerInv, JobInv, ReplyInv, RefInv, MhdHas, JobHas, RefusedConn, Connections, Requests
<1> QED  BY <1>1, <1>2, <1>3, <1>4, <1>5, <1>6

(* A request marked suspended is suspended in MHD.                         *)
LEMMA ReplyTestSuspended_Keeps ==
    ASSUME IInv, ~Clash, NEW w \in Workers, ReplyTestSuspended(w)
    PROVE  IInv'
<1> USE ThreadsAssumption DEF ReplyTestSuspended, ToResume, Goto, At, Threads, mhdVars, threadVars,
        IInv, TypeOK, PlacesInv, InHandler, MhdPlaces, ReplyPlaces
<1>1. TypeOK' /\ PlacesInv'
  BY DEF Requests
<1>2. HandlerInv'
  BY OneRunner DEF HandlerInv, Connections, Requests, Running
<1>3. JobInv'
  BY DEF HandlerInv, JobInv, Connections
<1>4. ReplyInv'
  BY DEF HandlerInv, JobInv, ReplyInv, Twice, JobHas, Connections, Requests
<1>5. SuspendInv'
  BY DEF HandlerInv, JobInv, SuspendInv, Connections, Requests
<1>6. RefInv'
  BY DEF HandlerInv, JobInv, ReplyInv, RefInv, MhdHas, JobHas, RefusedConn, Connections, Requests
<1> QED  BY <1>1, <1>2, <1>3, <1>4, <1>5, <1>6

(* The connection is resumed,                                              *)
LEMMA ReplyResume_Keeps ==
    ASSUME IInv, ~Clash, NEW w \in Workers, ReplyResume(w)
    PROVE  IInv'
<1>c. conn' \in [Conns -> Connections]
  BY ConnectionTypes DEF ReplyResume, At, IInv, TypeOK, PlacesInv, HandlerInv, InHandler, Threads
<1> USE ThreadsAssumption DEF ReplyResume, Goto, At, Threads, mhdVars, threadVars,
        IInv, TypeOK, PlacesInv, InHandler, MhdPlaces, ReplyPlaces
<1>1. TypeOK' /\ PlacesInv'
  BY <1>c DEF Requests
<1>2. HandlerInv'
  BY DEF HandlerInv, SuspendInv, Connections, Requests
<1>3. JobInv'
  BY DEF HandlerInv, JobInv, Connections
<1>4. ReplyInv'
  BY DEF HandlerInv, JobInv, ReplyInv, Twice, JobHas, Connections, Requests
<1>5. SuspendInv'
  BY DEF HandlerInv, JobInv, SuspendInv, Connections, Requests
<1>6. RefInv'
  BY DEF HandlerInv, JobInv, ReplyInv, RefInv, MhdHas, JobHas, RefusedConn, Connections, Requests
<1> QED  BY <1>1, <1>2, <1>3, <1>4, <1>5, <1>6

(* and its request is not marked suspended any more.                       *)
LEMMA ReplyUnflag_Keeps ==
    ASSUME IInv, ~Clash, NEW w \in Workers, ReplyUnflag(w)
    PROVE  IInv'
<1>h. hreq' \in [Conns -> Requests]
  BY RequestTypes DEF ReplyUnflag, At, IInv, TypeOK, PlacesInv, HandlerInv, RefInv, InHandler, Threads
<1> USE ThreadsAssumption DEF ReplyUnflag, Goto, At, Threads, mhdVars, threadVars,
        IInv, TypeOK, PlacesInv, InHandler, MhdPlaces, ReplyPlaces
<1>1. TypeOK' /\ PlacesInv'
  BY <1>h DEF Requests
<1>2. HandlerInv'
  BY OneRunner DEF HandlerInv, Connections, Requests, Running
<1>3. JobInv'
  BY DEF HandlerInv, JobInv, Connections
<1>4. ReplyInv'
  BY DEF HandlerInv, JobInv, ReplyInv, Twice, JobHas, Connections, Requests
<1>5. SuspendInv'
  BY DEF HandlerInv, JobInv, SuspendInv, Connections, Requests
<1>6. RefInv'
  BY DEF HandlerInv, JobInv, ReplyInv, RefInv, MhdHas, JobHas, RefusedConn, Connections, Requests
<1> QED  BY <1>1, <1>2, <1>3, <1>4, <1>5, <1>6

(* A signal stops the verb of a worker, wherever it is.                    *)
LEMMA Stop_Keeps ==
    ASSUME IInv, ~Clash, NEW w \in Workers, job[w] # None, pc[w] # "unref", Stop(w),
           cut[job[w]] = "none" \/ At(w, "mhd")
    PROVE  IInv'
<1>k. /\ job[w] \in Conns /\ cut' \in [Conns -> Places]
      /\ \A c \in Conns : c # job[w] => cut'[c] = cut[c]
      /\ cut'[job[w]] = IF cut[job[w]] # "none" THEN cut[job[w]]
                        ELSE IF pc[w] \in Places THEN pc[w] ELSE "other"
  BY DEF Stop, IInv, TypeOK, Places, Threads
<1>r. reg' = [reg EXCEPT ![w] = 0] /\ pc' = [pc EXCEPT ![w] = "verb"]
  BY DEF Stop, Goto
<1>u. UNCHANGED <<in_run, events, signalled, conn, hreq, jobs, cur, job>>
  BY DEF Stop, mhdVars
<1> USE ThreadsAssumption DEF At, Threads, IInv, TypeOK, PlacesInv, InHandler, MhdPlaces, ReplyPlaces
<1>1. TypeOK' /\ PlacesInv'
  BY <1>k, <1>r, <1>u
<1>2. HandlerInv'
  BY <1>r, <1>u, OneRunner DEF HandlerInv, Running
<1>3. JobInv'
  BY <1>r, <1>u DEF JobInv
<1>4. ReplyInv'
  BY <1>k, <1>r, <1>u DEF JobInv, ReplyInv, Twice, JobHas, Places, Connections
<1>5. SuspendInv'
  BY <1>k, <1>r, <1>u DEF JobInv, ReplyInv, SuspendInv, Places, Requests
<1>6. RefInv'
  BY <1>r, <1>u DEF HandlerInv, RefInv, MhdHas, JobHas, RefusedConn
<1> QED  BY <1>1, <1>2, <1>3, <1>4, <1>5, <1>6

LEMMA Abort_Keeps ==
    ASSUME IInv, ~Clash, NEW w \in Workers, Abort(w)
    PROVE  IInv'
BY Stop_Keeps DEF Abort

(* The end of a connection without request: the program stops, or the verb. *)
LEMMA end_handler_null_Keeps ==
    ASSUME IInv, ~Clash, NEW t \in Threads, NEW c \in Conns, end_handler_null(t, c)
    PROVE  IInv'
<1>1. CASE t \in Workers /\ Stop(t)
  <2>1. At(t, "mhd") /\ job[t] # None /\ pc[t] # "unref"
    BY <1>1 DEF end_handler_null, At, IInv, PlacesInv
  <2> QED  BY <1>1, <2>1, Stop_Keeps
<1>2. CASE t = Main /\ Goto(t, "exit") /\ UNCHANGED <<mhdVars, conn, hreq, jobs, threadVars>>
  <2> USE <1>2, ThreadsAssumption DEF end_handler_null, Goto, At, Threads, mhdVars, threadVars,
          IInv, TypeOK, PlacesInv, InHandler, MhdPlaces, ReplyPlaces
  <2>1. TypeOK' /\ PlacesInv'
    BY DEF Requests
  <2>2. HandlerInv'
    BY OneRunner DEF HandlerInv, Connections, Requests, Running
  <2>3. JobInv'
    BY DEF HandlerInv, JobInv, Connections
  <2>4. ReplyInv'
    BY DEF HandlerInv, JobInv, ReplyInv, Twice, JobHas, Connections, Requests
  <2>5. SuspendInv'
    BY DEF HandlerInv, JobInv, SuspendInv, Connections, Requests
  <2>6. RefInv'
    BY DEF HandlerInv, JobInv, ReplyInv, RefInv, MhdHas, JobHas, RefusedConn, Connections, Requests
  <2> QED  BY <2>1, <2>2, <2>3, <2>4, <2>5, <2>6
<1> QED  BY <1>1, <1>2 DEF end_handler_null

(* The job has read the count of its request.                              *)
LEMMA VerbEnd_Keeps ==
    ASSUME IInv, ~Clash, NEW w \in Workers, VerbEnd(w)
    PROVE  IInv'
<1> USE ThreadsAssumption DEF VerbEnd, Goto, At, Threads, mhdVars, threadVars,
        IInv, TypeOK, PlacesInv, InHandler, MhdPlaces, ReplyPlaces
<1>1. TypeOK' /\ PlacesInv'
  BY DEF Requests
<1>2. HandlerInv'
  BY OneRunner DEF HandlerInv, Connections, Requests, Running
<1>3. JobInv'
  BY DEF HandlerInv, JobInv, Connections
<1>4. ReplyInv'
  BY DEF HandlerInv, JobInv, ReplyInv, Twice, JobHas, Connections, Requests
<1>5. SuspendInv'
  BY DEF HandlerInv, JobInv, SuspendInv, Connections, Requests
<1>6. RefInv'
  BY DEF HandlerInv, JobInv, ReplyInv, RefInv, MhdHas, JobHas, RefusedConn, Connections, Requests
<1> QED  BY <1>1, <1>2, <1>3, <1>4, <1>5, <1>6

(* The job drops its reference; the count it read is 2 while MHD has its own. *)
LEMMA VerbUnref_Keeps ==
    ASSUME IInv, ~Clash, NEW w \in Workers, VerbUnref(w)
    PROVE  IInv'
<1>h. hreq' \in [Conns -> Requests]
  <2>1. reg[w] \in 1..2 /\ job[w] \in Conns
    BY DEF VerbUnref, At, IInv, TypeOK, PlacesInv, HandlerInv, RefInv, InHandler, Threads
  <2>2. hreq[job[w]] \in Requests
    BY <2>1 DEF IInv, TypeOK
  <2>3. Unref(hreq[job[w]], reg[w]) \in Requests
    BY <2>1, <2>2, RequestTypes
  <2> QED  BY <2>1, <2>3 DEF VerbUnref, IInv, TypeOK
<1> USE ThreadsAssumption DEF VerbUnref, Unref, Goto, At, Threads, mhdVars, threadVars,
        IInv, TypeOK, PlacesInv, InHandler, MhdPlaces, ReplyPlaces
<1>1. TypeOK' /\ PlacesInv'
  BY <1>h DEF Requests
<1>2. HandlerInv'
  BY OneRunner DEF HandlerInv, Connections, Requests, Running
<1>3. JobInv'
  BY DEF HandlerInv, JobInv, Connections
<1>4. ReplyInv'
  BY DEF HandlerInv, JobInv, ReplyInv, Twice, JobHas, Connections, Requests
<1>5. SuspendInv'
  BY DEF HandlerInv, JobInv, SuspendInv, Connections, Requests
<1>6. RefInv'
  BY DEF HandlerInv, JobInv, ReplyInv, RefInv, MhdHas, JobHas, RefusedConn, Connections, Requests
<1> QED  BY <1>1, <1>2, <1>3, <1>4, <1>5, <1>6

LEMMA StepKeeps == IInv /\ [Next]_vars => IInv'
<1> SUFFICES ASSUME IInv, [Next]_vars PROVE IInv'
  OBVIOUS
<1>1. CASE UNCHANGED vars
  BY <1>1 DEF vars, IInv, TypeOK, PlacesInv, HandlerInv, JobInv, ReplyInv, SuspendInv,
     RefInv, MhdHas, JobHas, Twice, RefusedConn
<1>2. CASE Next
  BY <1>2, io_event_callback_Keeps, RunTest_Keeps, RunEnter_Keeps, RunCheck_Keeps,
     RunLeave_Keeps, MhdResume_Keeps, MhdReturn_Keeps, access_handler_call_Keeps,
     access_handler_reply_Keeps, access_handler_refuse_Keeps, HandledTest_Keeps, Suspend_Keeps,
     Flag_Keeps, end_handler_Keeps, end_handler_null_Keeps,
     MhdUnref_Keeps, TakeJob_Keeps, ReplyTest_Keeps, ReplyQueue_Keeps, ReplyMark_Keeps,
     ReplyTestSuspended_Keeps, ReplyResume_Keeps, ReplyUnflag_Keeps, Abort_Keeps, VerbEnd_Keeps,
     VerbUnref_Keeps
     DEF Next, MhdStep, ReplyStep
<1> QED  BY <1>1, <1>2

-----------------------------------------------------------------------------
(* IInv holds in every reachable state.                                    *)
THEOREM InvHolds == Spec => []IInv
BY InitInv, StepKeeps, PTL DEF Spec

(* A request is not freed while MHD or the thread of its verb uses it,     *)
(* although the decrements of its count (afb-hreq.c:311) are not atomic    *)
(* and signals stop the verbs anywhere; the connections without request    *)
(* are the ones that access_handler refused (afb-hsrv.c:120, 127).         *)
THEOREM RequestsHeld == Spec => []RequestsAreHeld
<1>1. IInv => RequestsAreHeld
  BY ThreadsAssumption DEF IInv, RefInv, RequestsAreHeld, TypeOK, MhdHas, JobHas, Threads
<1> QED  BY <1>1, InvHolds, PTL

(* A worker resumes only a connection that is suspended and not resumed    *)
(* yet, and MHD has not ended the connection it replies to                 *)
(* (afb-hreq.c:184), unless a signal made it reply twice; no connection is *)
(* suspended without a response once its verb is over.                     *)
THEOREM ResumesSuspended == Spec => []ResumesTheSuspended
<1>1. IInv => ResumesTheSuspended
  BY DEF IInv, TypeOK, PlacesInv, JobInv, ReplyInv, Twice, SuspendInv, JobHas, ResumesTheSuspended,
         Threads, At, Connections
<1> QED  BY <1>1, InvHolds, PTL

(* MHD gets one response for a request wherever a signal stops its verb,   *)
(* between the response and its mark excepted (afb-hreq.c:180-183), where  *)
(* it gets two.                                                            *)
THEOREM OneResponseEach == Spec => []OneResponse
<1>1. IInv => OneResponse
  BY DEF IInv, ReplyInv, Twice, OneResponse
<1> QED  BY <1>1, InvHolds, PTL
-----------------------------------------------------------------------------
(* The marks of the suspended connections.                                 *)

LEMMA InitMark == Init => MarkInv
BY ThreadsAssumption DEF Init, MarkInv, MhdPlaces, InHandler, Threads

(* A verb that is stopped is one that a signal came to.                    *)
LEMMA StopIsSignal ==
    ASSUME IInv, NEW w \in Workers, job[w] # None, Stop(w)
    PROVE  ~NoSignal'
<1>1. job[w] \in Conns
  BY DEF IInv, TypeOK, Threads
<1>2. cut'[job[w]] # "none"
  <2>1. cut'[job[w]] = IF cut[job[w]] # "none" THEN cut[job[w]]
                       ELSE IF pc[w] \in Places THEN pc[w] ELSE "other"
    BY <1>1 DEF Stop, IInv, TypeOK
  <2>2. pc[w] # "none"
    BY DEF IInv, PlacesInv, MhdPlaces, ReplyPlaces, InHandler, Threads
  <2> QED  BY <2>1, <2>2
<1> QED  BY <1>1, <1>2 DEF NoSignal

(* Every step keeps the marks.                                             *)
LEMMA MarkKept ==
    ASSUME IInv, MarkInv, ~Clash, Next
    PROVE  MarkInv'
<1>s. ASSUME NEW w \in Workers, job[w] # None, Stop(w) PROVE MarkInv'
  BY <1>s, StopIsSignal DEF MarkInv
<1> USE ThreadsAssumption DEF Goto, At, Threads, mhdVars, threadVars, NoSignal,
        IInv, TypeOK, PlacesInv, InHandler, MhdPlaces, ReplyPlaces, MarkInv
<1>1. CASE io_event_callback
  BY <1>1 DEF io_event_callback
<1>2. ASSUME NEW t \in Threads, RunTest(t) \/ RunEnter(t) \/ RunCheck(t) \/ RunLeave(t)
      PROVE  MarkInv'
  BY <1>2 DEF RunTest, RunEnter, RunCheck, RunLeave, Return
<1>3. ASSUME NEW t \in Threads, MhdResume(t) PROVE MarkInv'
  <2>1. \A c \in Conns :
          \/ conn'[c] = conn[c]
          \/ conn[c].st = "suspended" /\ conn[c].resuming /\ conn'[c].st = "open"
    <3> TAKE c \in Conns
    <3>1. conn[c] \in Connections
      OBVIOUS
    <3>2. conn'[c] = IF conn[c].st = "suspended" /\ conn[c].resuming
                     THEN [conn[c] EXCEPT !.st = "open", !.resuming = FALSE] ELSE conn[c]
      BY <1>3 DEF MhdResume
    <3> QED  BY <3>1, <3>2 DEF Connections
  <2>2. UNCHANGED <<hreq, pc, cur, job, cut>>
    BY <1>3 DEF MhdResume
  <2> QED  BY <2>1, <2>2
<1>4. ASSUME NEW t \in Threads, MhdReturn(t) PROVE MarkInv'
  BY <1>4 DEF MhdReturn
<1>5. ASSUME NEW t \in Threads, NEW c \in Conns,
             access_handler_call(t, c) \/ access_handler_reply(t, c) \/ access_handler_refuse(t, c)
      PROVE  MarkInv'
  <2>1. CASE access_handler_call(t, c)
    BY <2>1 DEF access_handler_call, JobInv, Connections
  <2>2. CASE access_handler_reply(t, c)
    BY <2>2 DEF access_handler_reply, JobInv, Connections
  <2>3. CASE access_handler_refuse(t, c)
    BY <2>3 DEF access_handler_refuse, JobInv, Connections
  <2> QED  BY <1>5, <2>1, <2>2, <2>3
<1>6. ASSUME NEW t \in Threads, HandledTest(t) PROVE MarkInv'
  BY <1>6 DEF HandledTest
<1>7. ASSUME NEW t \in Threads, Suspend(t) PROVE MarkInv'
  BY <1>7 DEF Suspend, HandlerInv, Connections
<1>8. ASSUME NEW t \in Threads, Flag(t) PROVE MarkInv'
  BY <1>8 DEF Flag, HandlerInv, Requests
<1>9. ASSUME NEW t \in Threads, NEW c \in Conns, end_handler(t, c) PROVE MarkInv'
  BY <1>9 DEF end_handler, Connections
<1>10. ASSUME NEW t \in Threads, NEW c \in Conns, end_handler_null(t, c) PROVE MarkInv'
  <2>1. CASE t \in Workers /\ Stop(t)
    BY <1>10, <2>1, <1>s DEF end_handler_null
  <2>2. CASE t = Main /\ Goto(t, "exit") /\ UNCHANGED <<mhdVars, conn, hreq, jobs, threadVars>>
    BY <1>10, <2>2 DEF end_handler_null
  <2> QED  BY <1>10, <2>1, <2>2 DEF end_handler_null
<1>11. ASSUME NEW t \in Threads, MhdUnref(t) PROVE MarkInv'
  BY <1>11 DEF MhdUnref, Unref, HandlerInv, Requests
<1>12. ASSUME NEW w \in Workers, NEW c \in Conns, TakeJob(w, c) PROVE MarkInv'
  <2>1. ~hreq[c].replied /\ c # None
    BY <1>12 DEF TakeJob, ReplyInv
  <2> QED  BY <1>12, <2>1 DEF TakeJob
<1>13. ASSUME NEW w \in Workers, ReplyTest(w) \/ ReplyQueue(w) \/ ReplyMark(w)
       PROVE  MarkInv'
  <2>1. CASE ReplyTest(w)
    BY <2>1 DEF ReplyTest, MayReply
  <2>2. CASE ReplyQueue(w)
    BY <2>2 DEF ReplyQueue, JobInv, Connections
  <2>3. CASE ReplyMark(w)
    BY <2>3 DEF ReplyMark, JobInv, Requests
  <2> QED  BY <1>13, <2>1, <2>2, <2>3
<1>14. ASSUME NEW w \in Workers, ReplyTestSuspended(w) PROVE MarkInv'
  BY <1>14 DEF ReplyTestSuspended
<1>15. ASSUME NEW w \in Workers, ReplyResume(w) PROVE MarkInv'
  BY <1>15 DEF ReplyResume, HandlerInv, JobInv, SuspendInv, Connections
<1>16. ASSUME NEW w \in Workers, ReplyUnflag(w) PROVE MarkInv'
  BY <1>16 DEF ReplyUnflag, JobInv, Requests
<1>17. ASSUME NEW w \in Workers, Abort(w) PROVE MarkInv'
  BY <1>17, <1>s DEF Abort
<1>18. ASSUME NEW w \in Workers, VerbEnd(w) PROVE MarkInv'
  BY <1>18 DEF VerbEnd
<1>19. ASSUME NEW w \in Workers, VerbUnref(w) PROVE MarkInv'
  BY <1>19 DEF VerbUnref, Unref, JobInv, Requests
<1> QED
  BY <1>1, <1>2, <1>3, <1>4, <1>5, <1>6, <1>7, <1>8, <1>9, <1>10, <1>11, <1>12, <1>13, <1>14,
     <1>15, <1>16, <1>17, <1>18, <1>19 DEF Next, MhdStep, ReplyStep

(* A verb that is over has resumed the connection that it found suspended, *)
(* unless the suspension was not marked yet.                               *)
LEMMA VerbOver ==
    ASSUME IInv, MarkInv, ~Clash, Next, NoSignal, NEW w \in Workers,
           ~At(w, "verb_end"), At(w, "verb_end")'
    PROVE  \/ conn[job[w]].st # "suspended" \/ conn[job[w]].resuming
           \/ \E t \in Threads : At(t, "flag") /\ cur[t] = job[w]
<1>1. job[w] # None => job[w] \in Conns
  BY DEF IInv, TypeOK, Threads
<1> USE ThreadsAssumption DEF Goto, At, Threads, IInv, TypeOK, PlacesInv, InHandler, MhdPlaces,
        ReplyPlaces
<1>2. RunTest(w) \/ RunLeave(w) \/ ReplyTest(w) \/ ReplyTestSuspended(w)
  <2>1. ~io_event_callback
    BY DEF io_event_callback
  <2>2. \A t \in Threads, c \in Conns :
          ~access_handler_call(t, c) /\ ~access_handler_reply(t, c) /\ ~access_handler_refuse(t, c)
    BY DEF access_handler_call, access_handler_reply, access_handler_refuse
  <2>3. \A t \in Threads : ~RunEnter(t) /\ ~RunCheck(t) /\ ~MhdResume(t) /\ ~MhdReturn(t)
    BY DEF RunEnter, RunCheck, MhdResume, MhdReturn
  <2>4. \A t \in Threads : ~MhdUnref(t) /\ ~HandledTest(t) /\ ~Suspend(t) /\ ~Flag(t)
    BY DEF MhdUnref, HandledTest, Suspend, Flag
  <2>5. \A t \in Threads, c \in Conns : ~end_handler(t, c) /\ ~end_handler_null(t, c)
    BY DEF end_handler, end_handler_null, Stop, mhdVars
  <2>6. \A t \in Threads : RunTest(t) \/ RunLeave(t) => t = w
    BY DEF RunTest, RunLeave, Return
  <2>7. \A v \in Workers : ReplyTest(v) \/ ReplyTestSuspended(v) => v = w
    BY DEF ReplyTest, ReplyTestSuspended
  <2>8. \A v \in Workers :
          ~ReplyQueue(v) /\ ~ReplyMark(v) /\ ~ReplyResume(v) /\ ~ReplyUnflag(v)
    BY DEF ReplyQueue, ReplyMark, ReplyResume, ReplyUnflag
  <2>9. \A v \in Workers :
          ~VerbEnd(v) /\ ~VerbUnref(v) /\ ~Abort(v) /\ \A c \in Conns : ~TakeJob(v, c)
    BY DEF VerbEnd, VerbUnref, Abort, Stop, TakeJob
  <2> QED
    BY <2>1, <2>2, <2>3, <2>4, <2>5, <2>6, <2>7, <2>8, <2>9 DEF Next, MhdStep, ReplyStep
<1> QED
  BY <1>1, <1>2 DEF RunTest, RunLeave, ReplyTest, ReplyTestSuspended, MayReply, ToResume, MarkInv,
     NoSignal
(* A verb that no signal stopped has resumed its connection, or replied    *)
(* before main marked the suspension (afb-hreq.c:184, afb-hsrv.c:209-211). *)
THEOREM RepliesResumed == Spec => ReplyIsResumed
<1>1. IInv /\ MarkInv /\ [Next]_vars => MarkInv'
  <2>1. ASSUME MarkInv, UNCHANGED vars PROVE MarkInv'
    BY <2>1 DEF vars, MarkInv, NoSignal
  <2>2. Next => ~Clash
    BY DEF Next
  <2> QED  BY <2>1, <2>2, MarkKept
<1>2. IInv /\ MarkInv /\ [Next]_vars =>
        [\A w \in Workers :
           NoSignal /\ ~At(w, "verb_end") /\ At(w, "verb_end")' =>
              \/ conn[job[w]].st # "suspended" \/ conn[job[w]].resuming
              \/ \E t \in Threads : At(t, "flag") /\ cur[t] = job[w]]_vars
  <2>1. Next => ~Clash
    BY DEF Next
  <2> QED  BY <2>1, VerbOver
<1> QED
  BY <1>1, <1>2, InitMark, InvHolds, PTL DEF Spec, ReplyIsResumed
=============================================================================
