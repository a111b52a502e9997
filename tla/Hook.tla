-------------------------------- MODULE Hook --------------------------------
(***************************************************************************)
(* The traces of the requests (afb-hook.c): a call that hooks observe is   *)
(* given a proxy of its request.  The proxy passes every operation to the  *)
(* request and tells it to its observers; it has a count of its own, whose *)
(* first reference is dropped by the reply.                                *)
(*                                                                         *)
(* H is the counts of the hooks, T a proxy.                                *)
(***************************************************************************)
EXTENDS Naturals, FiniteSets

CONSTANTS
    Hooks,          \* the hooks, created by main
    Traced          \* the names of the apis that each hook observes

NoProxy == [observers |-> {}, refcount |-> 0]
IsProxy(T) == T.refcount # 0

(* afb_hook_req_create.                                                    *)
HookInit == [h \in Hooks |-> 1]

(* afb_hook_req_call, hook_req_create, hook_req_add_observer: a proxy only *)
(* if a hook observes the call.                                            *)
Observing(name) == {h \in Hooks : name \in Traced[h]}

afb_hook_addref(H, hs) == [h \in Hooks |-> IF h \in hs THEN H[h] + 1 ELSE H[h]]

afb_hook_unref(H, hs) == [h \in Hooks |-> IF h \in hs THEN H[h] - 1 ELSE H[h]]

afb_hook_req_call(H, name) ==
    LET hs == Observing(name)
    IN  [hooks |-> afb_hook_addref(H, hs),
         proxy |-> [observers |-> hs, refcount |-> IF hs = {} THEN 0 ELSE 1]]

(* req_hook_addref, req_hook_subcall: nothing to count without proxy.      *)
hook_req_addref(T) == IF IsProxy(T) THEN [T EXCEPT !.refcount = @ + 1] ELSE T

(* hook_req_unref: the last reference tells the end to the observers and   *)
(* leaves them.                                                            *)
hook_req_unref(H, T) ==
    CASE T.refcount = 0 -> [hooks |-> H, proxy |-> T]
      [] T.refcount = 1 -> [hooks |-> afb_hook_unref(H, T.observers), proxy |-> NoProxy]
      [] OTHER -> [hooks |-> H, proxy |-> [T EXCEPT !.refcount = @ - 1]]

MutReplied(H, T, how) == [hooks |-> H, proxy |-> T]

(* req_hook_success and req_hook_fail drop the first reference,            *)
(* req_hook_send does not.                                                 *)
Replied(H, T, how) ==
    IF how = "send" THEN [hooks |-> H, proxy |-> T] ELSE hook_req_unref(H, T)
=============================================================================
