---------------------------- MODULE HttpdContexts ----------------------------
(***************************************************************************)
(* Whose the contexts of a session are: the one of its user, which a       *)
(* request works on a copy of, and the one of its transport.  They are set *)
(* when the session opens, by handlers - with httpd_sess_set_ctx() or by   *)
(* assigning to the request - and between requests, and each is freed by   *)
(* the server with the function that came with it, unless a handler asked  *)
(* the server to ignore changes.  Source:                                  *)
(* esp_http_server/src/httpd_sess.c, httpd_parse.c.                        *)
(*                                                                         *)
(* A context is <<n, f>>: number n, freed with f ("free" is no function);  *)
(* it is new when it is first set.  A handler that assigned to the request *)
(* does so once, and frees what the server is to ignore itself.  Only the  *)
(* server's task calls these functions.                                    *)
(***************************************************************************)
EXTENDS Naturals, Sequences, FiniteSets

CONSTANTS
  FreeFns,    \* functions that free a context
  MaxContexts,\* bound: contexts made
  MaxSessions \* bound: sessions opened, one after the other

ASSUME ContextConstants == {MaxContexts, MaxSessions} \subseteq Nat

NoCtx == 0

VARIABLES
  session,    \* the session: open, ctx, free_ctx, ignore, transport_ctx, free_transport_ctx
  hd_req,     \* the request's copy: active, sess_ctx, free_ctx, ignore
  assigned,   \* the handler assigned to the request
  given,   \* given[n]: the function that context n is to be freed with
  freed,      \* what was freed, by which function, in order
  sessions

ctxVars == <<session, hd_req, assigned, given, freed, sessions>>

NoSession == [open |-> FALSE, ctx |-> NoCtx, free_ctx |-> "none", ignore |-> FALSE,
              transport_ctx |-> NoCtx, free_transport_ctx |-> "none"]
NoReq == [active |-> FALSE, sess_ctx |-> NoCtx, free_ctx |-> "none", ignore |-> FALSE]

CtxInit ==
  /\ session = NoSession /\ hd_req = NoReq /\ assigned = FALSE
  /\ given = <<>> /\ freed = <<>> /\ sessions = 0

(* httpd_sess_free_ctx() *)
FreeCtx(log, ctx, fn) == IF ctx = NoCtx THEN log ELSE Append(log, <<ctx, fn>>)

(* A new context for fn to free, or none. *)
Made(c, fn) ==
  \/ c = NoCtx /\ UNCHANGED given
  \/ c = Len(given) + 1 /\ c <= MaxContexts /\ given' = Append(given, fn)

Sets == (0..MaxContexts) \X FreeFns

-----------------------------------------------------------------------------
(* httpd_sess_new(), with an open_fn that may set contexts or fail.         *)
SessOpened(c, t, fn) ==
  [NoSession EXCEPT !.open = TRUE, !.ctx = c, !.free_ctx = IF c = NoCtx THEN "none" ELSE fn,
                    !.transport_ctx = t, !.free_transport_ctx = IF t = NoCtx THEN "none" ELSE fn]

(* httpd_sess_delete() with httpd_sess_clear_ctx(), of the session s.       *)
SessGone(s) ==
  /\ session' = NoSession
  /\ freed' = FreeCtx(FreeCtx(freed, s.ctx, s.free_ctx), s.transport_ctx, s.free_transport_ctx)

NewSession ==
  /\ ~session.open /\ sessions < MaxSessions /\ sessions' = sessions + 1
  /\ \E fn \in FreeFns, c \in {NoCtx, Len(given) + 1} :
     \E t \in {NoCtx, IF c = NoCtx THEN Len(given) + 1 ELSE c + 1} :
       /\ given' = given \o [n \in 1..Cardinality({c, t} \ {NoCtx}) |-> fn]
       /\ Len(given') <= MaxContexts
       /\ \/ session' = SessOpened(c, t, fn) /\ UNCHANGED freed
          \/ SessGone(SessOpened(c, t, fn))
  /\ UNCHANGED <<hd_req, assigned>>

SessDelete ==
  /\ session.open /\ ~hd_req.active /\ SessGone(session)
  /\ UNCHANGED <<hd_req, assigned, given, sessions>>

(* httpd_req_new(): the session's contexts are copied to the request.       *)
ReqNew ==
  /\ session.open /\ ~hd_req.active
  /\ hd_req' = [active |-> TRUE, sess_ctx |-> session.ctx, free_ctx |-> session.free_ctx,
                ignore |-> session.ignore]
  /\ assigned' = FALSE
  /\ UNCHANGED <<session, given, freed, sessions>>

-----------------------------------------------------------------------------
(* Mutant: what the request had is freed, even what the session still has.  *)
MutReplacedInRequest(c) ==
  IF hd_req.sess_ctx # c THEN FreeCtx(freed, hd_req.sess_ctx, hd_req.free_ctx) ELSE freed

(* What httpd_sess_set_ctx() in a handler frees: a context of the request   *)
(* that the session does not have; the session's is freed after the         *)
(* handler.                                                                 *)
ReplacedInRequest(c) ==
  IF hd_req.sess_ctx # c /\ session.ctx # hd_req.sess_ctx
  THEN FreeCtx(freed, hd_req.sess_ctx, hd_req.free_ctx) ELSE freed

(* httpd_sess_set_ctx() in the session's handler, of a new context, of none *)
(* or of the session's own, which it may give another function.             *)
SetCtxInHandler ==
  /\ hd_req.active
  /\ \E set \in Sets :
       /\ Made(set[1], set[2])
       /\ hd_req' = [hd_req EXCEPT !.sess_ctx = set[1], !.free_ctx = set[2]]
       /\ freed' = ReplacedInRequest(set[1])
  /\ UNCHANGED <<session, assigned, sessions>>

SetOwnAgain ==
  /\ hd_req.active /\ session.ctx # NoCtx
  /\ hd_req' = [hd_req EXCEPT !.sess_ctx = session.ctx, !.free_ctx = session.free_ctx]
  /\ freed' = ReplacedInRequest(session.ctx)
  /\ UNCHANGED <<session, assigned, given, sessions>>

(* The handler assigns to req->sess_ctx and req->free_ctx; what an earlier  *)
(* call set in this request is its own to keep, so it does not replace it.  *)
AssignInHandler ==
  /\ hd_req.active /\ ~assigned /\ hd_req.sess_ctx = session.ctx
  /\ assigned' = TRUE
  /\ \E set \in Sets :
       /\ Made(set[1], set[2])
       /\ hd_req' = [hd_req EXCEPT !.sess_ctx = set[1], !.free_ctx = set[2]]
  /\ UNCHANGED <<session, freed, sessions>>

(* The handler asks the server to ignore changes, or not to. *)
SetIgnore ==
  /\ hd_req.active
  /\ hd_req' = [hd_req EXCEPT !.ignore = ~@]
  /\ UNCHANGED <<session, assigned, given, freed, sessions>>

(* httpd_sess_set_ctx() outside of the session's handler: in open_fn, in    *)
(* queued work or in another session's handler.                             *)
SetCtxOutside ==
  /\ session.open /\ ~hd_req.active
  /\ \E set \in Sets :
       /\ Made(set[1], set[2])
       /\ session' = [session EXCEPT !.ctx = set[1], !.free_ctx = set[2]]
       /\ freed' = IF session.ctx # set[1] THEN FreeCtx(freed, session.ctx, session.free_ctx) ELSE freed
  /\ UNCHANGED <<hd_req, assigned, sessions>>

(* httpd_sess_set_transport_ctx() *)
SetTransportCtx ==
  /\ session.open
  /\ \E set \in Sets :
       /\ Made(set[1], set[2])
       /\ session' = [session EXCEPT !.transport_ctx = set[1], !.free_transport_ctx = set[2]]
       /\ freed' = IF session.transport_ctx # set[1]
                   THEN FreeCtx(freed, session.transport_ctx, session.free_transport_ctx) ELSE freed
  /\ UNCHANGED <<hd_req, assigned, sessions>>

(* httpd_req_cleanup() after a handler that freed the session's context it  *)
(* replaced if the server is to ignore that; then the session is deleted if *)
(* the request failed.                                                      *)
AfterCleanup ==
  [session EXCEPT !.ctx = hd_req.sess_ctx, !.free_ctx = hd_req.free_ctx, !.ignore = hd_req.ignore]

OldFreed ==
  LET changed == session.ctx # hd_req.sess_ctx
      by_handler == IF hd_req.ignore /\ changed THEN FreeCtx(freed, session.ctx, session.free_ctx) ELSE freed
  IN IF ~hd_req.ignore /\ changed THEN FreeCtx(by_handler, session.ctx, session.free_ctx) ELSE by_handler

ReqCleanup ==
  /\ hd_req.active
  /\ hd_req' = NoReq /\ assigned' = FALSE
  /\ \E failed \in BOOLEAN, log \in {OldFreed} :
       /\ session' = IF failed THEN NoSession ELSE AfterCleanup
       /\ freed' = IF failed THEN FreeCtx(FreeCtx(log, hd_req.sess_ctx, hd_req.free_ctx),
                                       session.transport_ctx, session.free_transport_ctx)
                   ELSE log
  /\ UNCHANGED <<given, sessions>>

CtxNext ==
  \/ NewSession \/ SessDelete \/ ReqNew \/ SetCtxInHandler \/ SetOwnAgain \/ AssignInHandler
  \/ SetIgnore \/ SetCtxOutside \/ SetTransportCtx \/ ReqCleanup

CtxSpec == CtxInit /\ [][CtxNext]_ctxVars

-----------------------------------------------------------------------------
InUse ==
  {session.ctx, session.transport_ctx} \union (IF hd_req.active THEN {hd_req.sess_ctx} ELSE {})

(* Each context is freed once at most, with its own function, never while   *)
(* the session or its request points to it, and at the latest when the      *)
(* session is deleted, however the sets of a context by calls and by        *)
(* assignment, in a handler and outside, follow each other                  *)
(* (httpd_sess.c:231-332, httpd_parse.c:728-748).                           *)
ContextsFreedOnce ==
  LET Times_(n) == Cardinality({i \in DOMAIN freed : freed[i][1] = n}) IN
  /\ \A n \in DOMAIN given :
       /\ Times_(n) = IF n \in InUse THEN 0 ELSE 1
  /\ \A i \in DOMAIN freed : freed[i][2] = given[freed[i][1]]
=============================================================================
