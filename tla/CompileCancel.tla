---------------------------- MODULE CompileCancel ----------------------------
(***************************************************************************)
(* The stop request of one compile or publication (src-tauri/src/state.rs, *)
(* CompileCancel): a flag, the compiler process it is aimed at, and the    *)
(* cutoff after which nothing can be stopped any more.  Every operation    *)
(* holds the token's mutex, so each is one operator on the token's state.  *)
(* Scopes nest: the outermost begin and the outermost detach reset it.     *)
(***************************************************************************)
EXTENDS Integers

CONSTANTS
  Pid,    (* the compiler processes                                         *)
  NoPid   (* no process: not in Pid                                         *)

Tokens ==
  [scopes : Nat, requested : BOOLEAN, pid : Pid \cup {NoPid}, cutoff : BOOLEAN]

Fresh == [scopes |-> 0, requested |-> FALSE, pid |-> NoPid, cutoff |-> FALSE]

(* A variant, not the code: a nested begin resets the token too.           *)
BeginAfresh(token) == [Fresh EXCEPT !.scopes = token.scopes + 1]

Begin(token) ==
  [IF token.scopes = 0 THEN Fresh ELSE token EXCEPT !.scopes = @ + 1]

Stoppable(token) == token.scopes > 0 /\ ~token.cutoff

(* A stop is recorded, and names the process to end.                       *)
RequestStop(token) ==
  IF Stoppable(token) THEN [token EXCEPT !.requested = TRUE] ELSE token
Target(token) == IF Stoppable(token) THEN {token.pid} \ {NoPid} ELSE {}

(* A compiler that has just been spawned; FALSE: a stop came before it.    *)
Attach(token, pid) ==
  IF Stoppable(token) THEN [token EXCEPT !.pid = pid] ELSE token
MayRun(token) == Stoppable(token) /\ ~token.requested

Unregister(token, pid) ==
  IF token.pid = pid THEN [token EXCEPT !.pid = NoPid] ELSE token

IsRequested(token) == token.scopes > 0 /\ token.requested /\ ~token.cutoff

Detach(token) ==
  IF token.scopes <= 1 THEN Fresh
  ELSE [token EXCEPT !.pid = NoPid, !.scopes = @ - 1]

(* commit_visibility: the commit runs while the mutex is held.             *)
MayCommit(token) == ~(token.scopes > 0 /\ token.requested)
Committed(token) == [token EXCEPT !.cutoff = TRUE]
=============================================================================
