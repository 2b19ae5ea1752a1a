---------------------------- MODULE CrossCalls ----------------------------
(***************************************************************************)
(* Cross-chain contract calls (XCALL / XEXEC): a contract on the source    *)
(* chain asks for a method of a contract on the target chain, the hub      *)
(* federation relays the request as a signed dispatch row and the outcome  *)
(* as a signed result row, and the requester's callback hears exactly one  *)
(* outcome: the target's, or 'expired' at the request's deadline.          *)
(*                                                                         *)
(* The module composes the two indexers' end-of-block call passes with the *)
(* relay between them.  Rows carry the height they are admitted at, the    *)
(* retirement flag days are past and the call-sync barrier has run, so a   *)
(* row becomes visible before the block that admits it is processed.       *)
(***************************************************************************)
EXTENDS Integers, FiniteSets

CONSTANTS Calls,       \* call_ids, compared as numbers
          Cap,         \* XCALL_MAX_CALLS_PER_BLOCK
          Grace,       \* RETIREMENT_GRACE_BLOCKS, of either chain
          Deadlines,   \* DEADLINE_BLOCKS a request may ask for
          Depth,       \* relay confirmation depth, of either chain
          SyncLag,     \* blocks a capability snapshot may trail its row
          SnapEvery,   \* blocks between capability snapshots
          MaxSource,   \* bound: source height
          LastEmit,    \* bound: last source height that emits a request
          MaxTarget,   \* bound: target height
          MaxReorgs    \* bound: source and target reorganisations

ASSUME CallConstants ==
    /\ Calls \subseteq Int /\ IsFiniteSet(Calls)
    /\ Cap \in Nat \ {0} /\ Grace \in Nat /\ Depth \in Nat \ {0} /\ SyncLag \in Nat
    /\ SnapEvery \in Nat \ {0}
    /\ Deadlines \subseteq Nat \ {0}
    /\ MaxSource \in Nat /\ LastEmit \in Nat /\ MaxTarget \in Nat /\ MaxReorgs \in Nat

VARIABLES sh,      \* last processed block of the source chain
          req,     \* xcalls: the request of each call
          cb,      \* cross_chain_call_callbacks: how its result row was settled
          heard,   \* callback EXECUTEs injected into the requester
          res,     \* cross_chain_calls, phase 'result', in the source's mirror
          th,      \* last processed block of the target chain
          top,     \* the highest block it ever processed
          disp,    \* cross_chain_calls, phase 'dispatch', in the target's mirror
          exec,    \* cross_chain_call_executions
          reorgs   \* reorganisations so far

vars == <<sh, req, cb, heard, res, th, top, disp, exec, reorgs>>

NoRow     == [kind |-> "none"]
NoRequest == [st |-> "none", at |-> 0, due |-> 0, done |-> 0]
Nothing   == [at |-> 0, what |-> "none"]
Outcomes  == {"ok", "failed"}

\* The verdict the quorum check reaches on a row: it verifies, its signature
\* set is short (or its hop count is over the ceiling), or the capability
\* snapshot it is checked against has not been mirrored yet.  A result row may
\* also name another target chain than its request did.
Verdicts == {"good", "short", "unsynced"}
ResultVerdicts == Verdicts \cup {"misrouted"}

----------------------------------------------------------------------------
(* The capped selection both mirror-driven passes make.                    *)

\* Rows of the mirror that block h admits and that left no local record.
Effective(rows, settled, h) ==
    {c \in Calls : /\ rows[c].kind # "none" /\ rows[c].eff <= h
                   /\ settled[c] = Nothing}

\* ORDER BY snapshot_block, call_id.
RowBefore(rows, c, d) ==
    \/ rows[c].snap < rows[d].snap
    \/ rows[c].snap = rows[d].snap /\ c < d

Slice(rows, S) == {c \in S : Cardinality({d \in S : RowBefore(rows, d, c)}) < Cap}

\* ORDER BY deadline_block, action_index; a request's action index grows with
\* its block.
DueBefore(reqs, c, d) ==
    \/ reqs[c].due < reqs[d].due
    \/ reqs[c].due = reqs[d].due /\ reqs[c].at < reqs[d].at
    \/ reqs[c].due = reqs[d].due /\ reqs[c].at = reqs[d].at /\ c < d

\* getExpiredCrossChainCallRequests at block h, capped.
Overdue(reqs, h) == {c \in Calls : reqs[c].st = "pending" /\ reqs[c].due < h}
ExpiryLot(reqs, h) ==
    LET S == Overdue(reqs, h)
    IN  {c \in S : Cardinality({d \in S : DueBefore(reqs, d, c)}) < Cap}

----------------------------------------------------------------------------
(* Source side: pass 2, result delivery.                                   *)

\* Mutant: an undeliverable row is refused anew on every block.
NeverAgesOut(reqs, c, h) == FALSE

\* Whether an undeliverable result row has aged out: past the deadline of the
\* request it answers, or selectable for the grace when there is none.
ResultAgedOut(reqs, c, h) ==
    IF reqs[c].st = "none" THEN res[c].eff + Grace <= h ELSE h > reqs[c].due

\* Why processResult may refuse a row; "" when it is deliverable.
Refusal(reqs, c) ==
    CASE reqs[c].st = "none"         -> "no_request"
      [] res[c].kind = "misrouted"   -> "routing"
      [] res[c].kind = "unsynced"    -> "deferred"
      [] res[c].kind = "short"       -> "no_quorum"
      [] OTHER                       -> ""

\* retireUndeliverableResult: an aged-out row is settled without a callback.
Retirement(reqs, c, h) == IF ResultAgedOut(reqs, c, h) THEN "retired" ELSE "none"

\* What the pass records for a selected row; "none" leaves it in the queue.
ProcessResult(reqs, c, h) ==
    LET why == Refusal(reqs, c) IN
    CASE why = "deferred"                               -> "none"
      [] why \notin {"", "deferred"}                     -> Retirement(reqs, c, h)
      [] why = "" /\ reqs[c].st # "pending"             -> "skipped"
      [] why = "" /\ reqs[c].st = "pending"             -> res[c].what

\* Mutant: the deadline pass knows only the rows delivered in this block.
FetchedSliceOnly(reqs, h) == Slice(res, Effective(res, cb, h))

\* The whole effective set when some request may expire in this block, and
\* only the capped slice when none can.
FetchedResults(reqs, h) ==
    LET all == Effective(res, cb, h)
    IN  IF Overdue(reqs, h) # {} THEN all ELSE Slice(res, all)

\* resultSuppressesExpiry: the row will still deliver.
SuppressesExpiry(reqs, c) == Refusal(reqs, c) \in {"deferred", ""}

Tell(h, what)  == [at |-> h, what |-> what]
Flip(r, to, h) == [r EXCEPT !.st = to, !.done = h]

\* deliverResult and parseExpire flip a pending request exactly once.
Complete(reqs, S, h) == [c \in Calls |-> IF c \in S THEN Flip(reqs[c], "completed", h) ELSE reqs[c]]
Expire(reqs, S, h)   == [c \in Calls |-> IF c \in S THEN Flip(reqs[c], "expired", h) ELSE reqs[c]]

\* The lot of overdue requests, but for those whose result will still deliver.
ExpiresNow(reqs, fetched, h) ==
    {c \in ExpiryLot(reqs, h) : ~(c \in fetched /\ SuppressesExpiry(reqs, c))}

\* parseRequest: deadline_block counts from the block of the request.
Requested(new, h) ==
    [c \in Calls |-> IF c \in DOMAIN new
                     THEN [st |-> "pending", at |-> h, due |-> h + new[c], done |-> 0]
                     ELSE req[c]]

\* One block of the source chain: the transactions' new requests, then result
\* delivery, then the deadline pass over what is still pending.
SourceBlock(new) ==
    LET h       == sh + 1
        reqs    == Requested(new, h)
        fetched == FetchedResults(reqs, h)
        lot     == Slice(res, fetched)
        verdict == [c \in Calls |-> IF c \in lot THEN ProcessResult(reqs, c, h) ELSE "none"]
        told    == {c \in lot : verdict[c] \in Outcomes}
        reqs2   == Complete(reqs, told, h)
        late    == ExpiresNow(reqs2, fetched, h)
    IN  /\ sh < MaxSource
        /\ \A c \in DOMAIN new : req[c].st = "none" /\ h <= LastEmit
        /\ \A c \in Calls : res[c].kind = "unsynced" => h < res[c].eff + SyncLag
        /\ sh' = h
        /\ req' = Expire(reqs2, late, h)
        /\ cb' = [c \in Calls |-> IF verdict[c] # "none" THEN Tell(h, verdict[c]) ELSE cb[c]]
        /\ heard' = [c \in Calls |->
                       CASE c \in told -> heard[c] \cup {Tell(h, verdict[c])}
                         [] c \in late -> heard[c] \cup {Tell(h, "expired")}
                         [] OTHER      -> heard[c]]
        /\ UNCHANGED <<res, th, top, disp, exec, reorgs>>

----------------------------------------------------------------------------
(* Target side: pass 1, XEXEC injection.                                   *)

DispatchAgedOut(c, h) == disp[c].eff + Grace <= h

\* What an injected XEXEC leaves: the run's outcome, a retirement of a row the
\* quorum still refuses after the grace, or nothing.
InjectedExec(c, h, outcome) ==
    CASE disp[c].kind = "good"                            -> outcome
      [] disp[c].kind = "short" /\ DispatchAgedOut(c, h)  -> "retired"
      [] OTHER                                            -> "none"

\* One block of the target chain; run says what each target method would do.
TargetBlock(run) ==
    LET h   == th + 1
        lot == Slice(disp, Effective(disp, exec, h))
        did == [c \in Calls |-> IF c \in lot THEN InjectedExec(c, h, run[c]) ELSE "none"]
    IN  /\ th < MaxTarget
        /\ \A c \in Calls : disp[c].kind = "unsynced" => h < disp[c].eff + SyncLag
        /\ \A c \in Calls : did[c] \notin Outcomes => run[c] = "ok"
        /\ th' = h /\ top' = IF h > top THEN h ELSE top
        /\ exec' = [c \in Calls |-> IF did[c] # "none" THEN Tell(h, did[c]) ELSE exec[c]]
        /\ UNCHANGED <<sh, req, cb, heard, res, disp, reorgs>>

----------------------------------------------------------------------------
(* The federation's relay, seen through the rows it finalizes (external).  *)
(* A row's snapshot_block is the last capability snapshot of its round.    *)

\* A buried pending request is dispatched, again when it was mined anew.
RelayDispatch(c, kind) ==
    /\ req[c].st = "pending" /\ req[c].at + Depth <= sh
    /\ disp[c].kind # "none" => disp[c].src # req[c].at
    /\ disp' = [disp EXCEPT ![c] = [kind |-> kind, snap |-> sh \div SnapEvery, eff |-> th + 1,
                                    src |-> req[c].at]]
    /\ UNCHANGED <<sh, req, cb, heard, res, th, top, exec, reorgs>>

\* A buried execution is answered, once per mining of its request; a
\* retirement is reported as not executed and is never answered.
RelayResult(c, kind) ==
    /\ exec[c].what \in Outcomes /\ exec[c].at + Depth <= th
    /\ res[c].kind # "none" => res[c].src # disp[c].src
    /\ res' = [res EXCEPT ![c] = [kind |-> kind, snap |-> sh \div SnapEvery,
                                  eff |-> sh + 1, src |-> disp[c].src,
                                  what |-> exec[c].what]]
    /\ UNCHANGED <<sh, req, cb, heard, th, top, disp, exec, reorgs>>

\* Signatures converge across hubs, and snapshots are mirrored.
RowVerifies(c) ==
    /\ \/ /\ disp[c].kind \in {"short", "unsynced"}
          /\ disp' = [disp EXCEPT ![c].kind = "good"] /\ UNCHANGED res
       \/ /\ res[c].kind \in {"short", "unsynced"}
          /\ res' = [res EXCEPT ![c].kind = "good"] /\ UNCHANGED disp
    /\ UNCHANGED <<sh, req, cb, heard, th, top, exec, reorgs>>

----------------------------------------------------------------------------
(* Reorganisations.                                                        *)

Before(x, b) == IF x.at >= b THEN Nothing ELSE x

\* Mutant: the in-place flips survive the rollback.
KeepFlip(r, b) == r

\* resetOrphanedXcallRequests: a flip made in an erased block is undone.
UndoFlip(r, b) ==
    IF r.st \in {"completed", "expired"} /\ r.done >= b
    THEN [r EXCEPT !.st = "pending", !.done = 0] ELSE r

\* The source rolls back to below block b: requests, callbacks and settled
\* results of the erased blocks go, flips made there are undone, and the
\* mirror rows of erased requests are purged.
SourceRollback(b) ==
    /\ b \in 1..sh /\ reorgs < MaxReorgs
    /\ sh' = b - 1 /\ reorgs' = reorgs + 1
    /\ req' = [c \in Calls |-> IF req[c].at >= b THEN NoRequest ELSE UndoFlip(req[c], b)]
    /\ cb' = [c \in Calls |-> Before(cb[c], b)]
    /\ heard' = [c \in Calls |-> {e \in heard[c] : e.at < b}]
    /\ res' = [c \in Calls |-> IF res[c].kind # "none" /\ res[c].src >= b
                               THEN NoRow ELSE res[c]]
    /\ UNCHANGED <<th, top, disp, exec>>

\* The target never rolls back to the depth results are relayed at, counted
\* from the highest block it had, however many rollbacks it takes.
TargetRollback(b) ==
    /\ b \in 1..th /\ b > top - Depth /\ reorgs < MaxReorgs
    /\ th' = b - 1 /\ reorgs' = reorgs + 1
    /\ exec' = [c \in Calls |-> Before(exec[c], b)]
    /\ UNCHANGED <<sh, req, cb, heard, res, top, disp>>

Init ==
    /\ sh = 0 /\ th = 0 /\ top = 0 /\ reorgs = 0
    /\ req = [c \in Calls |-> NoRequest] /\ heard = [c \in Calls |-> {}]
    /\ cb = [c \in Calls |-> Nothing] /\ exec = [c \in Calls |-> Nothing]
    /\ res = [c \in Calls |-> NoRow] /\ disp = [c \in Calls |-> NoRow]

Next ==
    \/ \E S \in SUBSET Calls : \E new \in [S -> Deadlines] : SourceBlock(new)
    \/ \E run \in [Calls -> Outcomes] : TargetBlock(run)
    \/ \E c \in Calls, kind \in Verdicts : RelayDispatch(c, kind)
    \/ \E c \in Calls, kind \in ResultVerdicts : RelayResult(c, kind)
    \/ \E c \in Calls : RowVerifies(c)
    \/ \E b \in 1..MaxSource : SourceRollback(b)
    \/ \E b \in 1..MaxTarget : TargetRollback(b)

Spec == Init /\ [][Next]_vars

----------------------------------------------------------------------------
(* A result row block h admits, that verifies and has not been settled.    *)
Deliverable(c, h) ==
    /\ res[c].kind = "good" /\ res[c].eff <= h /\ cb[c] = Nothing

\* The deadline never overtakes a deliverable result: a request is not flipped
\* to 'expired' by a block that admits a verified, unsettled result row for
\* it, even when the per-block cap defers that row's delivery.
ResultBeatsDeadline ==
    [][\A c \in Calls :
         req[c].st # "expired" /\ req'[c].st = "expired" => ~Deliverable(c, sh')]_vars

\* The requester hears exactly one outcome, in the block that flips its
\* request, and the true one: nothing while the request is pending, the
\* outcome of the run that stands on the target chain once it completed, and
\* 'expired' alone once it expired, whatever the order of results, deadlines,
\* retirements and reorganisations.
OneTrueOutcome ==
    \A c \in Calls :
      CASE req[c].st \in {"none", "pending"} -> heard[c] = {}
        [] req[c].st = "expired"   -> heard[c] = {Tell(req[c].done, "expired")}
        [] req[c].st = "completed" -> /\ exec[c].what \in Outcomes
                                      /\ heard[c] = {Tell(req[c].done, exec[c].what)}

\* Rows that can never apply do not hold the capped passes: past every
\* deadline, a source block that finds a request pending settles a request or
\* a row, and a target block that finds a verified dispatch waiting runs or
\* retires one, once the rows queued ahead are synced and past the grace.
\* Each such block shortens a finite queue, so nothing in it starves.
CappedPassesAdvance ==
    [][/\ ( /\ sh' = sh + 1
            /\ \E c \in Calls : req[c].st = "pending"
            /\ \A c \in Calls : req'[c].due < sh'
            /\ \A c \in Effective(res, cb, sh') :
                 /\ res[c].kind # "unsynced"
                 /\ req[c].st = "none" => res[c].eff + Grace <= sh' )
           => <<req', cb'>> # <<req, cb>>
       /\ ( /\ th' = th + 1
            /\ \E c \in Effective(disp, exec, th') : disp[c].kind = "good"
            /\ \A c \in Effective(disp, exec, th') :
                 disp[c].kind # "unsynced" /\ disp[c].eff + Grace <= th' )
           => exec' # exec]_vars
============================================================================
