------------------------- MODULE CrossCallsProofs -------------------------
(***************************************************************************)
(* Proofs about CrossCalls for any finite set of calls, any caps, depths   *)
(* and deadlines, and any number of blocks and reorganisations: what a     *)
(* settled call says is true, and, from the same invariant, what no step   *)
(* may do: the deadline never overtakes a result, and the capped passes    *)
(* never stand still.                                                      *)
(***************************************************************************)
EXTENDS CrossCalls, FiniteSetTheorems, TLAPS

Request == [st : {"none", "pending", "completed", "expired"}, at : Nat, due : Nat, done : Nat]

Result == [kind : ResultVerdicts, snap : Int, eff : Nat, src : Nat, what : Outcomes]

Dispatch == [kind : Verdicts, snap : Int, eff : Nat, src : Nat]

Settlement == [at : Nat, what : {"none", "ok", "failed", "retired", "skipped"}]

Types ==
    /\ sh \in Nat /\ th \in Nat /\ top \in Nat /\ th <= top
    /\ req \in [Calls -> Request]
    /\ heard \in [Calls -> SUBSET [at : Nat, what : Outcomes \cup {"expired"}]]
    /\ cb \in [Calls -> Settlement]
    /\ exec \in [Calls -> Settlement]
    /\ res \in [Calls -> Result \cup {NoRow}]
    /\ disp \in [Calls -> Dispatch \cup {NoRow}]

\* The run of a call stands, deeper on the target chain than any reorganisation.
Stands(c) == exec[c].what \in Outcomes /\ exec[c].at + Depth <= top

\* A result row tells of a run that stands.
ResultsStand == \A c \in Calls : res[c].kind # "none" => Stands(c) /\ res[c].what = exec[c].what

\* A completed request was answered by a run that stands, and a request was not
\* flipped before its own block.
FlipsStand ==
    \A c \in Calls :
        /\ req[c].at <= sh
        /\ req[c].st = "completed" => Stands(c)
        /\ req[c].st \in {"completed", "expired"} => req[c].at <= req[c].done

\* A call with a record on the target chain has its dispatch row.
RunsWereDispatched == \A c \in Calls : exec[c].what # "none" => disp[c].kind # "none"

\* OneTrueOutcome, one state of a request at a time.
OutcomesAreTrue ==
    \A c \in Calls :
        /\ req[c].st \in {"none", "pending"} => heard[c] = {}
        /\ req[c].st = "expired" => heard[c] = {Tell(req[c].done, "expired")}
        /\ req[c].st = "completed" => heard[c] = {Tell(req[c].done, exec[c].what)}

Inv == Types /\ ResultsStand /\ FlipsStand /\ RunsWereDispatched /\ OutcomesAreTrue

----------------------------------------------------------------------------
(* What one block of the source chain does to a call.                      *)

\* A row the pass delivers verified, and answers a pending request.
LEMMA DeliveredRow ==
    ASSUME NEW reqs, NEW c \in Calls, NEW h,
           res[c].kind # "none", res[c] \in Result \cup {NoRow},
           ProcessResult(reqs, c, h) \in Outcomes
    PROVE  /\ reqs[c].st = "pending" /\ res[c].kind = "good"
           /\ ProcessResult(reqs, c, h) = res[c].what
<1>1. res[c].kind \in ResultVerdicts
    BY DEF Result, NoRow
<1>2. Retirement(reqs, c, h) \notin Outcomes /\ "none" \notin Outcomes /\ "skipped" \notin Outcomes
    BY DEF Retirement, Outcomes
<1>3. Refusal(reqs, c) = "" /\ reqs[c].st = "pending" /\ ProcessResult(reqs, c, h) = res[c].what
    BY Zenon, <1>2 DEF ProcessResult
<1> QED BY <1>1, <1>3 DEF Refusal, ResultVerdicts, Verdicts

\* The requests as the transactions of the block leave them.
LEMMA RequestsOf ==
    ASSUME NEW S \in SUBSET Calls, NEW new \in [S -> Deadlines], Types,
           \A c \in S : req[c].st = "none"
    PROVE  \A c \in Calls :
              /\ c \notin S => Requested(new, sh + 1)[c] = req[c]
              /\ c \in S => /\ req[c].st = "none"
                            /\ Requested(new, sh + 1)[c] =
                                 [st |-> "pending", at |-> sh + 1, due |-> sh + 1 + new[c], done |-> 0]
              /\ Requested(new, sh + 1)[c] \in Request
<1>1. \A c \in S : new[c] \in Nat
    BY Zenon, CallConstants
<1>2. sh + 1 \in Nat /\ \A c \in S : sh + 1 + new[c] \in Nat
    BY <1>1 DEF Types
<1>3. DOMAIN new = S
    OBVIOUS
<1>4. \A c \in Calls :
         Requested(new, sh + 1)[c] =
            IF c \in S THEN [st |-> "pending", at |-> sh + 1, due |-> sh + 1 + new[c], done |-> 0]
                       ELSE req[c]
    BY <1>3 DEF Requested
<1>5. ASSUME NEW c \in S
      PROVE  /\ c \in Calls /\ req[c].st = "none"
             /\ Requested(new, sh + 1)[c] =
                   [st |-> "pending", at |-> sh + 1, due |-> sh + 1 + new[c], done |-> 0]
             /\ Requested(new, sh + 1)[c] \in Request
    <2>1. Requested(new, sh + 1)[c] =
             [st |-> "pending", at |-> sh + 1, due |-> sh + 1 + new[c], done |-> 0]
        BY <1>4
    <2> QED BY <2>1, <1>2 DEF Request
<1>6. ASSUME NEW c \in Calls, c \notin S
      PROVE  Requested(new, sh + 1)[c] = req[c] /\ req[c] \in Request
    BY Zenon, <1>4, <1>6 DEF Types
<1> QED BY <1>5, <1>6

\* Call by call, a block delivers the result of a pending request, expires a
\* pending request that has no deliverable result, or leaves it.
LEMMA SourceBlockAt ==
    ASSUME Types, NEW S \in SUBSET Calls, NEW new \in [S -> Deadlines], SourceBlock(new),
           NEW c \in Calls
    PROVE  LET h == sh + 1
               r == Requested(new, h)[c]
           IN  \/ /\ r.st = "pending" /\ res[c].kind = "good"
                  /\ req'[c] = Flip(r, "completed", h)
                  /\ heard'[c] = heard[c] \cup {Tell(h, res[c].what)}
               \/ /\ r.st = "pending" /\ ~Deliverable(c, h)
                  /\ req'[c] = Flip(r, "expired", h)
                  /\ heard'[c] = heard[c] \cup {Tell(h, "expired")}
               \/ req'[c] = r /\ heard'[c] = heard[c]
<1> DEFINE h       == sh + 1
           reqs    == Requested(new, h)
           fetched == FetchedResults(reqs, h)
           lot     == Slice(res, fetched)
           verdict == [d \in Calls |-> IF d \in lot THEN ProcessResult(reqs, d, h) ELSE "none"]
           told    == {d \in lot : verdict[d] \in Outcomes}
           reqs2   == Complete(reqs, told, h)
           late    == ExpiresNow(reqs2, fetched, h)
<1>1. /\ req' = Expire(reqs2, late, h)
      /\ heard' = [d \in Calls |->
                     CASE d \in told -> heard[d] \cup {Tell(h, verdict[d])}
                       [] d \in late -> heard[d] \cup {Tell(h, "expired")}
                       [] OTHER      -> heard[d]]
    BY DEF SourceBlock
<1>2. lot \subseteq fetched /\ fetched \subseteq Effective(res, cb, h)
    BY DEF Slice, FetchedResults
<1>3. reqs2[c] = IF c \in told THEN Flip(reqs[c], "completed", h) ELSE reqs[c]
    BY DEF Complete
<1>4. req'[c] = IF c \in late THEN Flip(reqs2[c], "expired", h) ELSE reqs2[c]
    BY <1>1 DEF Expire
<1>5. heard'[c] = CASE c \in told -> heard[c] \cup {Tell(h, verdict[c])}
                    [] c \in late -> heard[c] \cup {Tell(h, "expired")}
                    [] OTHER      -> heard[c]
    BY <1>1
<1>6. ASSUME c \in told
      PROVE  reqs[c].st = "pending" /\ res[c].kind = "good" /\ verdict[c] = res[c].what
    <2>1. c \in lot /\ verdict[c] = ProcessResult(reqs, c, h) /\ verdict[c] \in Outcomes
        BY <1>6
    <2>2. res[c].kind # "none" /\ res[c] \in Result \cup {NoRow}
        BY <2>1, <1>2 DEF Effective, Types
    <2> HIDE DEF verdict, reqs, lot
    <2> QED BY SMTT(60), <2>1, <2>2, DeliveredRow
<1>7. ASSUME c \in late
      PROVE  c \notin told /\ reqs[c].st = "pending" /\ ~Deliverable(c, h)
    <2>1. reqs2[c].st = "pending" /\ reqs2[c].due < h
        BY SMTT(60), <1>7 DEF ExpiresNow, ExpiryLot, Overdue
    <2>2. reqs[c] \in Request
        <3>1. \A d \in S : req[d].st = "none"
            BY DEF SourceBlock
        <3> QED BY Zenon, <3>1, RequestsOf
    <2>3. c \notin told
        BY Zenon, <2>1, <2>2, <1>3 DEF Flip, Request
    <2>4. reqs2[c] = reqs[c]
        BY <2>3, <1>3
    <2>5. Overdue(reqs, h) # {}
        BY <2>1, <2>4 DEF Overdue
    <2>6. fetched = Effective(res, cb, h)
        BY <2>5 DEF FetchedResults
    <2>7. ASSUME Deliverable(c, h) PROVE FALSE
        <3>1. c \in fetched
            BY <2>6, <2>7 DEF Deliverable, Effective
        <3>2. Refusal(reqs2, c) = ""
            BY <2>1, <2>7 DEF Refusal, Deliverable
        <3> QED BY Zenon, <3>1, <3>2, <1>7 DEF ExpiresNow, SuppressesExpiry
    <2> QED BY SMTT(60), <2>1, <2>3, <2>4, <2>7
<1> HIDE DEF reqs, fetched, lot, verdict, told, reqs2, late
<1>8. CASE c \in told
    BY <1>8, <1>3, <1>4, <1>5, <1>6, <1>7 DEF reqs
<1>9. CASE c \notin told /\ c \in late
    BY <1>9, <1>3, <1>4, <1>5, <1>7 DEF reqs
<1>10. CASE c \notin told /\ c \notin late
    BY <1>10, <1>3, <1>4, <1>5 DEF reqs
<1> QED BY <1>8, <1>9, <1>10

\* A source block settles a row with an outcome, a retirement or a skip.
LEMMA SourceSettles ==
    ASSUME Types, NEW S \in SUBSET Calls, NEW new \in [S -> Deadlines], SourceBlock(new)
    PROVE  cb' \in [Calls -> Settlement]
<1> DEFINE h       == sh + 1
           reqs    == Requested(new, h)
           lot     == Slice(res, FetchedResults(reqs, h))
           verdict == [d \in Calls |-> IF d \in lot THEN ProcessResult(reqs, d, h) ELSE "none"]
<1>1. cb' = [c \in Calls |-> IF verdict[c] # "none" THEN Tell(h, verdict[c]) ELSE cb[c]]
    BY DEF SourceBlock
<1>2. h \in Nat
    BY DEF Types
<1>3. ASSUME NEW c \in Calls, c \in lot
      PROVE  ProcessResult(reqs, c, h) \in {"none", "ok", "failed", "retired", "skipped"}
    <2>1. res[c].kind # "none"
        BY <1>3 DEF Slice, FetchedResults, Effective
    <2>2. res[c].what \in Outcomes
        BY <2>1 DEF Types, Result, NoRow
    <2>3. Retirement(reqs, c, h) \in {"retired", "none"}
        BY DEF Retirement
    <2> HIDE DEF reqs, h
    <2>4. reqs[c].st = "pending" \/ reqs[c].st # "pending"
        OBVIOUS
    <2> QED BY Zenon, <2>2, <2>3, <2>4 DEF ProcessResult, Outcomes
<1> HIDE DEF lot, h, reqs
<1>4. \A c \in Calls : verdict[c] \in {"none", "ok", "failed", "retired", "skipped"}
    BY <1>3
<1> HIDE DEF verdict
<1>5. \A c \in Calls : Tell(h, verdict[c]) \in Settlement /\ cb[c] \in Settlement
    BY <1>2, <1>4 DEF Tell, Settlement, Types
<1> QED BY <1>1, <1>5

\* A flip changes the state of a request and the block that set it.
LEMMA FlipFields ==
    ASSUME NEW r \in Request, NEW to \in {"pending", "completed", "expired"}, NEW h \in Nat
    PROVE  /\ Flip(r, to, h) \in Request
           /\ Flip(r, to, h).st = to /\ Flip(r, to, h).done = h
           /\ Flip(r, to, h).at = r.at /\ Flip(r, to, h).due = r.due
BY Zenon DEF Flip, Request

----------------------------------------------------------------------------
(* The invariant is inductive.                                             *)

LEMMA InitKeeps == Init => Inv
<1> SUFFICES ASSUME Init PROVE Inv
    OBVIOUS
<1>1. NoRequest \in Request /\ NoRequest.at = 0 /\ NoRequest.st = "none"
    BY DEF NoRequest, Request
<1>2. Nothing \in Settlement
    BY DEF Nothing, Settlement
<1>3. NoRow.kind = "none"
    BY DEF NoRow
<1>4. Types
    BY <1>1, <1>2 DEF Init, Types
<1>5. ResultsStand
    BY <1>3 DEF Init, ResultsStand
<1>6. FlipsStand /\ OutcomesAreTrue
    BY <1>1 DEF Init, FlipsStand, OutcomesAreTrue
<1>7. RunsWereDispatched
    BY DEF Init, RunsWereDispatched, Nothing
<1> QED BY <1>4, <1>5, <1>6, <1>7 DEF Inv

LEMMA SourceBlockKeeps ==
    ASSUME Inv, NEW S \in SUBSET Calls, NEW new \in [S -> Deadlines], SourceBlock(new)
    PROVE  Inv'
<1> DEFINE h == sh + 1
           r(c) == Requested(new, h)[c]
<1>1. /\ Types /\ h \in Nat /\ sh \in Nat
      /\ sh' = h /\ UNCHANGED <<res, th, top, disp, exec, reorgs>>
    BY DEF Inv, Types, SourceBlock
<1>2. \A c \in Calls :
         /\ r(c) \in Request /\ r(c).at <= h
         /\ r(c).st = "pending" => req[c].st \in {"none", "pending"}
         /\ r(c).st # "pending" => r(c) = req[c]
         /\ r(c) = req[c] \/ r(c).st = "pending"
    <2>1. TAKE c \in Calls
    <2>2. \A d \in S : req[d].st = "none"
        BY DEF SourceBlock
    <2>3. /\ c \notin S => r(c) = req[c]
          /\ c \in S => /\ req[c].st = "none"
                        /\ r(c) = [st |-> "pending", at |-> h, due |-> h + new[c], done |-> 0]
          /\ r(c) \in Request
        BY <1>1, <2>2, RequestsOf
    <2>4. req[c].at <= sh /\ req[c].at \in Nat
        BY DEF Inv, FlipsStand, Types, Request
    <2> HIDE DEF r
    <2>5. CASE c \in S
        BY <2>3, <2>5, <1>1
    <2>6. CASE c \notin S
        BY <2>3, <2>4, <2>6, <1>1
    <2> QED BY <2>5, <2>6
<1>3. \A c \in Calls :
         \/ /\ r(c).st = "pending" /\ res[c].kind = "good"
            /\ req'[c] = Flip(r(c), "completed", h)
            /\ heard'[c] = heard[c] \cup {Tell(h, res[c].what)}
         \/ /\ r(c).st = "pending"
            /\ req'[c] = Flip(r(c), "expired", h)
            /\ heard'[c] = heard[c] \cup {Tell(h, "expired")}
         \/ req'[c] = r(c) /\ heard'[c] = heard[c]
    BY SMTT(60), <1>1, SourceBlockAt
<1> HIDE DEF r, h
<1>4. ASSUME NEW c \in Calls
      PROVE  /\ req'[c] \in Request /\ req'[c].at <= h
             /\ heard'[c] \in SUBSET [at : Nat, what : Outcomes \cup {"expired"}]
             /\ req'[c].st = "completed" => Stands(c)
             /\ req'[c].st \in {"completed", "expired"} => req'[c].at <= req'[c].done
             /\ req'[c].st \in {"none", "pending"} => heard'[c] = {}
             /\ req'[c].st = "expired" => heard'[c] = {Tell(req'[c].done, "expired")}
             /\ req'[c].st = "completed" => heard'[c] = {Tell(req'[c].done, exec[c].what)}
    <2>1. heard[c] \in SUBSET [at : Nat, what : Outcomes \cup {"expired"}]
        BY SMTT(60), <1>1 DEF Types
    <2>2. CASE /\ r(c).st = "pending" /\ res[c].kind = "good"
               /\ req'[c] = Flip(r(c), "completed", h)
               /\ heard'[c] = heard[c] \cup {Tell(h, res[c].what)}
        <3>1. heard[c] = {}
            BY SMTT(60), <2>2, <1>2 DEF Inv, OutcomesAreTrue
        <3>2. Stands(c) /\ res[c].what = exec[c].what
            BY <2>2 DEF Inv, ResultsStand
        <3>3. /\ req'[c] \in Request /\ req'[c].st = "completed"
              /\ req'[c].done = h /\ req'[c].at = r(c).at
            BY <2>2, <1>1, <1>2, FlipFields
        <3>4. heard'[c] = {Tell(h, exec[c].what)}
            BY <2>2, <3>1, <3>2
        <3>5. Tell(h, exec[c].what) \in [at : Nat, what : Outcomes \cup {"expired"}]
            BY <3>2, <1>1 DEF Stands, Tell
        <3> QED BY SMTT(60), <3>2, <3>3, <3>4, <3>5, <1>2
    <2>3. CASE /\ r(c).st = "pending"
               /\ req'[c] = Flip(r(c), "expired", h)
               /\ heard'[c] = heard[c] \cup {Tell(h, "expired")}
        <3>1. heard[c] = {}
            BY <2>3, <1>2 DEF Inv, OutcomesAreTrue
        <3>2. /\ req'[c] \in Request /\ req'[c].st = "expired"
              /\ req'[c].done = h /\ req'[c].at = r(c).at
            BY <2>3, <1>1, <1>2, FlipFields
        <3>3. heard'[c] = {Tell(h, "expired")}
            BY <2>3, <3>1
        <3>4. Tell(h, "expired") \in [at : Nat, what : Outcomes \cup {"expired"}]
            BY <1>1 DEF Tell
        <3> QED BY <3>2, <3>3, <3>4, <1>2
    <2>4. CASE req'[c] = r(c) /\ heard'[c] = heard[c]
        <3>1. CASE r(c).st = "pending"
            <4>1. heard[c] = {}
                BY <3>1, <1>2 DEF Inv, OutcomesAreTrue
            <4> QED BY <4>1, <3>1, <2>4, <1>2
        <3>2. CASE r(c) = req[c]
            BY <3>2, <2>1, <2>4, <1>2 DEF Inv, FlipsStand, OutcomesAreTrue
        <3> QED BY <3>1, <3>2, <1>2
    <2> QED BY SMTT(60), <2>2, <2>3, <2>4, <1>3
<1>5. req' = [c \in Calls |-> req'[c]] /\ heard' = [c \in Calls |-> heard'[c]]
    BY DEF SourceBlock, Expire
<1>6. cb' \in [Calls -> Settlement]
    BY <1>1, SourceSettles
<1>7. Types'
    BY <1>1, <1>4, <1>5, <1>6 DEF Types
<1>8. \A c \in Calls : Stands(c)' = Stands(c)
    BY <1>1 DEF Stands
<1>9. ResultsStand'
    BY SMTT(60), <1>1, <1>8 DEF Inv, ResultsStand
<1>10. FlipsStand'
    BY SMTT(60), <1>1, <1>4, <1>8 DEF FlipsStand
<1>11. OutcomesAreTrue'
    BY <1>1, <1>4 DEF OutcomesAreTrue
<1>12. RunsWereDispatched'
    BY <1>1 DEF Inv, RunsWereDispatched
<1> QED BY <1>7, <1>9, <1>10, <1>11, <1>12 DEF Inv

\* A step that only moves the target chain keeps what rests on runs that stand.
LEMMA StandingKeeps ==
    ASSUME Inv, UNCHANGED <<sh, req, cb, heard, res, disp>>,
           th' \in Nat, top' \in Nat, th' <= top', top <= top', exec' \in [Calls -> Settlement],
           \A c \in Calls : Stands(c) => exec'[c] = exec[c],
           RunsWereDispatched'
    PROVE  Inv'
<1>1. Types'
    BY DEF Inv, Types
<1>2. \A c \in Calls : Stands(c) => Stands(c)' /\ exec'[c] = exec[c]
    <2>1. TAKE c \in Calls
    <2>2. exec[c].at \in Nat /\ Depth \in Nat /\ top \in Nat
        BY CallConstants DEF Inv, Types, Settlement
    <2> QED BY <2>2 DEF Stands
<1>3. ResultsStand'
    BY <1>2 DEF Inv, ResultsStand
<1>4. FlipsStand'
    BY <1>2 DEF Inv, FlipsStand
<1>5. OutcomesAreTrue'
    BY SMTT(60), <1>2 DEF Inv, FlipsStand, OutcomesAreTrue
<1> QED BY <1>1, <1>3, <1>4, <1>5 DEF Inv

LEMMA TargetBlockKeeps ==
    ASSUME Inv, NEW run \in [Calls -> Outcomes], TargetBlock(run)
    PROVE  Inv'
<1> DEFINE h   == th + 1
           lot == Slice(disp, Effective(disp, exec, h))
           did == [c \in Calls |-> IF c \in lot THEN InjectedExec(c, h, run[c]) ELSE "none"]
<1>1. /\ th' = h /\ top' = (IF h > top THEN h ELSE top)
      /\ exec' = [c \in Calls |-> IF did[c] # "none" THEN Tell(h, did[c]) ELSE exec[c]]
      /\ UNCHANGED <<sh, req, cb, heard, res, disp>>
    BY SMTT(60) DEF TargetBlock
<1>2. h \in Nat /\ top \in Nat /\ th <= top /\ exec \in [Calls -> Settlement]
    BY DEF Inv, Types
<1>3. \A c \in Calls : did[c] \in {"none", "ok", "failed", "retired"}
    <2>1. \A c \in Calls : InjectedExec(c, h, run[c]) \in {"none", "ok", "failed", "retired"}
        BY DEF InjectedExec, Outcomes
    <2> HIDE DEF lot, h
    <2> QED BY <2>1
<1>4. \A c \in Calls : did[c] # "none" => exec[c] = Nothing
    BY DEF Slice, Effective
<1>dispatched. \A c \in Calls : did[c] # "none" => disp[c].kind # "none"
    BY DEF Slice, Effective
<1> HIDE DEF h, did
<1>5. exec' \in [Calls -> Settlement]
    <2>1. \A c \in Calls : Tell(h, did[c]) \in Settlement
        BY <1>2, <1>3 DEF Tell, Settlement
    <2> QED BY <2>1, <1>1, <1>2
<1>6. \A c \in Calls : Stands(c) => exec'[c] = exec[c]
    BY <1>1, <1>4 DEF Stands, Nothing, Outcomes
<1>7. th' \in Nat /\ top' \in Nat /\ th' <= top' /\ top <= top'
    BY <1>1, <1>2
<1>8. RunsWereDispatched'
    BY <1>1, <1>dispatched DEF Tell, Inv, RunsWereDispatched
<1> QED BY <1>1, <1>5, <1>6, <1>7, <1>8, StandingKeeps

LEMMA TargetRollbackKeeps ==
    ASSUME Inv, NEW b \in 1..MaxTarget, TargetRollback(b)
    PROVE  Inv'
<1>1. /\ b \in 1..th /\ b > top - Depth /\ th' = b - 1 /\ top' = top
      /\ exec' = [c \in Calls |-> Before(exec[c], b)]
      /\ UNCHANGED <<sh, req, cb, heard, res, disp>>
    BY DEF TargetRollback
<1>2. /\ th \in Nat /\ top \in Nat /\ th <= top /\ Depth \in Nat
      /\ \A c \in Calls : exec[c] \in Settlement /\ exec[c].at \in Nat
    BY CallConstants DEF Inv, Types, Settlement
<1>3. Nothing \in Settlement
    BY DEF Nothing, Settlement
<1>4. exec' \in [Calls -> Settlement]
    BY <1>1, <1>2, <1>3 DEF Before
<1>5. \A c \in Calls : Stands(c) => exec'[c] = exec[c]
    <2>1. \A c \in Calls : Stands(c) => ~(exec[c].at >= b)
        BY <1>1, <1>2 DEF Stands
    <2> QED BY <2>1, <1>1 DEF Before
<1>6. th' \in Nat /\ th' <= top' /\ top \in Nat /\ top <= top'
    BY <1>1, <1>2
<1>7. RunsWereDispatched'
    BY <1>1 DEF Inv, RunsWereDispatched, Before, Nothing
<1> QED BY <1>1, <1>4, <1>5, <1>6, <1>7, StandingKeeps

LEMMA RelayDispatchKeeps ==
    ASSUME Inv, NEW c \in Calls, NEW kind \in Verdicts, RelayDispatch(c, kind)
    PROVE  Inv'
<1> DEFINE row == [kind |-> kind, snap |-> sh \div SnapEvery, eff |-> th + 1, src |-> req[c].at]
<1>1. disp' = [disp EXCEPT ![c] = row] /\ UNCHANGED <<sh, req, cb, heard, res, th, top, exec>>
    BY DEF RelayDispatch
<1>2. sh \div SnapEvery \in Int /\ th + 1 \in Nat /\ req[c].at \in Nat
    BY CallConstants DEF Inv, Types, Request
<1>3. row \in Dispatch
    BY <1>2 DEF Dispatch
<1> HIDE DEF row
<1>4. disp' \in [Calls -> Dispatch \cup {NoRow}]
    BY <1>1, <1>3 DEF Inv, Types
<1>5. Types'
    BY <1>1, <1>4 DEF Inv, Types
<1>6. RunsWereDispatched'
    <2>1. row.kind # "none"
        BY SMTT(60) DEF row, Verdicts
    <2> QED BY <2>1, <1>1 DEF Inv, Types, RunsWereDispatched
<1> QED BY <1>1, <1>5, <1>6 DEF Inv, ResultsStand, FlipsStand, OutcomesAreTrue, Stands

LEMMA RelayResultKeeps ==
    ASSUME Inv, NEW c \in Calls, NEW kind \in ResultVerdicts, RelayResult(c, kind)
    PROVE  Inv'
<1> DEFINE row == [kind |-> kind, snap |-> sh \div SnapEvery, eff |-> sh + 1,
                   src |-> disp[c].src, what |-> exec[c].what]
<1>1. res' = [res EXCEPT ![c] = row] /\ UNCHANGED <<sh, req, cb, heard, th, top, disp, exec>>
    BY DEF RelayResult
<1>ran. exec[c].what \in Outcomes /\ exec[c].at + Depth <= th
    BY DEF RelayResult
<1>2. sh \div SnapEvery \in Int /\ sh + 1 \in Nat
    BY CallConstants DEF Inv, Types
<1>3. Stands(c)
    <2>1. th \in Nat /\ top \in Nat /\ th <= top /\ Depth \in Nat
        BY CallConstants DEF Inv, Types
    <2>2. exec[c].at \in Nat
        BY DEF Inv, Types, Settlement
    <2>3. exec[c].at + Depth <= top
        BY <2>1, <2>2, <1>ran
    <2> QED BY Zenon, <2>3, <1>ran DEF Stands
<1>4. disp[c].src \in Nat
    <2>1. disp[c].kind # "none"
        BY <1>ran DEF Inv, RunsWereDispatched, Outcomes
    <2> QED BY <2>1 DEF Inv, Types, Dispatch, NoRow
<1>5. row \in Result /\ row.what = exec[c].what
    BY <1>ran, <1>2, <1>4 DEF Result
<1> HIDE DEF row
<1>6. res' \in [Calls -> Result \cup {NoRow}]
    BY <1>1, <1>5 DEF Inv, Types
<1>7. Types'
    BY SMTT(60), <1>1, <1>6 DEF Inv, Types
<1>8. ResultsStand'
    <2>1. \A d \in Calls : res'[d] = IF d = c THEN row ELSE res[d]
        BY <1>1 DEF Inv, Types
    <2>2. \A d \in Calls : Stands(d)' = Stands(d)
        BY <1>1 DEF Stands
    <2> QED BY <2>1, <2>2, <1>1, <1>3, <1>5 DEF Inv, ResultsStand
<1> QED BY SMTT(60), <1>1, <1>7, <1>8 DEF Inv, FlipsStand, OutcomesAreTrue, RunsWereDispatched, Stands

\* A row that comes to verify keeps all else it says.
LEMMA RowVerifiesKeeps ==
    ASSUME Inv, NEW c \in Calls, RowVerifies(c)
    PROVE  Inv'
<1>1. UNCHANGED <<sh, req, cb, heard, th, top, exec>>
    BY DEF RowVerifies
<1>2. /\ \A d \in Calls : disp'[d] \in Dispatch \cup {NoRow}
      /\ \A d \in Calls : disp[d].kind # "none" => disp'[d].kind # "none"
      /\ disp' = [d \in Calls |-> disp'[d]]
    <2>1. CASE disp[c].kind \in {"short", "unsynced"} /\ disp' = [disp EXCEPT ![c].kind = "good"]
        <3>1. disp[c] \in Dispatch
            BY <2>1 DEF Inv, Types, NoRow
        <3>2. [disp[c] EXCEPT !.kind = "good"] \in Dispatch
            BY <3>1 DEF Dispatch, Verdicts
        <3>3. [disp[c] EXCEPT !.kind = "good"].kind # "none"
            BY <3>1 DEF Dispatch
        <3>4. \A d \in Calls : disp'[d] = IF d = c THEN [disp[c] EXCEPT !.kind = "good"] ELSE disp[d]
            BY <2>1 DEF Inv, Types
        <3>5. \A d \in Calls : disp[d] \in Dispatch \cup {NoRow}
            BY DEF Inv, Types
        <3>6. disp' = [d \in Calls |-> disp'[d]]
            BY Zenon, <2>1 DEF Inv, Types
        <3> QED BY Zenon, <3>2, <3>3, <3>4, <3>5, <3>6
    <2>2. CASE disp' = disp
        BY <2>2 DEF Inv, Types
    <2> QED BY <2>1, <2>2 DEF RowVerifies
<1>3. /\ \A d \in Calls : res'[d] \in Result \cup {NoRow}
      /\ \A d \in Calls : res'[d].kind # "none" => res[d].kind # "none" /\ res'[d].what = res[d].what
      /\ res' = [d \in Calls |-> res'[d]]
    <2>1. CASE res[c].kind \in {"short", "unsynced"} /\ res' = [res EXCEPT ![c].kind = "good"]
        <3>1. res[c] \in Result /\ res[c].kind # "none"
            BY <2>1 DEF Inv, Types, NoRow
        <3>2. [res[c] EXCEPT !.kind = "good"] \in Result
            BY <3>1 DEF Result, ResultVerdicts, Verdicts
        <3>3. [res[c] EXCEPT !.kind = "good"].what = res[c].what
            BY <3>1 DEF Result
        <3>4. \A d \in Calls : res'[d] = IF d = c THEN [res[c] EXCEPT !.kind = "good"] ELSE res[d]
            BY <2>1 DEF Inv, Types
        <3>5. \A d \in Calls : res[d] \in Result \cup {NoRow}
            BY DEF Inv, Types
        <3>6. res' = [d \in Calls |-> res'[d]]
            BY Zenon, <2>1 DEF Inv, Types
        <3> QED BY Zenon, <3>1, <3>2, <3>3, <3>4, <3>5, <3>6
    <2>2. CASE res' = res
        BY <2>2 DEF Inv, Types
    <2> QED BY <2>1, <2>2 DEF RowVerifies
<1>4. disp' \in [Calls -> Dispatch \cup {NoRow}] /\ res' \in [Calls -> Result \cup {NoRow}]
    BY <1>2, <1>3
<1>5. Types'
    BY <1>1, <1>4 DEF Inv, Types
<1>6. ResultsStand'
    BY <1>1, <1>3 DEF Inv, ResultsStand, Stands
<1>7. RunsWereDispatched'
    BY <1>1, <1>2 DEF Inv, RunsWereDispatched
<1> QED BY <1>1, <1>5, <1>6, <1>7 DEF Inv, FlipsStand, OutcomesAreTrue, Stands

LEMMA SourceRollbackKeeps ==
    ASSUME Inv, NEW b \in 1..MaxSource, SourceRollback(b)
    PROVE  Inv'
<1>1. /\ UNCHANGED <<th, top, disp, exec>>
      /\ req' = [c \in Calls |-> IF req[c].at >= b THEN NoRequest ELSE UndoFlip(req[c], b)]
      /\ cb' = [c \in Calls |-> Before(cb[c], b)]
      /\ heard' = [c \in Calls |-> {e \in heard[c] : e.at < b}]
      /\ res' = [c \in Calls |-> IF res[c].kind # "none" /\ res[c].src >= b THEN NoRow ELSE res[c]]
    BY ZenonT(60) DEF SourceRollback
<1>2. b \in Nat /\ b >= 1 /\ sh' = b - 1 /\ sh' \in Nat
    <2>1. b \in 1..sh /\ sh' = b - 1
        BY DEF SourceRollback
    <2>2. sh \in Nat
        BY DEF Inv, Types
    <2> QED BY SMTT(60), <2>1, <2>2
<1>3. ASSUME NEW c \in Calls
      PROVE  /\ req'[c] \in Request /\ req'[c].at <= sh'
             /\ req'[c].st = "completed" => Stands(c)
             /\ req'[c].st \in {"completed", "expired"} => req'[c].at <= req'[c].done
             /\ req'[c].st \in {"none", "pending"} => heard'[c] = {}
             /\ req'[c].st = "expired" => heard'[c] = {Tell(req'[c].done, "expired")}
             /\ req'[c].st = "completed" => heard'[c] = {Tell(req'[c].done, exec[c].what)}
    <2>1. /\ req[c] \in Request /\ req[c].at \in Nat /\ req[c].done \in Nat
          /\ req[c].st \in {"none", "pending", "completed", "expired"}
        BY DEF Inv, Types, Request
    <2>2. /\ req[c].st \in {"none", "pending"} => heard[c] = {}
          /\ req[c].st = "expired" => heard[c] = {Tell(req[c].done, "expired")}
          /\ req[c].st = "completed" => heard[c] = {Tell(req[c].done, exec[c].what)} /\ Stands(c)
          /\ req[c].st \in {"completed", "expired"} => req[c].at <= req[c].done
        BY ZenonT(60) DEF Inv, FlipsStand, OutcomesAreTrue
    <2>3. heard'[c] = {e \in heard[c] : e.at < b}
        BY Zenon, <1>1
    <2>4. \A w : Tell(req[c].done, w).at = req[c].done
        BY DEF Tell
    <2>5. ASSUME req[c].st \notin {"completed", "expired"} \/ req[c].done >= b
          PROVE  heard'[c] = {}
        BY SMTT(60), <2>1, <2>2, <2>3, <2>4, <2>5, <1>2
    <2>6. ASSUME req[c].st \in {"completed", "expired"}, ~(req[c].done >= b)
          PROVE  heard'[c] = heard[c]
        BY SMTT(60), <2>1, <2>2, <2>3, <2>4, <2>6, <1>2
    <2>7. CASE req[c].at >= b
        <3>1. req'[c] = NoRequest
            BY ZenonT(60), <2>7, <1>1
        <3>flip. req[c].st \in {"completed", "expired"} => req[c].done >= b
            BY <2>1, <2>2, <2>7, <1>2
        <3>deaf. heard'[c] = {}
            BY Zenon, <3>flip, <2>5
        <3>2. NoRequest \in Request /\ NoRequest.at = 0 /\ NoRequest.st = "none"
            BY DEF NoRequest, Request
        <3> QED BY <3>1, <3>2, <3>deaf, <1>2
    <2>8. CASE ~(req[c].at >= b) /\ req[c].st \in {"completed", "expired"} /\ req[c].done >= b
        <3>1. req'[c] = [req[c] EXCEPT !.st = "pending", !.done = 0] /\ heard'[c] = {}
            BY Zenon, <2>5, <2>8, <1>1 DEF UndoFlip
        <3>2. /\ [req[c] EXCEPT !.st = "pending", !.done = 0] \in Request
              /\ [req[c] EXCEPT !.st = "pending", !.done = 0].st = "pending"
              /\ [req[c] EXCEPT !.st = "pending", !.done = 0].at = req[c].at
            BY Zenon, <2>1 DEF Request
        <3>3. req[c].at <= sh'
            BY SMTT(60), <2>1, <2>8, <1>2
        <3> QED BY <3>1, <3>2, <3>3
    <2>9. CASE ~(req[c].at >= b) /\ ~(req[c].st \in {"completed", "expired"} /\ req[c].done >= b)
        <3>1. req'[c] = req[c]
            BY ZenonT(60), <2>9, <1>1 DEF UndoFlip
        <3>2. req[c].at <= sh'
            BY SMTT(60), <2>1, <2>9, <1>2
        <3>3. CASE req[c].st \in {"completed", "expired"}
            BY ZenonT(60), <3>1, <3>2, <3>3, <2>1, <2>2, <2>6, <2>9
        <3>4. CASE req[c].st \notin {"completed", "expired"}
            BY ZenonT(60), <3>1, <3>2, <3>4, <2>1, <2>5
        <3> QED BY SMTT(60), <3>3, <3>4
    <2> QED BY ZenonT(60), <2>7, <2>8, <2>9
<1>4. Types'
    <2>1. req' \in [Calls -> Request]
        BY Zenon, <1>1, <1>3
    <2>2. Nothing \in Settlement
        BY DEF Nothing, Settlement
    <2>3. cb' \in [Calls -> Settlement]
        BY <1>1, <2>2 DEF Inv, Types, Before
    <2>4. heard' \in [Calls -> SUBSET [at : Nat, what : Outcomes \cup {"expired"}]]
        BY <1>1 DEF Inv, Types
    <2>5. res' \in [Calls -> Result \cup {NoRow}]
        BY SMTT(60), <1>1 DEF Inv, Types
    <2> QED BY <2>1, <2>3, <2>4, <2>5, <1>1, <1>2 DEF Inv, Types
<1>5. ResultsStand'
    BY ZenonT(60), <1>1 DEF Inv, ResultsStand, Stands, NoRow
<1>6. RunsWereDispatched'
    BY ZenonT(60), <1>1 DEF Inv, RunsWereDispatched
<1>7. FlipsStand' /\ OutcomesAreTrue'
    BY ZenonT(60), <1>1, <1>3 DEF FlipsStand, OutcomesAreTrue, Stands
<1> QED BY SMTT(60), <1>4, <1>5, <1>6, <1>7 DEF Inv

LEMMA InvStep == Inv /\ [Next]_vars => Inv'
<1> SUFFICES ASSUME Inv, [Next]_vars PROVE Inv'
    BY SMTT(60)
<1>1. CASE UNCHANGED vars
    BY SMTT(60), <1>1 DEF vars, Inv, Types, ResultsStand, FlipsStand, RunsWereDispatched,
                OutcomesAreTrue, Stands
<1>2. CASE \E S \in SUBSET Calls : \E new \in [S -> Deadlines] : SourceBlock(new)
    BY <1>2, SourceBlockKeeps
<1>3. CASE \E run \in [Calls -> Outcomes] : TargetBlock(run)
    BY <1>3, TargetBlockKeeps
<1>4. CASE \E c \in Calls, kind \in Verdicts : RelayDispatch(c, kind)
    BY <1>4, RelayDispatchKeeps
<1>5. CASE \E c \in Calls, kind \in ResultVerdicts : RelayResult(c, kind)
    BY <1>5, RelayResultKeeps
<1>6. CASE \E c \in Calls : RowVerifies(c)
    BY <1>6, RowVerifiesKeeps
<1>7. CASE \E b \in 1..MaxSource : SourceRollback(b)
    BY <1>7, SourceRollbackKeeps
<1>8. CASE \E b \in 1..MaxTarget : TargetRollback(b)
    BY <1>8, TargetRollbackKeeps
<1> QED BY <1>1, <1>2, <1>3, <1>4, <1>5, <1>6, <1>7, <1>8 DEF Next

\* In every reachable state of the two indexers and the relay, whatever the
\* number of reorganisations: a result row and a completed request tell of a
\* run that stands on the target chain below any rollback, a request is never
\* flipped before its own block, a call the target recorded was dispatched,
\* and the callbacks injected are the ones the request's state says.
THEOREM CrossCallsInvariant == Spec => []Inv
<1> QED BY InitKeeps, InvStep, PTL DEF Spec

\* The requester's callback hears exactly one outcome, in the block that flips
\* the request, and the true one, for any number of calls, caps, deadlines and
\* reorganisations: processResult, the deadline pass and
\* resetOrphanedXcallRequests together never tell two outcomes or a run that
\* does not stand.
THEOREM OutcomeIsTrue == Spec => []OneTrueOutcome
<1>1. Inv => OneTrueOutcome
    <2> SUFFICES ASSUME Inv PROVE OneTrueOutcome
        OBVIOUS
    <2>1. SUFFICES ASSUME NEW c \in Calls
                   PROVE  CASE req[c].st \in {"none", "pending"} -> heard[c] = {}
                            [] req[c].st = "expired"   -> heard[c] = {Tell(req[c].done, "expired")}
                            [] req[c].st = "completed" ->
                                  /\ exec[c].what \in Outcomes
                                  /\ heard[c] = {Tell(req[c].done, exec[c].what)}
        BY Zenon DEF OneTrueOutcome
    <2>2. req[c].st \in {"none", "pending", "completed", "expired"}
        BY DEF Inv, Types, Request
    <2>3. CASE req[c].st \in {"none", "pending"}
        BY Zenon, <2>3 DEF Inv, OutcomesAreTrue
    <2>4. CASE req[c].st = "expired"
        BY <2>4 DEF Inv, OutcomesAreTrue
    <2>5. CASE req[c].st = "completed"
        BY <2>5 DEF Inv, OutcomesAreTrue, FlipsStand, Stands
    <2> QED BY Zenon, <2>2, <2>3, <2>4, <2>5
<1> QED BY <1>1, CrossCallsInvariant, PTL

----------------------------------------------------------------------------
(* The capped selections are never empty.                                  *)

\* A finite set has a first element under any strict order.
LEMMA FirstExists ==
    ASSUME NEW S, IsFiniteSet(S), S # {}, NEW R,
           \A x \in S : <<x, x>> \notin R,
           \A x, y, z \in S : <<x, y>> \in R /\ <<y, z>> \in R => <<x, z>> \in R
    PROVE  \E x \in S : \A y \in S : <<y, x>> \notin R
<1> DEFINE Below(x) == {y \in S : <<y, x>> \in R}
           T == {Below(x) : x \in S}
<1>1. IsWellFoundedOn(StrictSubsetOrdering(S), SUBSET S)
    BY ZenonT(60), FS_StrictSubsetOrderingWellFounded, FS_FiniteSubsetsOfFinite
<1>2. T \subseteq SUBSET S /\ T # {}
    <2>1. PICK s \in S : TRUE
        OBVIOUS
    <2>2. Below(s) \in T
        OBVIOUS
    <2>3. \A C \in T : C \subseteq S
        <3>1. TAKE C \in T
        <3>2. PICK x \in S : C = Below(x)
            OBVIOUS
        <3> QED BY <3>2
    <2> QED BY Zenon, <2>2, <2>3
<1> HIDE DEF T
<1>3. PICK B \in T : \A C \in T : ~(<<C, B>> \in StrictSubsetOrdering(S))
    BY <1>1, <1>2, WFMin
<1>4. PICK x \in S : B = Below(x)
    BY <1>3 DEF T
<1>5. ASSUME NEW y \in S, <<y, x>> \in R PROVE FALSE
    <2>1. Below(y) \in T
        BY DEF T
    <2>2. Below(y) \subseteq B /\ y \in B /\ y \notin Below(y)
        BY <1>4, <1>5
    <2>3. <<Below(y), B>> \in StrictSubsetOrdering(S)
        BY Zenon, <2>1, <2>2, <1>2 DEF StrictSubsetOrdering
    <2> QED BY Zenon, <2>1, <2>3, <1>3
<1> QED BY <1>5

\* The slice of a non-empty set of rows is not empty.
LEMMA SliceTakesOne ==
    ASSUME NEW rows, NEW S \in SUBSET Calls, S # {}, \A c \in S : rows[c].snap \in Int
    PROVE  \E c \in Slice(rows, S) : TRUE
<1> DEFINE R == {p \in S \X S : RowBefore(rows, p[1], p[2])}
<1>1. IsFiniteSet(S) /\ \A c \in S : c \in Int
    BY Zenon, CallConstants, FS_Subset
<1>2. \A x \in S : <<x, x>> \notin R
    BY SMTT(60), <1>1 DEF RowBefore
<1>3. \A x, y, z \in S : <<x, y>> \in R /\ <<y, z>> \in R => <<x, z>> \in R
    BY <1>1 DEF RowBefore
<1>4. PICK x \in S : \A y \in S : <<y, x>> \notin R
    <2> HIDE DEF R
    <2> QED BY SMTT(60), <1>1, <1>2, <1>3, FirstExists
<1>5. {d \in S : RowBefore(rows, d, x)} = {}
    BY Zenon, <1>4
<1>6. Cardinality({d \in S : RowBefore(rows, d, x)}) < Cap
    BY <1>5, CallConstants, FS_EmptySet
<1> QED BY <1>6 DEF Slice

\* The lot of overdue requests is not empty when one is overdue.
LEMMA LotTakesOne ==
    ASSUME NEW reqs, NEW h, Overdue(reqs, h) # {},
           \A c \in Calls : reqs[c].due \in Int /\ reqs[c].at \in Int
    PROVE  \E c \in ExpiryLot(reqs, h) : TRUE
<1> DEFINE S == Overdue(reqs, h)
           R == {p \in S \X S : DueBefore(reqs, p[1], p[2])}
<1>1. S \subseteq Calls
    BY DEF Overdue
<1>2. IsFiniteSet(S) /\ \A c \in S : c \in Int /\ reqs[c].due \in Int /\ reqs[c].at \in Int
    BY ZenonT(60), <1>1, CallConstants, FS_Subset
<1> HIDE DEF S
<1>3. \A x \in S : <<x, x>> \notin R
    BY SMTT(60), <1>2 DEF DueBefore
<1>4. \A x, y, z \in S : <<x, y>> \in R /\ <<y, z>> \in R => <<x, z>> \in R
    BY <1>2 DEF DueBefore
<1>5. PICK x \in S : \A y \in S : <<y, x>> \notin R
    <2> HIDE DEF R
    <2>1. S # {}
        BY DEF S
    <2> QED BY SMTT(60), <2>1, <1>2, <1>3, <1>4, FirstExists
<1>6. {d \in S : DueBefore(reqs, d, x)} = {}
    BY Zenon, <1>5
<1>7. Cardinality({d \in S : DueBefore(reqs, d, x)}) < Cap
    BY <1>6, CallConstants, FS_EmptySet
<1> QED BY <1>7 DEF ExpiryLot, S

----------------------------------------------------------------------------
(* The steps.                                                              *)

\* The deadline pass of a block never flips a request to 'expired' over a
\* verified, unsettled result row the block admits, however many rows the
\* per-block cap defers, for any cap and any number of calls.
THEOREM DeadlineYields == Spec => ResultBeatsDeadline
<1> DEFINE Yields == \A c \in Calls :
                        req[c].st # "expired" /\ req'[c].st = "expired" => ~Deliverable(c, sh')
<1>1. Inv /\ [Next]_vars => [Yields]_vars
    <2> SUFFICES ASSUME Inv, Next, NEW c \in Calls,
                        req[c].st # "expired", req'[c].st = "expired"
                 PROVE  ~Deliverable(c, sh')
        OBVIOUS
    <2>1. req[c] \in Request
        BY DEF Inv, Types
    <2>2. CASE \E S \in SUBSET Calls : \E new \in [S -> Deadlines] : SourceBlock(new)
        <3>0. PICK S \in SUBSET Calls : \E new \in [S -> Deadlines] : SourceBlock(new)
            BY <2>2
        <3>1. PICK new \in [S -> Deadlines] : SourceBlock(new)
            BY SMTT(60), <3>0
        <3> DEFINE h == sh + 1
                   r == Requested(new, h)[c]
        <3>2. /\ c \notin S => r = req[c]
              /\ c \in S => r = [st |-> "pending", at |-> h, due |-> h + new[c], done |-> 0]
              /\ r \in Request
            <4>1. \A d \in S : req[d].st = "none"
                BY <3>1 DEF SourceBlock
            <4> QED BY <4>1, RequestsOf DEF Inv
        <3>3. \/ req'[c] = Flip(r, "completed", h)
              \/ ~Deliverable(c, h)
              \/ req'[c] = r
            BY ZenonT(60), <3>1, SourceBlockAt DEF Inv
        <3>4. sh' = h /\ h \in Nat
            BY SMTT(60), <3>1 DEF SourceBlock, Inv, Types
        <3> HIDE DEF r, h
        <3>5. Flip(r, "completed", h).st # "expired"
            BY SMTT(60), <3>2, <3>4, FlipFields
        <3>6. r.st # "expired"
            BY SMTT(60), <3>2
        <3> QED BY SMTT(60), <3>3, <3>4, <3>5, <3>6
    <2>3. CASE \E b \in 1..MaxSource : SourceRollback(b)
        <3>1. PICK b \in 1..MaxSource : SourceRollback(b)
            BY SMTT(60), <2>3
        <3>2. req'[c] = IF req[c].at >= b THEN NoRequest ELSE UndoFlip(req[c], b)
            BY <3>1 DEF SourceRollback
        <3>3. NoRequest.st # "expired"
            BY DEF NoRequest
        <3>4. UndoFlip(req[c], b).st # "expired"
            BY <2>1 DEF UndoFlip, Request
        <3> QED BY SMTT(60), <3>2, <3>3, <3>4
    <2>4. CASE req' = req
        BY <2>4
    <2> QED BY <2>2, <2>3, <2>4
            DEF Next, TargetBlock, RelayDispatch, RelayResult, RowVerifies, TargetRollback
<1>2. Spec => [][Yields]_vars
    BY <1>1, CrossCallsInvariant, PTL DEF Spec
<1> QED BY <1>2 DEF ResultBeatsDeadline

\* A selected result row that is synced and past its request's deadline, or
\* past the grace when it has no request, is settled one way or another.
LEMMA RowIsSettled ==
    ASSUME NEW reqs, NEW c \in Calls, NEW h, res[c] \in Result,
           res[c].kind # "unsynced", ResultAgedOut(reqs, c, h)
    PROVE  ProcessResult(reqs, c, h) # "none"
<1>1. Retirement(reqs, c, h) = "retired" /\ res[c].what \in Outcomes
    BY DEF Retirement, Result
<1>2. Refusal(reqs, c) # "deferred"
    BY DEF Refusal
<1>3. CASE Refusal(reqs, c) # ""
    BY Zenon, <1>1, <1>2, <1>3 DEF ProcessResult
<1>4. CASE Refusal(reqs, c) = "" /\ reqs[c].st # "pending"
    BY Zenon, <1>4 DEF ProcessResult
<1>5. CASE Refusal(reqs, c) = "" /\ reqs[c].st = "pending"
    BY ZenonT(60), <1>1, <1>5 DEF ProcessResult, Outcomes
<1> QED BY ZenonT(60), <1>3, <1>4, <1>5

\* Past every deadline a source block settles a row or flips a request.
LEMMA SourceAdvances ==
    ASSUME Inv, NEW S \in SUBSET Calls, NEW new \in [S -> Deadlines], SourceBlock(new),
           NEW p \in Calls, req[p].st = "pending",
           \A c \in Calls : req'[c].due < sh',
           \A c \in Effective(res, cb, sh') :
              res[c].kind # "unsynced" /\ (req[c].st = "none" => res[c].eff + Grace <= sh')
    PROVE  req' # req \/ cb' # cb
<1> DEFINE h       == sh + 1
           reqs    == Requested(new, h)
           fetched == FetchedResults(reqs, h)
           all     == Effective(res, cb, h)
           lot     == Slice(res, fetched)
           verdict == [d \in Calls |-> IF d \in lot THEN ProcessResult(reqs, d, h) ELSE "none"]
           told    == {d \in lot : verdict[d] \in Outcomes}
           reqs2   == Complete(reqs, told, h)
           late    == ExpiresNow(reqs2, fetched, h)
<1>1. /\ sh' = h /\ req' = Expire(reqs2, late, h)
      /\ cb' = [c \in Calls |-> IF verdict[c] # "none" THEN Tell(h, verdict[c]) ELSE cb[c]]
    BY SMTT(60) DEF SourceBlock
<1>2. h \in Nat /\ \A c \in Calls : req[c] \in Request
    BY SMTT(60) DEF Inv, Types
<1>3. \A c \in Calls : /\ reqs[c] \in Request
                       /\ \/ reqs[c] = req[c]
                          \/ req[c].st = "none" /\ reqs[c].st = "pending"
    <2>1. TAKE c \in Calls
    <2>2. \A d \in S : req[d].st = "none"
        BY DEF SourceBlock
    <2>3. Types
        BY SMTT(60) DEF Inv
    <2>4. /\ c \notin S => reqs[c] = req[c]
          /\ c \in S => /\ req[c].st = "none"
                        /\ reqs[c] = [st |-> "pending", at |-> h, due |-> h + new[c], done |-> 0]
          /\ reqs[c] \in Request
        BY SMTT(60), <2>2, <2>3, RequestsOf
    <2> HIDE DEF reqs, h
    <2>5. c \in S => reqs[c].st = "pending"
        BY SMTT(60), <2>4
    <2> QED BY ZenonT(60), <2>4, <2>5
<1>4. \A c \in Calls : reqs[c].due < h
    <2>1. TAKE c \in Calls
    <2>2. \/ req'[c] = Flip(reqs[c], "completed", h)
          \/ req'[c] = Flip(reqs[c], "expired", h)
          \/ req'[c] = reqs[c]
        BY ZenonT(60), SourceBlockAt DEF Inv
    <2> HIDE DEF reqs, h
    <2>3. req'[c].due = reqs[c].due
        <3>1. h \in Nat /\ reqs[c] \in Request
            BY SMTT(60), <1>2, <1>3
        <3>2. CASE req'[c] = Flip(reqs[c], "completed", h)
            BY SMTT(60), <3>1, <3>2, FlipFields
        <3>3. CASE req'[c] = Flip(reqs[c], "expired", h)
            BY SMTT(60), <3>1, <3>3, FlipFields
        <3> QED BY ZenonT(60), <3>2, <3>3, <2>2
    <2> QED BY Zenon, <2>3, <1>1
<1>5. Overdue(reqs, h) # {}
    <2>1. reqs[p].st = "pending" /\ reqs[p].due < h
        BY SMTT(60), <1>3, <1>4
    <2> QED BY <2>1 DEF Overdue
<1>6. fetched = all
    BY SMTT(60), <1>5 DEF FetchedResults
<1> HIDE DEF h, reqs, fetched, lot, told, reqs2, late
<1>7. CASE all # {}
    <2>1. \A c \in all : /\ c \in Calls /\ cb[c] = Nothing
                         /\ res[c].kind # "none" /\ res[c].kind # "unsynced"
                         /\ req[c].st = "none" => res[c].eff + Grace <= h
        BY SMTT(60), <1>1 DEF Effective
    <2> HIDE DEF all
    <2>2. \A c \in all : res[c] \in Result /\ res[c].snap \in Int
        BY SMTT(60), <2>1 DEF Inv, Types, Result, NoRow
    <2>3. all \in SUBSET Calls
        BY SMTT(60), <2>1
    <2>4. PICK c \in Slice(res, all) : TRUE
        BY SMTT(60), <2>2, <2>3, <1>7, SliceTakesOne
    <2>5. c \in all /\ c \in lot
        BY SMTT(60), <2>4, <1>6 DEF Slice, lot
    <2>6. ResultAgedOut(reqs, c, h)
        <3>1. h > reqs[c].due
            BY SMTT(60), <2>1, <2>5, <1>2, <1>3, <1>4 DEF Request
        <3>2. reqs[c].st = "none" => res[c].eff + Grace <= h
            BY SMTT(60), <2>1, <2>5, <1>3
        <3> QED BY SMTT(60), <3>1, <3>2 DEF ResultAgedOut
    <2>7. verdict[c] # "none"
        <3>1. ProcessResult(reqs, c, h) # "none"
            BY SMTT(60), <2>1, <2>2, <2>5, <2>6, RowIsSettled
        <3> QED BY SMTT(60), <3>1, <2>1, <2>5
    <2> HIDE DEF verdict
    <2>8. cb'[c] = Tell(h, verdict[c]) /\ cb[c] = Nothing
        BY SMTT(60), <2>1, <2>5, <2>7, <1>1
    <2>9. Tell(h, verdict[c]).what # Nothing.what
        BY SMTT(60), <2>7 DEF Tell, Nothing
    <2> QED BY SMTT(60), <2>8, <2>9
<1>8. CASE all = {}
    <2>1. told = {} /\ fetched = {}
        BY SMTT(60), <1>6, <1>8 DEF told, lot, Slice
    <2>2. \A c \in Calls : reqs2[c] = reqs[c]
        BY SMTT(60), <2>1 DEF reqs2, Complete
    <2>3. Overdue(reqs2, h) # {}
        BY SMTT(60), <2>2, <1>5 DEF Overdue
    <2>4. \A c \in Calls : reqs2[c].due \in Int /\ reqs2[c].at \in Int
        BY SMTT(60), <2>2, <1>3 DEF Request
    <2>5. PICK c \in ExpiryLot(reqs2, h) : TRUE
        BY SMTT(60), <2>3, <2>4, LotTakesOne
    <2>6. c \in Calls /\ reqs2[c].st = "pending"
        BY SMTT(60), <2>5 DEF ExpiryLot, Overdue
    <2>7. c \in late
        BY SMTT(60), <2>1, <2>5 DEF late, ExpiresNow
    <2>8. req'[c] = Flip(reqs[c], "expired", h)
        BY ZenonT(60), <2>2, <2>6, <2>7, <1>1 DEF Expire
    <2>9. req'[c].st = "expired"
        BY SMTT(60), <2>6, <2>8, <1>2, <1>3, FlipFields
    <2>10. req[c].st # "expired"
        BY ZenonT(60), <2>2, <2>6, <1>3
    <2> QED BY ZenonT(60), <2>9, <2>10
<1> QED BY <1>7, <1>8

\* Once what is queued is synced and past the grace, a target block that finds
\* a dispatch waiting runs or retires one.
LEMMA TargetAdvances ==
    ASSUME Inv, NEW run \in [Calls -> Outcomes], TargetBlock(run),
           Effective(disp, exec, th') # {},
           \A c \in Effective(disp, exec, th') :
              disp[c].kind # "unsynced" /\ disp[c].eff + Grace <= th'
    PROVE  exec' # exec
<1> DEFINE h   == th + 1
           all == Effective(disp, exec, h)
           lot == Slice(disp, all)
           did == [c \in Calls |-> IF c \in lot THEN InjectedExec(c, h, run[c]) ELSE "none"]
<1>1. /\ th' = h
      /\ exec' = [c \in Calls |-> IF did[c] # "none" THEN Tell(h, did[c]) ELSE exec[c]]
    BY ZenonT(60) DEF TargetBlock
<1>2. \A c \in all : /\ c \in Calls /\ exec[c] = Nothing
                     /\ disp[c].kind \notin {"none", "unsynced"} /\ disp[c].eff + Grace <= h
    BY ZenonT(60), <1>1 DEF Effective
<1>3. all # {}
    BY SMTT(60), <1>1
<1> HIDE DEF all, h
<1>4. \A c \in all : disp[c] \in Dispatch /\ disp[c].snap \in Int
    BY SMTT(60), <1>2 DEF Inv, Types, Dispatch, NoRow
<1>5. PICK c \in lot : TRUE
    <2>1. all \in SUBSET Calls
        BY <1>2
    <2> QED BY ZenonT(60), <2>1, <1>3, <1>4, SliceTakesOne
<1>6. c \in all
    BY SMTT(60), <1>5 DEF Slice
<1>7. disp[c].kind \in {"good", "short"} /\ DispatchAgedOut(c, h)
    BY SMTT(60), <1>2, <1>4, <1>6 DEF Dispatch, Verdicts, DispatchAgedOut
<1>8. InjectedExec(c, h, run[c]) # "none"
    BY SMTT(60), <1>2, <1>6, <1>7 DEF InjectedExec, Outcomes
<1>9. did[c] # "none"
    BY SMTT(60), <1>2, <1>5, <1>6, <1>8
<1> HIDE DEF did
<1>10. exec'[c] = Tell(h, did[c]) /\ exec[c] = Nothing
    BY ZenonT(60), <1>1, <1>2, <1>6, <1>9
<1>11. Tell(h, did[c]).what # Nothing.what
    BY Zenon, <1>9 DEF Tell, Nothing
<1> QED BY SMTT(60), <1>10, <1>11

\* No dead row holds the capped passes of either chain: past every deadline a
\* source block that finds a request pending settles a request or a row, and a
\* target block that finds a verified dispatch waiting runs or retires one,
\* for any cap, any number of calls and any mix of rows queued ahead.
THEOREM PassesAdvance == Spec => CappedPassesAdvance
<1> DEFINE Advance ==
             /\ ( /\ sh' = sh + 1
                  /\ \E c \in Calls : req[c].st = "pending"
                  /\ \A c \in Calls : req'[c].due < sh'
                  /\ \A c \in Effective(res, cb, sh') :
                       /\ res[c].kind # "unsynced"
                       /\ req[c].st = "none" => res[c].eff + Grace <= sh' )
                 => <<req', cb'>> # <<req, cb>>
             /\ ( /\ th' = th + 1
                  /\ \E c \in Effective(disp, exec, th') : disp[c].kind = "good"
                  /\ \A c \in Effective(disp, exec, th') :
                       disp[c].kind # "unsynced" /\ disp[c].eff + Grace <= th' )
                 => exec' # exec
<1>1. ASSUME Inv, Next, sh' = sh + 1,
             NEW p \in Calls, req[p].st = "pending",
             \A c \in Calls : req'[c].due < sh',
             \A c \in Effective(res, cb, sh') :
                 /\ res[c].kind # "unsynced"
                 /\ req[c].st = "none" => res[c].eff + Grace <= sh'
      PROVE  <<req', cb'>> # <<req, cb>>
    <2>1. sh \in Nat /\ sh' # sh
        BY SMTT(60), <1>1 DEF Inv, Types
    <2>2. \A b : ~SourceRollback(b)
        BY SMTT(60), <2>1, <1>1 DEF SourceRollback
    <2>3. \E S \in SUBSET Calls : \E new \in [S -> Deadlines] : SourceBlock(new)
        BY <2>1, <2>2, <1>1
           DEF Next, TargetBlock, RelayDispatch, RelayResult, RowVerifies, TargetRollback
    <2>4. req' # req \/ cb' # cb
        BY <2>3, <1>1, SourceAdvances
    <2> QED BY SMTT(60), <2>4
<1>2. ASSUME Inv, Next, th' = th + 1,
             NEW p \in Effective(disp, exec, th'),
             \A c \in Effective(disp, exec, th') :
                 disp[c].kind # "unsynced" /\ disp[c].eff + Grace <= th'
      PROVE  exec' # exec
    <2>1. th \in Nat /\ th' # th
        BY SMTT(60), <1>2 DEF Inv, Types
    <2>2. \A b : ~TargetRollback(b)
        BY SMTT(60), <2>1, <1>2 DEF TargetRollback
    <2>3. \E run \in [Calls -> Outcomes] : TargetBlock(run)
        BY Zenon, <2>1, <2>2, <1>2
           DEF Next, SourceBlock, RelayDispatch, RelayResult, RowVerifies, SourceRollback
    <2> QED BY <2>3, <1>2, TargetAdvances
<1>3. Inv /\ Next => Advance
    BY Zenon, <1>1, <1>2
<1> HIDE DEF Advance
<1>4. Inv /\ [Next]_vars => [Advance]_vars
    BY <1>3
<1>5. Spec => [][Advance]_vars
    BY <1>4, CrossCallsInvariant, PTL DEF Spec
<1> QED BY <1>5 DEF CappedPassesAdvance, Advance

=============================================================================
