----------------------------- MODULE ApiProofs ------------------------------
(***************************************************************************)
(* What a stream of WatchStatus shows, proved for any jobs, callers and    *)
(* max_attempts.  The invariant compares what a caller has been sent, what *)
(* the handler has in hand and the row: each is the next one or an earlier *)
(* state of the same job, and only a job that is not settled has a later   *)
(* state.                                                                  *)
(***************************************************************************)
EXTENDS Api, TLAPS

\* a is b, or a state of an unsettled job that b comes after.
UpTo(a, b) ==
    \/ a = b
    \/ a.status \notin TerminalStatuses /\ Earlier(a, b)

Ordered(log) == \A i, k \in 1 .. Len(log) : i < k => Earlier(log[i], log[k])

AllUpTo(log, s) == \A i \in 1 .. Len(log) : UpTo(log[i], s)

\* How the call of c, with what it has read and sent, relates to the row.
Follows(c) ==
    LET k == call[c] IN
    /\ k.rpc = "none" => k.pc = "none" /\ seen[c] = <<>>
    /\ Ordered(seen[c])
    /\ seen[c] # <<>> => status[k.job] # "absent" /\ AllUpTo(seen[c], ReadRow(k.job))
    /\ k.pc = "sending" =>
          /\ status[k.job] # "absent"
          /\ UpTo(snap[c], ReadRow(k.job))
          /\ AllUpTo(seen[c], snap[c])
    /\ k.rpc = "watch" =>
          /\ k.pc # "ok" =>
                \A i \in 1 .. Len(seen[c]) : seen[c][i].status \notin TerminalStatuses
          /\ k.pc = "ok" =>
                /\ Len(seen[c]) > 0
                /\ seen[c][Len(seen[c])].status \in TerminalStatuses

ApiInv == TypeOK /\ \A c \in Callers : Follows(c)

\* Earlier is a strict order on snapshots.
LEMMA EarlierStrict ==
    /\ \A a \in Snapshot : ~Earlier(a, a)
    /\ \A a, b, c \in Snapshot : Earlier(a, b) /\ Earlier(b, c) => Earlier(a, c)
BY ApiAssumption DEF Earlier, Snapshot

\* UpTo is transitive.
LEMMA UpToTrans ==
    \A a, b, c \in Snapshot : UpTo(a, b) /\ UpTo(b, c) => UpTo(a, c)
BY EarlierStrict DEF UpTo

\* Send: what the caller has seen stays in order and up to date.
LEMMA SeenWithOrdered ==
    ASSUME NEW log \in Seq(Snapshot), NEW s \in Snapshot,
           Ordered(log), AllUpTo(log, s)
    PROVE  /\ SeenWith(log, s) \in Seq(Snapshot)
           /\ Len(SeenWith(log, s)) > 0
           /\ SeenWith(log, s)[Len(SeenWith(log, s))] = s
           /\ Ordered(SeenWith(log, s))
           /\ AllUpTo(SeenWith(log, s), s)
           /\ \A i \in 1 .. Len(SeenWith(log, s)) :
                 SeenWith(log, s)[i] = s \/ SeenWith(log, s)[i].status \notin TerminalStatuses
<1>1. CASE log # <<>> /\ log[Len(log)] = s
  BY <1>1 DEF SeenWith, AllUpTo, UpTo
<1>2. CASE ~(log # <<>> /\ log[Len(log)] = s)
  <2> DEFINE new == Append(log, s)
  <2>1. /\ new \in Seq(Snapshot)
        /\ Len(new) = Len(log) + 1
        /\ new[Len(log) + 1] = s
        /\ \A i \in 1 .. Len(log) : new[i] = log[i] /\ log[i] \in Snapshot
    OBVIOUS
  <2>2. ASSUME NEW i \in 1 .. Len(log) PROVE log[i] # s /\ Earlier(log[i], s)
    <3>1. log[i] \in Snapshot /\ log[Len(log)] \in Snapshot /\ log[Len(log)] # s
      BY <1>2
    <3>2. Earlier(log[Len(log)], s)
      BY <3>1 DEF AllUpTo, UpTo
    <3>3. i = Len(log) \/ Earlier(log[i], log[Len(log)])
      BY DEF Ordered
    <3> QED BY <3>1, <3>2, <3>3, EarlierStrict
  <2>3. Ordered(new)
    BY <2>1, <2>2 DEF Ordered
  <2>4. AllUpTo(new, s)
    BY <2>1 DEF AllUpTo, UpTo
  <2>5. \A i \in 1 .. Len(new) : new[i] = s \/ new[i].status \notin TerminalStatuses
    BY <2>1, <2>2 DEF AllUpTo, UpTo
  <2> HIDE DEF new
  <2>6. SeenWith(log, s) = new
    BY <1>2 DEF SeenWith, new
  <2> QED BY <2>1, <2>3, <2>4, <2>5, <2>6
<1> QED BY <1>1, <1>2

\* What workers, reapers and Submit do to the jobs.
JobsStep ==
    \/ UNCHANGED jobVars
    \/ \E st \in [JobIds -> JobStatuses], at \in [JobIds -> 0 .. MaxAttempts] :
          JobsMoveTo(st, at)

\* A row that exists stays, and moves on to a later state or not at all.
LEMMA RowMovesOn ==
    ASSUME TypeOK, JobsStep, NEW j \in JobIds, status[j] # "absent"
    PROVE  /\ status'[j] # "absent"
           /\ ReadRow(j) \in Snapshot /\ ReadRow(j)' \in Snapshot
           /\ UpTo(ReadRow(j), ReadRow(j)')
<1>1. /\ status[j] \in JobStatuses \ {"absent"}
      /\ attempts[j] \in 0 .. MaxAttempts
  BY DEF TypeOK
<1>2. CASE UNCHANGED jobVars
  BY <1>1, <1>2 DEF jobVars, ReadRow, Snapshot, UpTo
<1>3. ASSUME NEW st \in [JobIds -> JobStatuses],
             NEW at \in [JobIds -> 0 .. MaxAttempts],
             JobsMoveTo(st, at)
      PROVE  /\ status'[j] # "absent"
             /\ ReadRow(j) \in Snapshot /\ ReadRow(j)' \in Snapshot
             /\ UpTo(ReadRow(j), ReadRow(j)')
  <2>1. /\ status'[j] \in JobStatuses /\ attempts'[j] \in 0 .. MaxAttempts
        /\ Jobs!Attempt(j) \/ Jobs!Settle(j) \/ Jobs!Stay(j)
    BY <1>3 DEF JobsMoveTo, Jobs!Next
  <2>2. CASE Jobs!Attempt(j)
    BY <1>1, <2>1, <2>2, ApiAssumption
       DEF Jobs!Attempt, Jobs!Move, ReadRow, Snapshot, UpTo, Earlier,
           JobStatuses, TerminalStatuses
  <2>3. CASE Jobs!Settle(j)
    BY <1>1, <2>1, <2>3, ApiAssumption
       DEF Jobs!Settle, Jobs!Move, ReadRow, Snapshot, UpTo, Earlier,
           JobStatuses, TerminalStatuses
  <2>4. CASE Jobs!Stay(j)
    BY <1>1, <2>1, <2>4 DEF Jobs!Stay, ReadRow, Snapshot, UpTo
  <2> QED BY <2>1, <2>2, <2>3, <2>4
<1> QED BY <1>2, <1>3 DEF JobsStep

\* The jobs may move under a call that stands still.
LEMMA CallStandsStill ==
    ASSUME TypeOK, JobsStep, NEW c \in Callers, Follows(c),
           call'[c] = call[c], snap'[c] = snap[c], seen'[c] = seen[c]
    PROVE  Follows(c)'
<1> DEFINE j == call[c].job
<1>0. call[c] \in Call /\ seen[c] \in Seq(Snapshot)
  BY DEF TypeOK
<1>1. ASSUME seen[c] # <<>>
      PROVE  status'[j] # "absent" /\ AllUpTo(seen[c], ReadRow(j)')
  <2>1. call[c].rpc # "none" /\ status[j] # "absent" /\ AllUpTo(seen[c], ReadRow(j))
    BY <1>1 DEF Follows
  <2>2. j \in JobIds
    BY <2>1 DEF TypeOK
  <2>3. /\ status'[j] # "absent"
        /\ ReadRow(j) \in Snapshot /\ ReadRow(j)' \in Snapshot
        /\ UpTo(ReadRow(j), ReadRow(j)')
    BY <2>1, <2>2, RowMovesOn
  <2>4. \A i \in 1 .. Len(seen[c]) : seen[c][i] \in Snapshot
    BY <1>0
  <2> HIDE DEF j
  <2> QED BY <2>1, <2>3, <2>4, UpToTrans DEF AllUpTo
<1>2. ASSUME call[c].pc = "sending"
      PROVE  status'[j] # "absent" /\ UpTo(snap[c], ReadRow(j)')
  <2>1. call[c].rpc = "watch" /\ status[j] # "absent" /\ UpTo(snap[c], ReadRow(j))
    BY <1>2 DEF Follows, TypeOK, Active
  <2>2. j \in JobIds
    BY <2>1 DEF TypeOK
  <2>3. /\ status'[j] # "absent"
        /\ ReadRow(j) \in Snapshot /\ ReadRow(j)' \in Snapshot
        /\ UpTo(ReadRow(j), ReadRow(j)')
    BY <2>1, <2>2, RowMovesOn
  <2>4. snap[c] \in Snapshot
    BY <1>2 DEF TypeOK
  <2> HIDE DEF j
  <2> QED BY <2>1, <2>3, <2>4, UpToTrans
<1>3. (seen[c] # <<>> => status'[j] # "absent" /\ AllUpTo(seen[c], ReadRow(j)'))
      /\ (call[c].pc = "sending" => status'[j] # "absent" /\ UpTo(snap[c], ReadRow(j)'))
  BY <1>1, <1>2
<1>4. ReadRow(j)' = [status |-> status'[j], attempts |-> attempts'[j]]
  BY DEF ReadRow
<1> QED BY <1>3, <1>4 DEF Follows, ReadRow

\* Init establishes the invariant.
LEMMA ApiInitInv == Init => ApiInv
<1> SUFFICES ASSUME Init PROVE ApiInv
  OBVIOUS
<1>1. TypeOK
  BY ApiAssumption DEF Init, Jobs!Init, TypeOK, NoCall, Call, Active, JobStatuses
<1>2. ASSUME NEW c \in Callers PROVE Follows(c)
  <2>1. call[c] = NoCall /\ seen[c] = <<>>
    BY DEF Init
  <2> QED BY <2>1 DEF Follows, NoCall, Ordered
<1> QED BY <1>1, <1>2 DEF ApiInv

\* The types are preserved by what is done to the jobs.
LEMMA JobsStepTypes ==
    ASSUME TypeOK, JobsStep
    PROVE  /\ status' \in [JobIds -> JobStatuses]
           /\ attempts' \in [JobIds -> 0 .. MaxAttempts]
           /\ letters' \subseteq JobIds
BY DEF TypeOK, JobsStep, JobsMoveTo, jobVars

\* A call that does not run is not in the middle of a Send.
LEMMA AnsweredFollows ==
    ASSUME NEW c \in Callers, NEW rpc, NEW j, NEW pc,
           call'[c] = [rpc |-> rpc, job |-> j, pc |-> pc],
           seen'[c] = <<>>, rpc # "none", pc # "sending", rpc = "watch" => pc # "ok"
    PROVE  Follows(c)'
BY DEF Follows, Ordered

\* Every step preserves the invariant.
LEMMA ApiNextInv == ApiInv /\ [Next]_apiVars => ApiInv'
<1> SUFFICES ASSUME ApiInv, [Next]_apiVars PROVE ApiInv'
  OBVIOUS
<1> USE DEF ApiInv
<1>0. TypeOK /\ \A c \in Callers : Follows(c)
  OBVIOUS
<1>1. ASSUME JobsStep, UNCHANGED <<call, snap, seen>>,
             server' \in {"serving", "draining", "down"}, faults' \in 0 .. FaultBound
      PROVE  ApiInv'
  <2>1. TypeOK'
    BY <1>1, JobsStepTypes DEF TypeOK
  <2>2. \A c \in Callers : Follows(c)'
    BY <1>1, CallStandsStill
  <2> QED BY <2>1, <2>2
<1>2. ASSUME NEW j \in JobIds, JobArrives(j) \/ JobMoves(j) PROVE ApiInv'
  <2>1. JobsStep
    BY <1>2 DEF JobArrives, JobMoves, JobsStep, TypeOK, JobStatuses
  <2> QED BY <1>1, <1>2, <2>1 DEF JobArrives, JobMoves, callVars, TypeOK
<1>3. ASSUME NEW c \in Callers, CallStep(c) PROVE ApiInv'
  \* Only the call of c changes; what is left is to look at c.
  <2>1. ASSUME JobsStep, NEW rpc, NEW j \in JobIds, NEW pc,
               Answer(c, rpc, j, pc),
               [rpc |-> rpc, job |-> j, pc |-> pc] \in Call,
               rpc # "none", pc \in Active => rpc = "watch",
               NEW s, s \in Snapshot \cup {NULL}, s # NULL <=> pc = "sending",
               snap' = [snap EXCEPT ![c] = s],
               NEW log \in Seq(Snapshot), seen' = [seen EXCEPT ![c] = log],
               UNCHANGED server, faults' \in 0 .. FaultBound,
               Follows(c)'
        PROVE  ApiInv'
    <3>1. /\ call' \in [Callers -> Call]
          /\ snap' \in [Callers -> Snapshot \cup {NULL}]
          /\ seen' \in [Callers -> Seq(Snapshot)]
      BY <2>1 DEF TypeOK, Answer
    <3>2. /\ \A d \in Callers : call'[d].rpc # "none" => call'[d].job \in JobIds
          /\ \A d \in Callers : call'[d].pc \in Active => call'[d].rpc = "watch"
          /\ \A d \in Callers : snap'[d] # NULL <=> call'[d].pc = "sending"
      BY <2>1 DEF TypeOK, Answer
    <3>3. TypeOK'
      BY <2>1, <3>1, <3>2, JobsStepTypes DEF TypeOK
    <3>4. ASSUME NEW d \in Callers, d # c PROVE Follows(d)'
      <4>1. call'[d] = call[d] /\ snap'[d] = snap[d] /\ seen'[d] = seen[d]
        BY <2>1, <3>4 DEF TypeOK, Answer
      <4> QED BY <2>1, <4>1, CallStandsStill
    <3> QED BY <2>1, <3>3, <3>4
  <2>2. /\ call[c] \in Call /\ seen[c] \in Seq(Snapshot)
        /\ snap[c] \in Snapshot \cup {NULL}
        /\ snap \in [Callers -> Snapshot \cup {NULL}] /\ seen \in [Callers -> Seq(Snapshot)]
        /\ call \in [Callers -> Call] /\ faults \in 0 .. FaultBound
    BY DEF TypeOK
  <2>3. UNCHANGED snap => snap' = [snap EXCEPT ![c] = snap[c]]
    BY <2>2
  <2>4. UNCHANGED seen => seen' = [seen EXCEPT ![c] = seen[c]]
    BY <2>2
  <2>5. UNCHANGED jobVars => JobsStep
    BY DEF JobsStep
  <2>6. Fault => faults' \in 0 .. FaultBound
    BY <2>2, ApiAssumption DEF Fault
  <2>7. MayCall(c) => snap[c] = NULL /\ seen[c] = <<>>
    BY DEF MayCall, Follows, TypeOK
  <2>8. ASSUME NEW j \in JobIds, Submit(c, j) PROVE ApiInv'
    <3>1. JobsStep
      BY <2>8 DEF Submit, JobsStep, TypeOK, JobStatuses
    <3>2. PICK pc \in {"ok", "error"} :
             Answer(c, "submit", j, pc) /\ faults' \in 0 .. FaultBound
      BY <2>2, <2>6, <2>8 DEF Submit
    <3>3. call'[c] = [rpc |-> "submit", job |-> j, pc |-> pc]
      BY <2>2, <3>2 DEF Answer
    <3>4. Follows(c)'
      BY <2>7, <2>8, <3>3, AnsweredFollows DEF Submit
    <3>5. [rpc |-> "submit", job |-> j, pc |-> pc] \in Call /\ pc \notin Active
      BY DEF Call, Active
    <3> QED BY <2>1, <2>2, <2>3, <2>4, <2>7, <2>8, <3>1, <3>2, <3>4, <3>5
            DEF Submit, Active
  <2>9. ASSUME NEW j \in JobIds, GetStatus(c, j) PROVE ApiInv'
    <3>1. CASE status[j] = "absent"
      <4>1. Answer(c, "status", j, "not_found") /\ UNCHANGED <<jobVars, server, snap, seen, faults>>
        BY <2>9, <3>1 DEF GetStatus
      <4>2. call'[c] = [rpc |-> "status", job |-> j, pc |-> "not_found"]
        BY <2>2, <4>1 DEF Answer
      <4>3. MayCall(c)
        BY <2>9 DEF GetStatus
      <4>4. Follows(c)'
        BY <2>7, <4>1, <4>2, <4>3, AnsweredFollows
      <4>5. [rpc |-> "status", job |-> j, pc |-> "not_found"] \in Call
            /\ "not_found" \notin Active
        BY DEF Call, Active
      <4> QED BY <2>1, <2>2, <2>3, <2>4, <2>5, <2>7, <4>1, <4>3, <4>4, <4>5
    <3>2. CASE status[j] # "absent"
      <4> DEFINE log == <<ReadRow(j)>>
      <4>1. /\ Answer(c, "status", j, "ok") /\ seen' = [seen EXCEPT ![c] = log]
            /\ UNCHANGED <<jobVars, server, snap, faults>>
        BY <2>9, <3>2 DEF GetStatus
      <4>2. call'[c] = [rpc |-> "status", job |-> j, pc |-> "ok"] /\ seen'[c] = log
        BY <2>2, <4>1 DEF Answer
      <4>3. MayCall(c)
        BY <2>9 DEF GetStatus
      <4>4. ReadRow(j) \in Snapshot
        BY <3>2 DEF ReadRow, Snapshot, TypeOK
      <4>5. log \in Seq(Snapshot) /\ Len(log) = 1 /\ log[1] = ReadRow(j)
        BY <4>4
      <4>6. ReadRow(j)' = ReadRow(j) /\ status' = status
        BY <4>1 DEF ReadRow, jobVars
      <4> HIDE DEF log
      <4>7. Ordered(log) /\ AllUpTo(log, ReadRow(j))
        BY <4>5 DEF Ordered, AllUpTo, UpTo
      <4>8. Follows(c)'
        BY <3>2, <4>2, <4>5, <4>6, <4>7 DEF Follows, ReadRow
      <4>9. [rpc |-> "status", job |-> j, pc |-> "ok"] \in Call /\ "ok" \notin Active
        BY DEF Call, Active
      <4>10. /\ JobsStep /\ snap' = [snap EXCEPT ![c] = snap[c]] /\ snap[c] = NULL
             /\ UNCHANGED server /\ faults' \in 0 .. FaultBound
        BY <2>2, <2>3, <2>5, <2>7, <4>1, <4>3
      <4>11. PICK rpc, pc : rpc = "status" /\ pc = "ok"
        OBVIOUS
      <4>12. /\ Answer(c, rpc, j, pc) /\ pc # "sending" /\ pc \notin Active /\ rpc # "none"
             /\ [rpc |-> rpc, job |-> j, pc |-> pc] \in Call
        BY <4>1, <4>9, <4>11
      <4> QED BY <2>1, <4>1, <4>5, <4>8, <4>10, <4>12
    <3> QED BY <3>1, <3>2
  <2>10. ASSUME NEW j \in JobIds, WatchStatus(c, j) PROVE ApiInv'
    <3>1. /\ MayCall(c) /\ Answer(c, "watch", j, "polling")
          /\ UNCHANGED <<jobVars, server, snap, seen, faults>>
      BY <2>10 DEF WatchStatus
    <3>2. call'[c] = [rpc |-> "watch", job |-> j, pc |-> "polling"]
      BY <2>2, <3>1 DEF Answer
    <3>3. Follows(c)'
      BY <2>7, <3>1, <3>2, AnsweredFollows
    <3>4. [rpc |-> "watch", job |-> j, pc |-> "polling"] \in Call
      BY DEF Call, Active
    <3> QED BY <2>1, <2>2, <2>3, <2>4, <2>5, <2>7, <3>1, <3>3, <3>4
  \* The steps of WatchStatus keep the job they were called with.
  <2>11. ASSUME call[c].pc \in Active,
                NEW pc \in Active \cup {"ok", "not_found", "error"}, Goto(c, pc)
         PROVE  /\ call[c].job \in JobIds
                /\ Answer(c, "watch", call[c].job, pc)
                /\ call'[c] = [rpc |-> "watch", job |-> call[c].job, pc |-> pc]
                /\ [rpc |-> "watch", job |-> call[c].job, pc |-> pc] \in Call
    <3>1. call[c].rpc = "watch" /\ call[c].job \in JobIds
      BY <2>11 DEF TypeOK
    <3> QED BY <2>2, <2>11, <3>1 DEF Goto, Answer, Call
  <2>12. CASE Poll(c)
    <3> DEFINE j == call[c].job
               s == ReadRow(j)
    <3>1. /\ call[c].pc = "polling" /\ status[j] # "absent" /\ Goto(c, "sending")
          /\ snap' = [snap EXCEPT ![c] = s]
          /\ UNCHANGED <<jobVars, server, seen, faults>>
      BY <2>12 DEF Poll
    <3>2. /\ j \in JobIds /\ Answer(c, "watch", j, "sending")
          /\ call'[c] = [rpc |-> "watch", job |-> j, pc |-> "sending"]
          /\ [rpc |-> "watch", job |-> j, pc |-> "sending"] \in Call
      BY <2>11, <3>1 DEF Active
    <3>3. s \in Snapshot
      BY <3>1, <3>2 DEF ReadRow, Snapshot, TypeOK
    <3>4. s # NULL
      BY <3>3, ApiAssumption
    <3>5. snap'[c] = s /\ seen'[c] = seen[c] /\ status' = status /\ attempts' = attempts
      BY <2>2, <3>1 DEF jobVars
    <3>6. Follows(c)'
      <4>1. AllUpTo(seen[c], s)
        BY DEF Follows, AllUpTo
      <4>2. call[c].rpc = "watch"
        BY <3>1 DEF TypeOK, Active
      <4> QED BY <3>1, <3>2, <3>5, <4>1, <4>2 DEF Follows, ReadRow, UpTo
    <3>7. "sending" \in Active
      BY DEF Active
    <3> HIDE DEF s, j
    <3> QED BY <2>1, <2>2, <2>4, <2>5, <3>1, <3>2, <3>3, <3>4, <3>6, <3>7
  <2>13. CASE PollNotFound(c) \/ Wake(c)
    <3>1. PICK pc \in {"not_found", "polling"} :
             Goto(c, pc) /\ call[c].pc \in {"polling", "waiting"}
      BY <2>13 DEF PollNotFound, Wake
    <3>2. UNCHANGED <<jobVars, server, snap, seen, faults>>
      BY <2>13 DEF PollNotFound, Wake
    <3> DEFINE j == call[c].job
    <3>3. /\ j \in JobIds /\ Answer(c, "watch", j, pc)
          /\ call'[c] = [rpc |-> "watch", job |-> j, pc |-> pc]
          /\ [rpc |-> "watch", job |-> j, pc |-> pc] \in Call
      BY <2>11, <3>1 DEF Active
    <3>4. snap[c] = NULL /\ call[c].rpc = "watch"
      BY <3>1 DEF TypeOK, Active
    <3>5. Follows(c)'
      BY <3>1, <3>2, <3>3, <3>4 DEF Follows, ReadRow, jobVars
    <3> HIDE DEF j
    <3> QED BY <2>1, <2>2, <2>3, <2>4, <2>5, <3>1, <3>2, <3>3, <3>4, <3>5
  <2>14. CASE Send(c)
    <3> DEFINE j == call[c].job
               s == snap[c]
               log == SeenWith(seen[c], s)
    <3>1. PICK pc \in {"ok", "waiting"} :
             /\ call[c].pc = "sending" /\ Goto(c, pc)
             /\ pc = "ok" <=> s.status \in TerminalStatuses
      BY <2>14 DEF Send, Ends
    <3>2. /\ seen' = [seen EXCEPT ![c] = log] /\ snap' = [snap EXCEPT ![c] = NULL]
          /\ UNCHANGED <<jobVars, server, faults>>
      BY <2>2, <2>14 DEF Send
    <3>3. /\ j \in JobIds /\ Answer(c, "watch", j, pc)
          /\ call'[c] = [rpc |-> "watch", job |-> j, pc |-> pc]
          /\ [rpc |-> "watch", job |-> j, pc |-> pc] \in Call
      BY <2>11, <3>1 DEF Active
    <3>4. /\ s \in Snapshot /\ status[j] # "absent" /\ UpTo(s, ReadRow(j))
          /\ AllUpTo(seen[c], s) /\ Ordered(seen[c])
      BY <2>2, <3>1 DEF TypeOK, Follows
    <3>5. /\ log \in Seq(Snapshot) /\ Len(log) > 0 /\ log[Len(log)] = s
          /\ Ordered(log) /\ AllUpTo(log, s)
          /\ \A i \in 1 .. Len(log) : log[i] = s \/ log[i].status \notin TerminalStatuses
      BY <2>2, <3>4, SeenWithOrdered
    <3>6. seen'[c] = log /\ status' = status /\ ReadRow(j) \in Snapshot
      BY <2>2, <3>2, <3>3, <3>4 DEF jobVars, ReadRow, Snapshot, TypeOK
    <3>7. AllUpTo(log, ReadRow(j))
      <4> HIDE DEF log, s, j
      <4>1. \A i \in 1 .. Len(log) : log[i] \in Snapshot
        BY <3>5
      <4> QED BY <3>4, <3>5, <3>6, <4>1, UpToTrans DEF AllUpTo
    <3>8. Follows(c)'
      <4>1. attempts' = attempts
        BY <3>2 DEF jobVars
      <4> HIDE DEF log, s
      <4> QED BY <3>1, <3>3, <3>4, <3>5, <3>6, <3>7, <4>1 DEF Follows, ReadRow
    <3> HIDE DEF j, s, log
    <3> QED BY <2>1, <2>2, <2>5, <3>1, <3>2, <3>3, <3>5, <3>8
  <2>15. CASE Break(c)
    <3> DEFINE j == call[c].job
    <3>1. /\ call[c].pc \in Active /\ Fault /\ Goto(c, "error")
          /\ snap' = [snap EXCEPT ![c] = NULL] /\ UNCHANGED <<jobVars, server, seen>>
      BY <2>15 DEF Break
    <3>2. /\ j \in JobIds /\ Answer(c, "watch", j, "error")
          /\ call'[c] = [rpc |-> "watch", job |-> j, pc |-> "error"]
          /\ [rpc |-> "watch", job |-> j, pc |-> "error"] \in Call
      BY <2>11, <3>1
    <3>3. Follows(c)'
      <4>1. call[c].rpc = "watch" /\ call[c].pc # "ok"
        BY <3>1 DEF TypeOK, Active
      <4>2. seen' = seen /\ status' = status /\ attempts' = attempts
        BY <3>1 DEF jobVars
      <4> QED BY <3>2, <4>1, <4>2 DEF Follows, ReadRow
    <3>4. /\ JobsStep /\ seen' = [seen EXCEPT ![c] = seen[c]]
          /\ UNCHANGED server /\ faults' \in 0 .. FaultBound
      BY <2>4, <2>5, <2>6, <3>1
    <3>5. PICK pc : pc = "error"
      OBVIOUS
    <3>6. /\ Answer(c, "watch", j, pc) /\ pc # "sending"
          /\ [rpc |-> "watch", job |-> j, pc |-> pc] \in Call
      BY <3>2, <3>5
    <3> HIDE DEF j
    <3> QED BY <2>1, <2>2, <3>1, <3>2, <3>3, <3>4, <3>6
  <2>16. ASSUME NEW j \in JobIds, CallFails(c, j) PROVE ApiInv'
    <3>1. PICK rpc \in {"submit", "status"} : Answer(c, rpc, j, "error")
      BY <2>16 DEF CallFails
    <3>2. PICK pc : pc = "error"
      OBVIOUS
    <3>3. /\ Answer(c, rpc, j, pc) /\ pc # "sending" /\ pc \notin Active
          /\ [rpc |-> rpc, job |-> j, pc |-> pc] \in Call
          /\ rpc # "none" /\ rpc # "watch"
      BY <3>1, <3>2 DEF Call, Active
    <3>4. call'[c] = [rpc |-> rpc, job |-> j, pc |-> pc]
      BY <2>2, <3>3 DEF Answer
    <3>5. /\ JobsStep /\ snap' = [snap EXCEPT ![c] = snap[c]] /\ snap[c] = NULL
          /\ seen' = [seen EXCEPT ![c] = seen[c]] /\ seen'[c] = <<>>
          /\ UNCHANGED server /\ faults' \in 0 .. FaultBound
      BY <2>2, <2>3, <2>4, <2>5, <2>6, <2>7, <2>16 DEF CallFails
    <3>6. Follows(c)'
      BY <3>3, <3>4, <3>5, AnsweredFollows
    <3> QED BY <2>1, <2>2, <3>3, <3>5, <3>6
  <2> QED BY <1>3, <2>8, <2>9, <2>10, <2>12, <2>13, <2>14, <2>15, <2>16 DEF CallStep
<1>4. CASE Sigterm \/ Exit \/ Start
  <2>1. JobsStep
    BY <1>4 DEF Sigterm, Exit, Start, JobsStep
  <2>2. faults' \in 0 .. FaultBound
    BY <1>4, ApiAssumption DEF Sigterm, Exit, Start, Fault, TypeOK
  <2> QED BY <1>1, <1>4, <2>1, <2>2 DEF Sigterm, Exit, Start
<1>5. CASE Kill
  <2>1. JobsStep
    BY <1>5 DEF Kill, JobsStep
  <2>2. ASSUME NEW c \in Callers
        PROVE  /\ call'[c] \in Call /\ snap'[c] = NULL /\ call'[c].pc \notin Active
               /\ call'[c].rpc # "none" => call'[c].job \in JobIds
               /\ Follows(c)'
    <3>1. CASE call[c].pc \in Active
      <4>1. call'[c] = [rpc |-> "watch", job |-> call[c].job, pc |-> "error"]
        BY <1>5, <3>1 DEF Kill
      <4>2. snap'[c] = NULL /\ seen' = seen /\ status' = status /\ attempts' = attempts
        BY <1>5 DEF Kill, jobVars
      <4>3. call[c].rpc = "watch" /\ call[c].job \in JobIds
        BY <3>1 DEF TypeOK
      <4>4. Follows(c)'
        BY <3>1, <4>1, <4>2, <4>3 DEF Follows, ReadRow, Active
      <4> QED BY <4>1, <4>2, <4>3, <4>4 DEF Call, Active
    <3>2. CASE call[c].pc \notin Active
      <4>1. call'[c] = call[c] /\ snap'[c] = NULL /\ snap[c] = NULL /\ seen'[c] = seen[c]
        BY <1>5, <3>2 DEF Kill, TypeOK, Active
      <4>2. Follows(c)'
        BY <2>1, <4>1, CallStandsStill
      <4> QED BY <3>2, <4>1, <4>2 DEF TypeOK
    <3> QED BY <3>1, <3>2
  <2>3. call' \in [Callers -> Call] /\ snap' \in [Callers -> Snapshot \cup {NULL}]
    <3>1. call' = [c \in Callers |-> call'[c]] /\ snap' = [c \in Callers |-> NULL]
      BY <1>5 DEF Kill
    <3> QED BY <2>2, <3>1
  <2>4. TypeOK'
    <3>1. faults' \in 0 .. FaultBound /\ server' = "down" /\ seen' = seen
      BY <1>5, ApiAssumption DEF Kill, Fault, TypeOK
    <3>2. \A c \in Callers : snap'[c] # NULL <=> call'[c].pc = "sending"
      BY <2>2 DEF Active
    <3>3. \A c \in Callers : call'[c].pc \in Active => call'[c].rpc = "watch"
      BY <2>2
    <3> QED BY <2>1, <2>2, <2>3, <3>1, <3>2, <3>3, JobsStepTypes DEF TypeOK
  <2> QED BY <2>2, <2>4
<1>6. CASE UNCHANGED apiVars
  <2>1. JobsStep
    BY <1>6 DEF apiVars, jobVars, JobsStep
  <2> QED BY <1>1, <1>6, <2>1 DEF apiVars, TypeOK
<1> QED BY <1>2, <1>3, <1>4, <1>5, <1>6 DEF Next

\* The invariant holds in every reachable state.
THEOREM ApiInvariance == Spec => []ApiInv
BY ApiInitInv, ApiNextInv, PTL DEF Spec

\* The state of the API keeps its types.
THEOREM ApiTypeCorrect == Spec => []TypeOK
BY ApiInvariance, PTL DEF ApiInv

\* A stream that ends well has shown the outcome its job has, last and once.
THEOREM StreamsTellTheOutcome == Spec => []StreamEndsWithOutcome
<1>1. ApiInv => StreamEndsWithOutcome
  <2> SUFFICES ASSUME ApiInv, NEW c \in Callers, call[c].rpc = "watch"
               PROVE  LET n == Len(seen[c]) IN
                      /\ \A i \in 1 .. n : seen[c][i].status \in TerminalStatuses =>
                                             i = n /\ call[c].pc = "ok"
                      /\ call[c].pc = "ok" => n > 0 /\ seen[c][n] = ReadRow(call[c].job)
    BY DEF StreamEndsWithOutcome
  <2> DEFINE n == Len(seen[c])
             row == ReadRow(call[c].job)
  <2>1. Follows(c) /\ seen[c] \in Seq(Snapshot)
    BY DEF ApiInv, TypeOK
  <2>2. ASSUME NEW i \in 1 .. n, seen[c][i].status \in TerminalStatuses
        PROVE  i = n /\ call[c].pc = "ok" /\ seen[c][i] = row
    <3>1. call[c].pc = "ok" /\ Ordered(seen[c]) /\ AllUpTo(seen[c], row)
      BY <2>1, <2>2 DEF Follows
    <3>2. UpTo(seen[c][i], row) /\ UpTo(seen[c][n], row)
      BY <2>1, <2>2, <3>1 DEF AllUpTo
    <3>3. seen[c][i] = row
      BY <2>2, <3>2 DEF UpTo
    <3>4. seen[c][n] \in Snapshot /\ seen[c][i] \in Snapshot /\ n \in Nat
      BY <2>1
    <3>5. i = n \/ Earlier(seen[c][i], seen[c][n])
      BY <3>1, <3>4 DEF Ordered
    <3> HIDE DEF row
    <3> QED BY <3>1, <3>2, <3>3, <3>4, <3>5, EarlierStrict DEF UpTo
  <2>3. call[c].pc = "ok" => n > 0 /\ seen[c][n].status \in TerminalStatuses /\ n \in 1 .. n
    BY <2>1 DEF Follows
  <2> QED BY <2>2, <2>3
<1> QED BY <1>1, ApiInvariance, PTL

\* A stream shows no two states of its job out of order.
THEOREM StreamsKeepOrder == Spec => []UpdatesInOrder
<1>1. ApiInv => UpdatesInOrder
  BY DEF ApiInv, Follows, Ordered, UpdatesInOrder
<1> QED BY <1>1, ApiInvariance, PTL
=============================================================================
