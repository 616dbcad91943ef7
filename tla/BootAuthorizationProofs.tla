---------------------- MODULE BootAuthorizationProofs ----------------------
(***************************************************************************)
(* TLAPS proofs about the ESXi boot authorizations, for every set of       *)
(* request threads and every number of claims, edits and crashes.          *)
(***************************************************************************)
EXTENDS BootAuthorization, TLAPS

(* While its row is there, what a fetch has read is still applied: an      *)
(* apply that changes it removes the row.                                  *)
Current(r) == /\ r.ctx.kick = applied.kick /\ cap[r.a].kick = applied.kick
              /\ cap[r.a].by = "operator" \/ ~applied.console

(* The claim a request is about was made before, a loader is prepared only *)
(* for an authorized claim, and a fetch holds what is applied.             *)
ClaimPcs == {"authorize", "reject", "prepare", "token", "consume"}
Sound(r) == /\ r.pc \in ClaimPcs => r.a \in Attempts /\ r.a <= made
            /\ r.pc \in {"prepare", "token"} /\ cap[r.a].there => cap[r.a].by # "none"
            /\ r.pc = "consume" /\ cap[r.a].there => Current(r)

Requests   == \A t \in Threads : Sound(th[t])
ServedMade == \A a \in Attempts : served[a] # <<>> => a <= made

(* The inductive invariant.                                                *)
IInv == TypeOK /\ Requests /\ ServedMade /\ RenderedOnce

-----------------------------------------------------------------------------
(* Types of what the actions build.                                        *)

(* No row, an idle request and the first configuration are well typed.     *)
LEMMA FirstTypes ==
    /\ NoRow \in Row /\ Idle \in Thread
    /\ \A console \in BOOLEAN : First(console) \in Config
  BY BootConstants
  DEF NoRow, Row, Idle, Thread, Pcs, First, Config, Revisions

(* Deleting or consuming rows keeps the table well typed.                  *)
LEMMA RowTypes ==
    ASSUME RowsTyped, NEW S
    PROVE  Deleted(S) \in [Attempts -> Row] /\ Consumed(S) \in [Attempts -> Row]
  BY FirstTypes DEF RowsTyped, Deleted, Consumed, Row

-----------------------------------------------------------------------------
(* What the steps have in common.                                          *)

(* A row that is still there is for the same Kickstart, keeps its          *)
(* authorization or got one from an operator, and stays consumed.          *)
RowKept(a) ==
    cap'[a].there =>
      /\ cap[a].there /\ cap'[a].kick = cap[a].kick
      /\ cap'[a].by \in {cap[a].by, "operator"}
      /\ cap[a].consumed => cap'[a].consumed

(* A step that keeps rows, serves nothing and leaves every request as it   *)
(* was or sound keeps the invariant; it may change what is applied if no   *)
(* row is left.                                                            *)
LEMMA KeepsInv ==
    ASSUME IInv, RowsTyped', ConfigTyped', ThreadsTyped', TokenGranted',
           made' = made, served' = served,
           \A a \in files' : a <= made,
           \A a \in Attempts : RowKept(a),
           \A t \in Threads : th'[t] = th[t] \/ Sound(th'[t]),
           applied' = applied \/ \A a \in Attempts : ~cap'[a].there
    PROVE  IInv'
  <1> USE DEF IInv, TypeOK
  <1>1. ServedTyped' /\ RenderedOnce' /\ ServedMade'
    BY DEF ServedTyped, RenderedOnce, ServedMade
  <1>2. ServedSpent' /\ ClaimsMade'
    BY DEF ServedSpent, ClaimsMade, RowKept
  <1>3. ASSUME NEW t \in Threads PROVE Sound(th[t])'
    <2>1. Sound(th'[t])
      BY DEF Requests
    <2>2. QED
      BY <2>1 DEF Sound, ClaimPcs, Current, RowKept
  <1>4. QED
    BY <1>1, <1>2, <1>3 DEF Requests

(* A request that only reads: rows, files and configuration stay.          *)
LEMMA ReadKeepsInv ==
    ASSUME IInv, NEW t \in Threads, NEW r \in Thread, Sound(r),
           th' = [th EXCEPT ![t] = r], UNCHANGED <<cap, made, served, config>>,
           RowsTyped', \A a \in files' : a <= made
    PROVE  IInv'
  <1> USE DEF IInv, TypeOK
  <1>1. ConfigTyped' /\ TokenGranted'
    BY DEF config, ConfigTyped, TokenGranted
  <1>2. ThreadsTyped' /\ \A u \in Threads : th'[u] = th[u] \/ Sound(th'[u])
    BY DEF ThreadsTyped
  <1>3. \A a \in Attempts : RowKept(a)
    BY DEF RowKept
  <1>4. QED
    BY <1>1, <1>2, <1>3, KeepsInv DEF config

(* A request that ends with a change of rows.                              *)
LEMMA EndKeepsInv ==
    ASSUME IInv, NEW t \in Threads, Done(t), UNCHANGED <<made, served, config>>,
           RowsTyped', TokenGranted', \A a \in files' : a <= made,
           \A a \in Attempts : RowKept(a)
    PROVE  IInv'
  <1> USE DEF IInv, TypeOK
  <1>1. ConfigTyped'
    BY DEF config, ConfigTyped
  <1>2. ThreadsTyped' /\ \A u \in Threads : th'[u] = th[u] \/ Sound(th'[u])
    <2>1. Sound(Idle)
      BY DEF Sound, Idle, ClaimPcs
    <2>2. QED
      BY <2>1, FirstTypes DEF ThreadsTyped, Done
  <1>3. QED
    BY <1>1, <1>2, KeepsInv DEF config

(* Files are only for claims that were made.                               *)
LEMMA FilesMade == IInv => files \subseteq Attempts /\ \A a \in files : a <= made
  BY DEF IInv, TypeOK, RowsTyped, ClaimsMade

(* A new claim has a number no row, file, Kickstart or request had before. *)
LEMMA NewClaimKeepsInv ==
    ASSUME IInv, NEW t \in Threads, ClaimCommit(t), made' = made + 1,
           cap' = [Deleted(th[t].dead) EXCEPT ![made + 1] = NewClaim(th[t].ctx)]
    PROVE  IInv'
  <1>1. /\ made \in Nat /\ made + 1 \in Attempts /\ made' \in 0 .. MaxClaims
        /\ cap \in [Attempts -> Row] /\ th[t] \in Thread
    BY BootConstants
    DEF ClaimCommit, IInv, TypeOK, RowsTyped, ThreadsTyped, Attempts
  <1> DEFINE n == NewClaim(th[t].ctx)
             d == Deleted(th[t].dead)
  <1>2. n \in Row /\ n.there /\ ~n.token
    BY <1>1, FirstTypes DEF NewClaim, Thread, Config, Row, NoRow
  <1>3. d \in [Attempts -> Row] /\ \A a \in Attempts : d[a] = cap[a] \/ d[a] = NoRow
    BY RowTypes DEF IInv, TypeOK, Deleted
  <1> HIDE DEF n, d
  <1>4. /\ cap' \in [Attempts -> Row] /\ cap'[made + 1] = n
        /\ \A a \in Attempts : a # made + 1 => cap'[a] = cap[a] \/ cap'[a] = NoRow
    BY <1>1, <1>2, <1>3 DEF n, d
  <1>5. UNCHANGED <<files, served, applied>> /\ th' = [th EXCEPT ![t] = Idle]
    BY DEF ClaimCommit, Done, config
  <1>6. ~NoRow.there /\ ~NoRow.token
    BY DEF NoRow
  <1>7. RowsTyped' /\ ConfigTyped' /\ ThreadsTyped' /\ ServedTyped'
    BY <1>1, <1>4, <1>5, FirstTypes
    DEF IInv, TypeOK, RowsTyped, ConfigTyped, ThreadsTyped, ServedTyped, ClaimCommit, config
  <1>8. TokenGranted'
    BY <1>2, <1>4, <1>6 DEF TokenGranted, IInv, TypeOK
  <1>9. \A a \in Attempts : served[a] # <<>> => a # made + 1
    BY <1>1 DEF IInv, ServedMade, Attempts
  <1>10. ServedSpent' /\ ServedMade' /\ ClaimsMade' /\ RenderedOnce'
    BY <1>1, <1>4, <1>5, <1>6, <1>9
    DEF ServedSpent, ServedMade, ClaimsMade, RenderedOnce, IInv, TypeOK, Attempts
  <1>11. ASSUME NEW u \in Threads PROVE Sound(th[u])'
    <2>1. CASE th'[u] = Idle
      BY <2>1 DEF Sound, Idle, ClaimPcs
    <2>2. CASE th'[u] = th[u]
      <3>1. Sound(th[u])
        BY DEF IInv, Requests
      <3>2. th[u].pc \in ClaimPcs => th[u].a \in Attempts /\ th[u].a <= made
                                     /\ th[u].a # made + 1
        BY <1>1, <3>1 DEF Sound, Attempts
      <3>3. QED
        BY <1>1, <1>4, <1>5, <1>6, <2>2, <3>1, <3>2
        DEF Sound, ClaimPcs, Current, Attempts
    <2>3. QED
      BY <1>5, <2>1, <2>2 DEF IInv, TypeOK, ThreadsTyped
  <1>12. QED
    BY <1>7, <1>8, <1>10, <1>11 DEF IInv, TypeOK, Requests

(* The request whose update hit the row renders the first Kickstart of its *)
(* claim, and what it read is what is applied.                             *)
LEMMA ConsumeRenders ==
    ASSUME IInv, NEW t \in Threads, Consume(t)
    PROVE  \/ served' = served /\ UNCHANGED <<cap, files>>
           \/ /\ th[t].a \in Attempts /\ th[t].a <= made
              /\ cap[th[t].a].there /\ Current(th[t])
              /\ served[th[t].a] = <<>>
              /\ cap' = Consumed({th[t].a}) /\ files' = files \ {th[t].a}
              /\ \/ served' = served
                 \/ served' = [served EXCEPT ![th[t].a] = <<applied.kick>>]
  <1>1. /\ th[t].pc = "consume" /\ th[t].a \in Attempts /\ th[t].a <= made
        /\ cap[th[t].a].there => Current(th[t])
    BY DEF Consume, IInv, Requests, Sound, ClaimPcs
  <1>2. CASE ~Unconsumed(th[t].a)
    BY <1>2 DEF Consume
  <1>3. CASE Unconsumed(th[t].a)
    <2>1. cap[th[t].a].there /\ ~cap[th[t].a].consumed /\ Current(th[t])
      BY <1>1, <1>3 DEF Unconsumed
    <2>2. served[th[t].a] = <<>> /\ served \in [Attempts -> Seq(Revisions)]
      BY <1>1, <2>1 DEF IInv, TypeOK, ServedSpent, ServedTyped
    <2>3. PICK r \in {<<>>, <<th[t].ctx.kick>>} :
             served' = [served EXCEPT ![th[t].a] = served[th[t].a] \o r]
      BY <1>3 DEF Consume
    <2>4. served[th[t].a] \o r = r
      <3>1. <<>> \o <<>> = <<>> /\ <<>> \o <<th[t].ctx.kick>> = <<th[t].ctx.kick>>
        OBVIOUS
      <3>2. QED
        BY <2>2, <2>3, <3>1
    <2>5. th[t].ctx.kick = applied.kick
      BY <2>1 DEF Current
    <2>6. served' = served \/ served' = [served EXCEPT ![th[t].a] = <<applied.kick>>]
      BY <1>1, <2>2, <2>3, <2>4, <2>5
    <2>7. cap' = Consumed({th[t].a}) /\ files' = files \ {th[t].a}
      BY <1>3 DEF Consume
    <2>8. QED
      BY <1>1, <2>1, <2>2, <2>6, <2>7
  <1>4. QED
    BY <1>2, <1>3

(* So a fetch keeps the invariant.                                         *)
LEMMA ConsumeKeepsInv ==
    ASSUME IInv, NEW t \in Threads, Consume(t)
    PROVE  IInv'
  <1>1. Done(t) /\ UNCHANGED <<made, config>>
    BY DEF Consume
  <1>2. /\ RowsTyped /\ TokenGranted /\ cap \in [Attempts -> Row]
        /\ \A b \in files : b <= made
    BY FilesMade DEF IInv, TypeOK, RowsTyped
  <1>3. CASE served' = served /\ UNCHANGED <<cap, files>>
    BY <1>1, <1>2, <1>3, EndKeepsInv DEF RowsTyped, TokenGranted, RowKept
  <1>4. ASSUME th[t].a \in Attempts, th[t].a <= made, served[th[t].a] = <<>>,
               cap' = Consumed({th[t].a}), files' = files \ {th[t].a},
               \/ served' = served
               \/ served' = [served EXCEPT ![th[t].a] = <<applied.kick>>]
        PROVE  IInv'
    <2> DEFINE a == th[t].a
    <2>1. /\ cap' \in [Attempts -> Row] /\ RowsTyped'
      BY <1>1, <1>2, <1>4, RowTypes DEF RowsTyped
    <2>2. /\ cap'[a].consumed
          /\ \A b \in Attempts : /\ cap'[b].there = cap[b].there /\ cap'[b].by = cap[b].by
                                 /\ cap'[b].token = cap[b].token
                                 /\ cap'[b].kick = cap[b].kick
                                 /\ cap[b].consumed => cap'[b].consumed
      BY <1>2, <1>4 DEF Consumed, Row
    <2>3. TokenGranted'
      BY <1>2, <2>2 DEF TokenGranted
    <2>4. CASE served' = served
      <3>1. \A b \in Attempts : RowKept(b)
        BY <2>2 DEF RowKept
      <3>2. QED
        BY <1>1, <1>2, <1>4, <2>1, <2>3, <2>4, <3>1, EndKeepsInv
    <2>5. CASE served' = [served EXCEPT ![a] = <<applied.kick>>]
      <3>1. /\ served \in [Attempts -> Seq(Revisions)]
            /\ <<applied.kick>> \in Seq(Revisions) /\ Len(<<applied.kick>>) = 1
        BY DEF IInv, TypeOK, ServedTyped, ConfigTyped, Config
      <3>2. ServedTyped' /\ RenderedOnce'
        <4>1. \A b \in Attempts : served'[b] \in {served[b], <<applied.kick>>}
          BY <2>5, <3>1
        <4>2. Len(<<applied.kick>>) <= 1
          BY <3>1
        <4>3. RenderedOnce'
          BY <4>1, <4>2 DEF RenderedOnce, IInv
        <4>4. ServedTyped'
          BY <2>5, <3>1 DEF ServedTyped
        <4>5. QED
          BY <4>3, <4>4
      <3>3. \A b \in Attempts : b # a => served'[b] = served[b]
        BY <2>5, <3>1
      <3>4. ServedSpent' /\ ServedMade'
        BY <1>1, <1>4, <2>2, <3>3 DEF ServedSpent, ServedMade, IInv, TypeOK
      <3>5. ClaimsMade' /\ ConfigTyped'
        BY <1>1, <1>4, <2>2 DEF ClaimsMade, ConfigTyped, config, IInv, TypeOK
      <3>6. ThreadsTyped'
        BY <1>1, FirstTypes DEF Done, ThreadsTyped, IInv, TypeOK
      <3>7. ASSUME NEW u \in Threads PROVE Sound(th[u])'
        <4>1. CASE th'[u] = Idle
          BY <4>1 DEF Sound, Idle, ClaimPcs
        <4>2. CASE th'[u] = th[u]
          BY <1>1, <2>2, <4>2 DEF Sound, ClaimPcs, Current, IInv, Requests, config
        <4>3. QED
          BY <1>1, <4>1, <4>2 DEF Done, IInv, TypeOK, ThreadsTyped
      <3>8. QED
        BY <2>1, <2>3, <3>2, <3>4, <3>5, <3>6, <3>7 DEF IInv, TypeOK, Requests
    <2>6. QED
      BY <1>4, <2>4, <2>5
  <1>5. QED
    BY <1>3, <1>4, ConsumeRenders

(* Nothing but a fetch renders a Kickstart.                                *)
LEMMA OnlyConsumeRenders ==
    ASSUME [Next]_vars
    PROVE  served' = served \/ \E t \in Threads : Consume(t)
  BY DEF vars, Next, Request, CleanupRead, Sweep, ClaimRead, ClaimCommit, AuthorizeRead,
         AuthorizeCommit, Poll, Prepare, RecordToken, Reject, Fetch, Expire, Edit,
         ApplyHost, ApplyCommit, ApplyFails, Crash

-----------------------------------------------------------------------------
(* Every step keeps the invariant.                                         *)
LEMMA InvStep == IInv /\ [Next]_vars => IInv'
  <1> SUFFICES ASSUME IInv, [Next]_vars PROVE IInv'
    OBVIOUS
  <1>f. files \subseteq Attempts /\ \A a \in files : a <= made
    BY FilesMade
  <1>i. Sound(Idle)
    BY DEF Sound, Idle, ClaimPcs
  <1>t. \A t \in Threads : th[t] \in Thread /\ Sound(th[t])
    BY DEF IInv, TypeOK, ThreadsTyped, Requests
  <1>1. CASE \E t \in Threads : CleanupRead(t)
    <2>1. PICK t \in Threads : CleanupRead(t)
      BY <1>1
    <2>2. PICK op \in {"menu", "authorize"}, dead \in SUBSET Attempts, live \in SUBSET Attempts :
             th' = [th EXCEPT ![t] = [Idle EXCEPT !.pc = "sweep", !.op = op, !.dead = dead,
                                                 !.live = live]]
      BY <2>1 DEF CleanupRead, Rows
    <2> DEFINE r == [Idle EXCEPT !.pc = "sweep", !.op = op, !.dead = dead, !.live = live]
    <2>3. r \in Thread /\ Sound(r)
      BY FirstTypes DEF Thread, Pcs, Sound, ClaimPcs
    <2> HIDE DEF r
    <2>4. QED
      BY <1>f, <2>1, <2>2, <2>3, ReadKeepsInv DEF CleanupRead, r, IInv, TypeOK, RowsTyped
  <1>2. CASE \E t \in Threads : Sweep(t)
    <2>1. PICK t \in Threads : Sweep(t)
      BY <1>2
    <2> DEFINE r == [th[t] EXCEPT !.pc = "swept", !.live = {}]
    <2>2. r \in Thread /\ Sound(r) /\ th' = [th EXCEPT ![t] = r]
      BY <1>t, <2>1 DEF Sweep, Thread, Pcs, Sound, ClaimPcs
    <2> HIDE DEF r
    <2>3. QED
      BY <1>f, <2>1, <2>2, ReadKeepsInv DEF Sweep, IInv, TypeOK, RowsTyped
  <1>3. CASE \E t \in Threads : ClaimRead(t)
    <2>1. PICK t \in Threads : ClaimRead(t)
      BY <1>3
    <2> DEFINE r == [th[t] EXCEPT !.pc = "claim", !.ctx = applied, !.fits = Available]
    <2>2. r \in Thread /\ Sound(r) /\ th' = [th EXCEPT ![t] = r]
      BY ZenonT(60), <1>t, <2>1
      DEF ClaimRead, Thread, Pcs, Sound, ClaimPcs, IInv, TypeOK, ConfigTyped, Available
    <2> HIDE DEF r
    <2>3. QED
      BY <1>f, <2>1, <2>2, ReadKeepsInv DEF ClaimRead, IInv, TypeOK, RowsTyped
  <1>5. CASE \E t \in Threads : AuthorizeRead(t)
    <2>1. PICK t \in Threads : AuthorizeRead(t)
      BY <1>5
    <2>2. PICK r \in Thread : Sound(r) /\ th' = [th EXCEPT ![t] = r]
      <3>1. CASE Done(t)
        BY <1>i, <3>1, FirstTypes DEF Done
      <3>2. ASSUME NEW a \in Attempts, Pending(a),
                   th' = [th EXCEPT ![t].pc = "authorize", ![t].a = a,
                                    ![t].others = {b \in Rows \ {a} : cap[b].by # "none"
                                                                  /\ ~cap[b].consumed}]
            PROVE  \E r \in Thread : Sound(r) /\ th' = [th EXCEPT ![t] = r]
        <4> DEFINE others == {b \in Rows \ {a} : cap[b].by # "none" /\ ~cap[b].consumed}
                   r == [th[t] EXCEPT !.pc = "authorize", !.a = a, !.others = others]
        <4>1. a <= made /\ a \in 0 .. MaxClaims /\ others \in SUBSET Attempts
          BY <3>2, BootConstants DEF Pending, IInv, TypeOK, ClaimsMade, Rows, Attempts
        <4> HIDE DEF others
        <4>2. r \in Thread /\ Sound(r)
          BY <1>t, <4>1 DEF Thread, Pcs, Sound, ClaimPcs
        <4>3. th' = [th EXCEPT ![t] = r]
          BY <3>2, <1>t DEF others, IInv, TypeOK, ThreadsTyped
        <4>4. QED
          BY <4>2, <4>3
      <3>3. QED
        BY <2>1, <3>1, <3>2 DEF AuthorizeRead
    <2>3. QED
      BY <1>f, <2>1, <2>2, ReadKeepsInv DEF AuthorizeRead, IInv, TypeOK, RowsTyped
  <1>6. CASE \E t \in Threads : AuthorizeCommit(t)
    <2>1. PICK t \in Threads : AuthorizeCommit(t)
      BY <1>6
    <2> DEFINE c == th[t].a
    <2>2. c \in Attempts /\ cap \in [Attempts -> Row]
      BY <1>t, <2>1 DEF AuthorizeCommit, Sound, ClaimPcs, IInv, TypeOK, RowsTyped
    <2> DEFINE f == [b \in Attempts |->
                        IF b = c THEN [cap[c] EXCEPT !.by = "operator", !.expired = FALSE]
                        ELSE IF b \in th[t].dead THEN NoRow
                        ELSE IF b \in th[t].others THEN [cap[b] EXCEPT !.consumed = TRUE]
                        ELSE cap[b]]
    <2>3. /\ cap' = cap \/ (cap' = f /\ cap[c].there)
          /\ files' \subseteq files
      BY <2>1 DEF AuthorizeCommit
    <2>4. ASSUME NEW b \in Attempts
          PROVE  /\ f[b] \in Row
                 /\ f[b].token => f[b].by # "none"
                 /\ f[b].there => /\ cap[b].there /\ f[b].kick = cap[b].kick
                                  /\ f[b].by \in {cap[b].by, "operator"}
                                  /\ cap[b].consumed => f[b].consumed
      <3>1. \/ f[b] = [cap[b] EXCEPT !.by = "operator", !.expired = FALSE]
            \/ f[b] = NoRow
            \/ f[b] = [cap[b] EXCEPT !.consumed = TRUE]
            \/ f[b] = cap[b]
        OBVIOUS
      <3>2. NoRow.there = FALSE /\ NoRow.token = FALSE
        BY DEF NoRow
      <3>3. cap[b].token => cap[b].by # "none"
        BY DEF IInv, TypeOK, TokenGranted
      <3> HIDE DEF f
      <3>4. cap[b] \in Row
        BY <2>2
      <3>5. CASE f[b] = [cap[b] EXCEPT !.by = "operator", !.expired = FALSE]
        BY <3>4, <3>5 DEF Row
      <3>6. CASE f[b] = NoRow
        BY <3>2, <3>6, FirstTypes
      <3>7. CASE f[b] = [cap[b] EXCEPT !.consumed = TRUE]
        BY <3>3, <3>4, <3>7 DEF Row
      <3>8. CASE f[b] = cap[b]
        BY <3>3, <3>4, <3>8
      <3>9. QED
        BY <3>1, <3>5, <3>6, <3>7, <3>8
    <2> HIDE DEF f
    <2>5. cap' \in [Attempts -> Row] /\ \A b \in Attempts : RowKept(b)
      <3>1. CASE cap' = cap
        BY <2>2, <3>1 DEF RowKept
      <3>2. CASE cap' = f
        BY <2>4, <3>2 DEF RowKept, f
      <3>3. QED
        BY <2>3, <3>1, <3>2
    <2>6. TokenGranted'
      BY <2>3, <2>4 DEF TokenGranted, IInv, TypeOK
    <2>7. QED
      BY <1>f, <2>1, <2>3, <2>5, <2>6, EndKeepsInv
      DEF AuthorizeCommit, IInv, TypeOK, RowsTyped
  <1>7. CASE \E t \in Threads, a \in Attempts : Poll(t, a)
    <2>1. PICK t \in Threads, a \in Attempts : Poll(t, a)
      BY <1>7
    <2>2. PICK pc \in {"reject", "prepare"} :
             /\ th' = [th EXCEPT ![t] = [Idle EXCEPT !.a = a, !.pc = pc]]
             /\ pc = "prepare" => cap[a].by # "none"
      BY <2>1 DEF Poll, Authorized
    <2> DEFINE r == [Idle EXCEPT !.a = a, !.pc = pc]
    <2>3. a <= made /\ a \in 0 .. MaxClaims
      BY <2>1, BootConstants DEF Poll, IInv, TypeOK, ClaimsMade, Attempts
    <2>4. r \in Thread /\ Sound(r)
      BY <2>2, <2>3, FirstTypes DEF Thread, Pcs, Sound, ClaimPcs
    <2> HIDE DEF r
    <2>5. QED
      BY <1>f, <2>1, <2>2, <2>4, ReadKeepsInv DEF Poll, r, IInv, TypeOK, RowsTyped
  <1>8. CASE \E t \in Threads, a \in Attempts : Fetch(t, a)
    <2>1. PICK t \in Threads, a \in Attempts : Fetch(t, a)
      BY <1>8
    <2>2. PICK pc \in {"reject", "consume"}, op \in {"none", "fetch"} :
             /\ th' = [th EXCEPT ![t] = [Idle EXCEPT !.a = a, !.pc = pc, !.ctx = applied,
                                                     !.op = op]]
             /\ pc = "consume" => Loadable(a)
      BY <2>1 DEF Fetch
    <2> DEFINE r == [Idle EXCEPT !.a = a, !.pc = pc, !.ctx = applied, !.op = op]
    <2>3. a <= made /\ a \in 0 .. MaxClaims /\ applied \in Config
      BY <2>1, BootConstants DEF Fetch, IInv, TypeOK, ClaimsMade, Attempts, ConfigTyped
    <2>4. r \in Thread /\ r.a = a /\ r.pc = pc /\ r.ctx = applied
      BY <2>2, <2>3, FirstTypes DEF Thread, Pcs
    <2>5. pc = "consume" => Current(r)
      <3>1. cap[a].by \in {"policy", "operator"}
        BY <2>1 DEF Fetch, IInv, TypeOK, TokenGranted, RowsTyped, Row
      <3>2. QED
        BY <2>2, <2>4, <3>1 DEF Loadable, Fits, Permits, Current
    <2>6. Sound(r)
      BY <2>2, <2>3, <2>4, <2>5 DEF Sound, ClaimPcs
    <2> HIDE DEF r
    <2>7. QED
      BY <1>f, <2>1, <2>2, <2>4, <2>6, ReadKeepsInv DEF Fetch, r, IInv, TypeOK, RowsTyped
  <1>9. CASE \E t \in Threads : Prepare(t)
    <2>1. PICK t \in Threads : Prepare(t)
      BY <1>9
    <2>2. PICK pc \in {"token", "reject"} : th' = [th EXCEPT ![t].pc = pc]
      BY <2>1 DEF Prepare, Go
    <2> DEFINE r == [th[t] EXCEPT !.pc = pc]
    <2>3. th[t].pc = "prepare" /\ th[t].a \in Attempts /\ th[t].a <= made
      BY <1>t, <2>1 DEF Prepare, Sound, ClaimPcs
    <2>4. r \in Thread /\ Sound(r) /\ th' = [th EXCEPT ![t] = r]
      BY <1>t, <2>2, <2>3 DEF Thread, Pcs, Sound, ClaimPcs
    <2> HIDE DEF r
    <2>5. files' \subseteq files \cup {th[t].a}
      BY <2>1 DEF Prepare
    <2>6. QED
      BY <1>f, <2>1, <2>3, <2>4, <2>5, ReadKeepsInv DEF Prepare, IInv, TypeOK, RowsTyped
  <1>10. CASE \E t \in Threads : RecordToken(t)
    <2>1. PICK t \in Threads : RecordToken(t)
      BY <1>10
    <2> DEFINE a == th[t].a
    <2>2. a \in Attempts /\ (cap[a].there => cap[a].by # "none")
      BY <1>t, <2>1 DEF RecordToken, Sound, ClaimPcs
    <2>3. cap \in [Attempts -> Row] /\ TokenGranted
      BY DEF IInv, TypeOK, RowsTyped
    <2>4. cap' = cap \/ (cap[a].there /\ cap' = [cap EXCEPT ![a].token = TRUE])
      BY <2>1 DEF RecordToken
    <2> HIDE DEF a
    <2>5. /\ cap' \in [Attempts -> Row] /\ TokenGranted'
          /\ \A b \in Attempts : RowKept(b)
      <3>1. CASE cap' = cap
        BY <2>3, <3>1 DEF TokenGranted, RowKept
      <3>2. CASE cap[a].there /\ cap' = [cap EXCEPT ![a].token = TRUE]
        <4>1. cap' \in [Attempts -> Row]
          BY <2>2, <2>3, <3>2 DEF Row
        <4>2. \A b \in Attempts :
                /\ cap'[b].there = cap[b].there /\ cap'[b].by = cap[b].by
                /\ cap'[b].kick = cap[b].kick /\ cap'[b].consumed = cap[b].consumed
                /\ b # a => cap'[b] = cap[b]
          BY <2>2, <2>3, <3>2 DEF Row
        <4>3. QED
          BY <2>2, <2>3, <3>2, <4>1, <4>2 DEF TokenGranted, RowKept
      <3>3. QED
        BY <2>4, <3>1, <3>2
    <2>6. QED
      BY <1>f, <2>1, <2>5, EndKeepsInv DEF RecordToken, IInv, TypeOK, RowsTyped
  <1>11. CASE \E t \in Threads : Reject(t)
    <2>1. PICK t \in Threads : Reject(t)
      BY <1>11
    <2>2. cap \in [Attempts -> Row] /\ TokenGranted /\ RowsTyped
      BY DEF IInv, TypeOK, RowsTyped
    <2>3. cap' = cap \/ cap' = Consumed({th[t].a})
      BY <2>1 DEF Reject
    <2>4. /\ cap' \in [Attempts -> Row] /\ TokenGranted'
          /\ \A b \in Attempts : RowKept(b)
      <3>1. \A b \in Attempts : \/ cap'[b] = cap[b]
                                \/ cap'[b] = [cap[b] EXCEPT !.consumed = TRUE]
        BY <2>2, <2>3 DEF Consumed
      <3>2. \A b \in Attempts :
              /\ cap'[b].there = cap[b].there /\ cap'[b].by = cap[b].by
              /\ cap'[b].kick = cap[b].kick /\ cap'[b].token = cap[b].token
              /\ cap[b].consumed => cap'[b].consumed
        BY ZenonT(60), <2>2, <3>1 DEF Row
      <3>3. QED
        BY <2>2, <2>3, <3>2, RowTypes DEF TokenGranted, RowKept
    <2>5. files' \subseteq files
      BY <2>1 DEF Reject
    <2>6. QED
      BY <1>f, <2>1, <2>4, <2>5, EndKeepsInv DEF Reject, IInv, TypeOK, RowsTyped
  <1>13. CASE \E a \in Attempts : Expire(a)
    <2>1. PICK a \in Attempts : Expire(a)
      BY <1>13
    <2>2. cap \in [Attempts -> Row] /\ TokenGranted
      BY DEF IInv, TypeOK, RowsTyped
    <2>3. /\ cap' \in [Attempts -> Row] /\ TokenGranted'
          /\ \A b \in Attempts : RowKept(b)
      BY <2>1, <2>2 DEF Expire, Row, TokenGranted, RowKept
    <2>4. RowsTyped' /\ ConfigTyped' /\ ThreadsTyped'
      BY <2>1, <2>3 DEF Expire, config, IInv, TypeOK, RowsTyped, ConfigTyped, ThreadsTyped
    <2>5. QED
      BY <1>f, <2>1, <2>3, <2>4, KeepsInv DEF Expire, config
  <1>14. CASE Edit
    <2>1. ConfigTyped'
      <3>1. desired \in Config /\ edits + 1 \in Revisions /\ edits' \in 0 .. MaxEdits
        BY <1>14, BootConstants DEF Edit, Revisions, IInv, TypeOK, ConfigTyped
      <3>2. \A b \in BOOLEAN : [desired EXCEPT !.console = b] \in Config
        BY <3>1 DEF Config
      <3>3. (~desired.console) \in BOOLEAN
        BY <3>1 DEF Config
      <3>4. /\ [desired EXCEPT !.host = edits + 1] \in Config
            /\ [desired EXCEPT !.kick = edits + 1] \in Config
            /\ [desired EXCEPT !.console = ~desired.console] \in Config
        <4>1. /\ [desired EXCEPT !.host = edits + 1] \in Config
              /\ [desired EXCEPT !.kick = edits + 1] \in Config
          BY <3>1 DEF Config
        <4>2. QED
          BY <3>2, <3>3, <4>1
      <3>5. desired' \in Config
        BY <1>14, <3>4 DEF Edit, HostSaved, KickstartSaved, PolicySaved
      <3>6. QED
        BY <1>14, <3>1, <3>5 DEF Edit, IInv, TypeOK, ConfigTyped
    <2>2. RowsTyped' /\ ThreadsTyped' /\ TokenGranted' /\ \A a \in Attempts : RowKept(a)
      BY <1>14 DEF Edit, IInv, TypeOK, RowsTyped, ThreadsTyped, TokenGranted, RowKept
    <2>3. QED
      BY <1>f, <1>14, <2>1, <2>2, KeepsInv DEF Edit
  <1>15. CASE ApplyHost
    <2>1. /\ RowsTyped' /\ ConfigTyped' /\ ThreadsTyped' /\ TokenGranted'
          /\ \A a \in Attempts : RowKept(a)
      BY <1>15 DEF ApplyHost, IInv, TypeOK, RowsTyped, ConfigTyped, ThreadsTyped,
                   TokenGranted, RowKept
    <2>2. QED
      BY <1>15, <2>1, KeepsInv DEF ApplyHost
  <1>16. CASE ApplyCommit
    <2>1. \A a \in Attempts : cap'[a] = NoRow /\ ~NoRow.there /\ ~NoRow.token
      BY <1>16 DEF ApplyCommit, NoClaims, NoRow
    <2>2. cap' \in [Attempts -> Row]
      BY <1>16, FirstTypes DEF ApplyCommit, NoClaims
    <2>3. RowsTyped' /\ ConfigTyped' /\ ThreadsTyped'
      BY <1>16, <2>2
      DEF ApplyCommit, IInv, TypeOK, RowsTyped, ConfigTyped, ThreadsTyped
    <2>4. TokenGranted' /\ \A a \in Attempts : RowKept(a)
      BY <2>1 DEF TokenGranted, RowKept
    <2>5. QED
      BY <1>f, <1>16, <2>1, <2>3, <2>4, KeepsInv DEF ApplyCommit
  <1>17. CASE ApplyFails
    <2>1. /\ RowsTyped' /\ ConfigTyped' /\ ThreadsTyped' /\ TokenGranted'
          /\ \A a \in Attempts : RowKept(a)
      BY <1>17 DEF ApplyFails, IInv, TypeOK, RowsTyped, ConfigTyped, ThreadsTyped,
                   TokenGranted, RowKept
    <2>2. QED
      BY <1>f, <1>17, <2>1, KeepsInv DEF ApplyFails
  <1>18. CASE Crash
    <2>1. ThreadsTyped' /\ \A t \in Threads : Sound(th'[t])
      BY <1>i, <1>18, FirstTypes DEF Crash, ThreadsTyped
    <2>2. RowsTyped' /\ ConfigTyped' /\ TokenGranted' /\ \A a \in Attempts : RowKept(a)
      BY <1>18, BootConstants DEF Crash, IInv, TypeOK, RowsTyped, ConfigTyped, TokenGranted,
                                  RowKept
    <2>3. QED
      BY <1>f, <1>18, <2>1, <2>2, KeepsInv DEF Crash
  <1>19. CASE UNCHANGED vars
    <2>1. /\ RowsTyped' /\ ConfigTyped' /\ ThreadsTyped' /\ TokenGranted'
          /\ \A a \in Attempts : RowKept(a)
      BY <1>19 DEF vars, IInv, TypeOK, RowsTyped, ConfigTyped, ThreadsTyped,
                   TokenGranted, RowKept
    <2>2. QED
      BY <1>f, <1>19, <2>1, KeepsInv DEF vars
  <1>4. CASE \E t \in Threads : ClaimCommit(t)
    <2>1. PICK t \in Threads : ClaimCommit(t)
      BY <1>4
    <2>2. CASE cap' = Deleted(th[t].dead) /\ UNCHANGED made
      <3>1. RowsTyped /\ TokenGranted
        BY DEF IInv, TypeOK
      <3>2. /\ cap' \in [Attempts -> Row] /\ TokenGranted'
            /\ \A b \in Attempts : RowKept(b)
        BY <2>2, <3>1, RowTypes DEF TokenGranted, RowKept, Deleted, NoRow
      <3>3. QED
        BY <1>f, <2>1, <2>2, <3>1, <3>2, EndKeepsInv DEF ClaimCommit, RowsTyped
    <2>3. CASE /\ made' = made + 1
               /\ cap' = [Deleted(th[t].dead) EXCEPT ![made + 1] = NewClaim(th[t].ctx)]
      BY <1>t, <2>1, <2>3, NewClaimKeepsInv
    <2>4. QED
      BY <2>1, <2>2, <2>3 DEF ClaimCommit
  <1>12. CASE \E t \in Threads : Consume(t)
    BY <1>12, ConsumeKeepsInv
  <1>20. QED
    BY <1>1, <1>2, <1>3, <1>4, <1>5, <1>6, <1>7, <1>8, <1>9, <1>10, <1>11, <1>12,
       <1>13, <1>14, <1>15, <1>16, <1>17, <1>18, <1>19 DEF Next, Request

-----------------------------------------------------------------------------
(* The initial state: no claims, idle requests.                            *)
LEMMA InitInv == Init => IInv
  <1> SUFFICES ASSUME Init PROVE IInv
    OBVIOUS
  <1>1. RowsTyped /\ ConfigTyped /\ ThreadsTyped
    BY FirstTypes, BootConstants DEF Init, RowsTyped, ConfigTyped, ThreadsTyped
  <1>2. ServedTyped /\ \A a \in Attempts : served[a] = <<>>
    BY DEF Init, ServedTyped
  <1>3. TokenGranted /\ ServedSpent /\ ClaimsMade
    BY <1>2 DEF Init, NoRow, TokenGranted, ServedSpent, ClaimsMade
  <1>4. Requests
    BY DEF Init, Requests, Sound, ClaimPcs, Idle
  <1>5. ServedMade /\ RenderedOnce
    BY <1>2 DEF ServedMade, RenderedOnce
  <1>6. QED
    BY <1>1, <1>2, <1>3, <1>4, <1>5 DEF IInv, TypeOK

(* Requests, administrators, applies, time and crashes keep the inductive  *)
(* invariant, for every number of threads, claims, edits and crashes.      *)
THEOREM Invariance == Spec => []IInv
  BY InitInv, InvStep, PTL DEF Spec

(* Every reachable state of the claims, the files and the requests is well *)
(* typed; tokens are only for authorized claims, and a rendered Kickstart  *)
(* has spent its claim.                                                    *)
THEOREM TypeCorrect == Spec => []TypeOK
  <1>1. IInv => TypeOK
    BY DEF IInv
  <1>2. QED
    BY <1>1, Invariance, PTL

(* consume_esxi_boot_capability renders the Kickstart of a claim at most   *)
(* once, however many requests fetch it at once or again.                  *)
THEOREM OneKickstart == Spec => []RenderedOnce
  <1>1. IInv => RenderedOnce
    BY DEF IInv
  <1>2. QED
    BY <1>1, Invariance, PTL

(* What is rendered is what is applied at that moment, under an            *)
(* authorization that the applied policy accepts: the apply deletes every  *)
(* claim in the transaction that records its snapshot.                     *)
THEOREM KickstartIsApplied == Spec => RenderedIsApplied
  <1>1. ASSUME IInv, [Next]_vars
        PROVE  [\A a \in Attempts : served'[a] # served[a] =>
                  /\ Last(served'[a]) = applied.kick /\ cap[a].kick = applied.kick
                  /\ cap[a].by = "operator" \/ ~applied.console]_vars
    <2> SUFFICES ASSUME NEW a \in Attempts, served'[a] # served[a]
                 PROVE  /\ Last(served'[a]) = applied.kick /\ cap[a].kick = applied.kick
                        /\ cap[a].by = "operator" \/ ~applied.console
      OBVIOUS
    <2>1. PICK t \in Threads : Consume(t)
      BY <1>1, OnlyConsumeRenders
    <2>2. /\ Current(th[t]) /\ th[t].a \in Attempts
          /\ served' = [served EXCEPT ![th[t].a] = <<applied.kick>>]
      BY <1>1, <2>1, ConsumeRenders
    <2>3. th[t].a = a /\ served'[a] = <<applied.kick>>
      BY <1>1, <2>2 DEF IInv, TypeOK, ServedTyped
    <2>4. Last(<<applied.kick>>) = applied.kick
      BY DEF Last
    <2>5. QED
      BY <2>2, <2>3, <2>4 DEF Current
  <1>2. QED
    BY <1>1, Invariance, PTL DEF Spec, RenderedIsApplied
=============================================================================
